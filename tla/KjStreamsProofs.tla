-------------------------- MODULE KjStreamsProofs ---------------------------
(***************************************************************************)
(* What every operation of a KjAsync runtime keeps, for any number of      *)
(* calls, any client programs and any size of the id space: the lemmas     *)
(* that KjAsyncProofs and KjHttpProofs put together.                       *)
(*                                                                         *)
(* Part 1: the thread and its callers.  Part 2: the search for a free id.  *)
(* Part 3: the tables.                                                     *)
(***************************************************************************)
EXTENDS KjStreams, SequenceTheorems, FiniteSetTheorems, WellFoundedInduction, TLAPS

-----------------------------------------------------------------------------
(* Part 1.  Whatever an operation does to the tables, the callers see one  *)
(* of these steps.                                                         *)

AnswerStep == cur # 0 /\ (Fails \/ \E h \in Handles : Grants(h))

LoopStep == \/ \E c \in Calls : Begin(c) \/ \E requests : Enqueue(c, requests)
            \/ Unregister \/ Shutdown \/ Join
            \/ Pop \/ Leave \/ AnswerStep
            \/ UNCHANGED loopVars

\* registered goes before stopping_ is set, and the release knows which it has done.
ReleaseOrder == /\ registered <=> releaser = "none"
                /\ stopping <=> releaser \in {"joining", "joined"}

\* A completion is written once, and a call in progress is one of its program's.
CallsInOrder == \A c \in Calls : /\ pc[c] # "done" => reply[c] = NoReply
                                 /\ pc[c] # "new" => c \in DOMAIN program.script

LoopInv == LoopTypeOK /\ NoLostCall /\ ReleaseOrder /\ CallsInOrder

LEMMA LoopInitOK == LoopInit => LoopInv
<1> SUFFICES ASSUME LoopInit PROVE LoopInv
  OBVIOUS
<1>1. NoReply \in Completions
  BY DEF NoReply, Completions, Handles
<1>2. Len(NoRequest[2]) \in Nat /\ DOMAIN NoRequest[2] = 1..Len(NoRequest[2])
  BY DEF NoRequest
<1>3. LoopTypeOK
  <2>1. /\ DOMAIN req = Calls
        /\ \A c \in Calls : Len(req[c][2]) \in Nat /\ DOMAIN req[c][2] = 1..Len(req[c][2])
    <3>1. DOMAIN req = Calls /\ \A c \in Calls : req[c] = NoRequest
      BY DEF LoopInit
    <3>2. QED
      BY <1>2, <3>1
  <2>2. /\ pc \in [Calls -> {"new", "found", "queued", "done"}]
        /\ reply \in [Calls -> Completions]
        /\ queue \in Seq(Calls)
    BY <1>1 DEF LoopInit
  <2>3. QED
    BY <2>1, <2>2 DEF LoopInit, LoopTypeOK
<1>4. 0 \notin Calls
  BY LoopAssumption DEF Calls
<1>5. QED
  BY <1>3, <1>4 DEF LoopInit, LoopInv, NoLostCall, ReleaseOrder, CallsInOrder

\* What was said of the arguments of a program's requests.
LEMMA RequestIsList ==
    ASSUME LoopTypeOK, NEW c \in DOMAIN program.script, NEW r \in program.script[c]
    PROVE  Len(r[2]) \in Nat /\ DOMAIN r[2] = 1..Len(r[2])
BY LoopAssumption DEF LoopTypeOK

LEMMA FailedIsCompletion ==
    Failed("error") \in Completions /\ Failed("refused") \in Completions
BY DEF Failed, Completions, Handles

LEMMA CallerKeepsLoop ==
    ASSUME LoopInv, NEW c \in Calls, Begin(c) \/ \E requests : Enqueue(c, requests)
    PROVE  LoopInv'
<1> USE DEF LoopInv, callVars, sharedVars
<1>begin. CASE Begin(c)
  <2>1. LoopTypeOK'
    BY <1>begin, FailedIsCompletion DEF Begin, LoopTypeOK, Complete, Goto
  <2>2. \A d \in Calls : pc'[d] = "queued" <=> pc[d] = "queued"
    BY <1>begin DEF Begin, LoopTypeOK, Complete, Goto
  <2>3. NoLostCall'
    BY <1>begin, <2>2 DEF Begin, NoLostCall
  <2>4. ReleaseOrder' /\ CallsInOrder'
    BY <1>begin DEF Begin, ReleaseOrder, CallsInOrder, LoopTypeOK, Complete, Goto
  <2>5. QED
    BY <2>1, <2>3, <2>4
<1>enqueue. CASE \E requests : Enqueue(c, requests)
  <2>1. PICK r \in program.script[c] :
           /\ pc[c] = "found"
           /\ \/ stopping /\ Complete(c, Failed("refused")) /\ UNCHANGED <<queue, req>>
              \/ /\ ~stopping
                 /\ queue' = Append(queue, c)
                 /\ req' = [req EXCEPT ![c] = r]
                 /\ Goto(c, "queued")
                 /\ UNCHANGED reply
           /\ UNCHANGED <<program, registered, releaser, stopping, cur, worker>>
    BY <1>enqueue DEF Enqueue
  <2>2. c \in DOMAIN program.script
    BY <2>1 DEF CallsInOrder
  <2>refused. CASE stopping
    <3>1. LoopTypeOK'
      BY <2>1, <2>refused, FailedIsCompletion DEF LoopTypeOK, Complete, Goto
    <3>2. \A d \in Calls : pc'[d] = "queued" <=> pc[d] = "queued"
      BY <2>1, <2>refused DEF LoopTypeOK, Complete, Goto
    <3>3. NoLostCall'
      BY <2>1, <2>refused, <3>2 DEF NoLostCall
    <3>4. ReleaseOrder' /\ CallsInOrder'
      BY <2>1, <2>refused DEF ReleaseOrder, CallsInOrder, LoopTypeOK, Complete, Goto
    <3>5. QED
      BY <3>1, <3>3, <3>4
  <2>queued. CASE ~stopping
    <3>1. LoopTypeOK'
      <4>1. Len(r[2]) \in Nat /\ DOMAIN r[2] = 1..Len(r[2])
        BY <2>2, RequestIsList
      <4>2. DOMAIN req' = Calls /\ \A d \in Calls : req'[d] = IF d = c THEN r ELSE req[d]
        BY <2>1, <2>queued DEF LoopTypeOK
      <4>3. \A d \in Calls : Len(req'[d][2]) \in Nat /\ DOMAIN req'[d][2] = 1..Len(req'[d][2])
        BY <4>1, <4>2 DEF LoopTypeOK
      <4>4. pc' \in [Calls -> {"new", "found", "queued", "done"}] /\ queue' \in Seq(Calls)
        <5>1. pc' \in [Calls -> {"new", "found", "queued", "done"}]
          BY <2>1, <2>queued DEF LoopTypeOK, Goto
        <5>2. queue' = Append(queue, c) /\ queue \in Seq(Calls)
          BY <2>1, <2>queued DEF LoopTypeOK
        <5>3. QED
          BY <5>1, <5>2
      <4>5. UNCHANGED <<program, reply, registered, releaser, stopping, cur, worker>>
        BY <2>1, <2>queued
      <4>6. QED
        BY <4>2, <4>3, <4>4, <4>5 DEF LoopTypeOK
    <3>2. /\ Len(queue') = Len(queue) + 1 /\ queue'[Len(queue) + 1] = c
          /\ \A i \in 1..Len(queue) : queue'[i] = queue[i]
          /\ Len(queue) \in Nat
      BY <2>1, <2>queued DEF LoopTypeOK
    <3>3. c # cur /\ \A i \in 1..Len(queue) : queue[i] # c
      BY <2>1 DEF NoLostCall
    <3>4. \A d \in Calls : pc'[d] = "queued" <=> (d = c \/ pc[d] = "queued")
      BY <2>1, <2>queued DEF LoopTypeOK, Goto
    <3>5. NoLostCall'
      BY <2>1, <2>queued, <3>2, <3>3, <3>4 DEF NoLostCall
    <3>6. ReleaseOrder' /\ CallsInOrder'
      BY <2>1, <2>2, <2>queued DEF ReleaseOrder, CallsInOrder, LoopTypeOK, Goto
    <3>7. QED
      BY <3>1, <3>5, <3>6
  <2>3. QED
    BY <2>refused, <2>queued
<1>1. QED
  BY <1>begin, <1>enqueue

LEMMA ReleaseKeepsLoop ==
    ASSUME LoopInv, Unregister \/ Shutdown \/ Join
    PROVE  LoopInv'
<1> USE DEF LoopInv, callVars
<1>1. UNCHANGED <<program, pc, req, reply, queue, cur, worker>>
  BY DEF Unregister, Shutdown, Join
<1>2. LoopTypeOK'
  BY <1>1 DEF Unregister, Shutdown, Join, LoopTypeOK
<1>3. stopping => stopping'
  BY DEF Unregister, Shutdown, Join
<1>4. NoLostCall'
  BY <1>1, <1>3 DEF NoLostCall
<1>5. ReleaseOrder'
  BY DEF Unregister, Shutdown, Join, ReleaseOrder, LoopTypeOK
<1>6. CallsInOrder'
  BY <1>1 DEF CallsInOrder
<1>7. QED
  BY <1>2, <1>4, <1>5, <1>6

LEMMA PopKeepsLoop ==
    ASSUME LoopInv, Pop
    PROVE  LoopInv'
<1> USE DEF LoopInv, callVars, sharedVars
<1>1. UNCHANGED <<program, pc, req, reply, registered, releaser, stopping, worker>>
  BY DEF Pop
<1>2. /\ queue \in Seq(Calls) /\ queue # <<>> /\ worker = "up" /\ cur = 0
      /\ cur' = Head(queue) /\ queue' = Tail(queue)
  BY DEF Pop, LoopTypeOK
<1>3. /\ cur' \in Calls /\ queue' \in Seq(Calls) /\ cur' = queue[1]
      /\ Len(queue) \in Nat \ {0} /\ Len(queue') = Len(queue) - 1
      /\ \A i \in 1..Len(queue') : queue'[i] = queue[i + 1]
  BY <1>2, HeadTailProperties
<1>4. LoopTypeOK'
  BY <1>1, <1>3 DEF LoopTypeOK
<1>5. 0 \notin Calls
  BY LoopAssumption DEF Calls
<1>6. ASSUME NEW c \in Calls
      PROVE  (\E i \in 1..Len(queue) : queue[i] = c)
             <=> (c = cur' \/ \E i \in 1..Len(queue') : queue'[i] = c)
  <2>1. ASSUME NEW i \in 1..Len(queue), queue[i] = c
        PROVE  c = cur' \/ \E j \in 1..Len(queue') : queue'[j] = c
    <3>1. i = 1 \/ i - 1 \in 1..Len(queue')
      BY <1>3
    <3>2. QED
      BY <1>3, <2>1, <3>1
  <2>2. QED
    BY <1>3, <2>1
<1>7. NoLostCall'
  <2>1. \A c \in Calls : pc'[c] = "queued" <=> (c = cur' \/ \E i \in 1..Len(queue') : queue'[i] = c)
    BY <1>1, <1>2, <1>5, <1>6 DEF NoLostCall
  <2>2. \A i, j \in 1..Len(queue') : queue'[i] = queue'[j] => i = j
    BY <1>3 DEF NoLostCall
  <2>3. \A i \in 1..Len(queue') : queue'[i] # cur'
    BY <1>3 DEF NoLostCall
  <2>4. worker' # "dead"
    BY <1>1, <1>2
  <2>5. QED
    BY <2>1, <2>2, <2>3, <2>4 DEF NoLostCall
<1>8. ReleaseOrder' /\ CallsInOrder'
  BY <1>1 DEF ReleaseOrder, CallsInOrder
<1>9. QED
  BY <1>4, <1>7, <1>8

LEMMA LeaveKeepsLoop ==
    ASSUME LoopInv, Leave
    PROVE  LoopInv'
BY DEF LoopInv, Leave, LoopTypeOK, NoLostCall, ReleaseOrder, CallsInOrder, callVars, sharedVars

\* The completion that an operation writes.
LEMMA AnswerWrites ==
    ASSUME AnswerStep
    PROVE  \E r \in Completions : r.st \in {"ok", "error"} /\ Answer(r)
<1>1. CASE Fails
  BY <1>1, FailedIsCompletion DEF Fails, Failed
<1>2. CASE \E h \in Handles : Grants(h)
  <2>1. PICK h \in Handles : Grants(h)
    BY <1>2
  <2>2. [st |-> "ok", got |-> h] \in Completions
    BY DEF Handles, Completions
  <2>3. QED
    BY <2>1, <2>2 DEF Grants
<1>3. QED
  BY <1>1, <1>2 DEF AnswerStep

LEMMA AnswerKeepsLoop ==
    ASSUME LoopInv, AnswerStep
    PROVE  LoopInv'
<1> USE DEF LoopInv, sharedVars
<1>1. PICK r \in Completions : Answer(r)
  BY AnswerWrites
<1>2. cur \in Calls /\ 0 \notin Calls
  BY LoopAssumption DEF AnswerStep, LoopTypeOK, Calls
<1>3. /\ UNCHANGED <<program, registered, releaser, stopping, queue, worker>>
      /\ pc' = [pc EXCEPT ![cur] = "done"]
      /\ reply' = [reply EXCEPT ![cur] = r]
      /\ req' = [req EXCEPT ![cur] = NoRequest]
      /\ cur' = 0
  BY <1>1 DEF Answer, Complete, Goto
<1>4. LoopTypeOK'
  <2>1. Len(NoRequest[2]) \in Nat /\ DOMAIN NoRequest[2] = 1..Len(NoRequest[2])
    BY DEF NoRequest
  <2>2. DOMAIN req' = Calls /\ \A d \in Calls : req'[d] = IF d = cur THEN NoRequest ELSE req[d]
    BY <1>2, <1>3 DEF LoopTypeOK
  <2>3. \A d \in Calls : Len(req'[d][2]) \in Nat /\ DOMAIN req'[d][2] = 1..Len(req'[d][2])
    BY <2>1, <2>2 DEF LoopTypeOK
  <2>4. /\ pc' \in [Calls -> {"new", "found", "queued", "done"}]
        /\ reply' \in [Calls -> Completions]
        /\ cur' \in {0} \cup Calls
    BY <1>2, <1>3 DEF LoopTypeOK
  <2>5. QED
    BY <1>3, <2>2, <2>3, <2>4 DEF LoopTypeOK
<1>5. NoLostCall'
  <2>1. \A c \in Calls : pc'[c] = "queued" <=> (c # cur /\ pc[c] = "queued")
    BY <1>2, <1>3 DEF LoopTypeOK
  <2>2. \A c \in Calls : c # 0
    BY <1>2
  <2>3. \A i \in 1..Len(queue) : queue[i] # cur /\ queue[i] \in Calls
    BY DEF NoLostCall, LoopTypeOK
  <2>4. worker # "dead"
    BY DEF NoLostCall, AnswerStep
  <2>5. QED
    BY <1>3, <2>1, <2>2, <2>3, <2>4 DEF NoLostCall
<1>6. ReleaseOrder' /\ CallsInOrder'
  <2>1. pc[cur] = "queued"
    BY <1>2 DEF NoLostCall
  <2>2. QED
    BY <1>2, <1>3, <2>1 DEF ReleaseOrder, CallsInOrder, LoopTypeOK
<1>7. QED
  BY <1>4, <1>5, <1>6

LEMMA LoopStepKeeps ==
    ASSUME LoopInv, LoopStep
    PROVE  LoopInv'
<1>1. CASE UNCHANGED loopVars
  <2>1. UNCHANGED <<program, pc, req, reply, registered, releaser, stopping, queue, cur, worker>>
    BY <1>1 DEF loopVars, callVars, sharedVars
  <2>2. LoopTypeOK' /\ NoLostCall'
    BY <2>1 DEF LoopInv, LoopTypeOK, NoLostCall
  <2>3. QED
    BY <2>1, <2>2 DEF LoopInv, ReleaseOrder, CallsInOrder
<1>2. QED
  BY <1>1, CallerKeepsLoop, ReleaseKeepsLoop, PopKeepsLoop, LeaveKeepsLoop, AnswerKeepsLoop
     DEF LoopStep

-----------------------------------------------------------------------------
(* The callers see the service of CallService: Phases is its phase.        *)

Phases == [c \in Calls |-> Phase(c)]

LEMMA ServiceInitOK == LoopInit => Service!Init
<1> SUFFICES ASSUME LoopInit PROVE Service!Init
  OBVIOUS
<1>1. \A c \in Calls : Phase(c) = "new"
  BY DEF LoopInit, Phase
<1>2. Gate = "open"
  BY DEF LoopInit, Gate
<1>3. QED
  BY <1>1, <1>2 DEF Service!Init, LoopInit

\* A step that changes the phase of one call.
LEMMA OnePhase ==
    ASSUME NEW c \in Calls, NEW p, Phase(c)' = p,
           \A d \in Calls \ {c} : Phase(d)' = Phase(d)
    PROVE  Service!Move(c, p)
BY DEF Service!Move

LEMMA NoPhase ==
    ASSUME \A d \in Calls : Phase(d)' = Phase(d)
    PROVE  Phases' = Phases
BY DEF Phases

LEMMA CallerRefines ==
    ASSUME LoopInv, NEW c \in Calls, Begin(c) \/ \E requests : Enqueue(c, requests)
    PROVE  [Service!Next]_Service!vars
<1> USE DEF LoopInv, callVars, sharedVars
<1>1. /\ UNCHANGED <<registered, stopping, cur, worker>>
      /\ pc[c] \in {"new", "found"} /\ c # cur
      /\ \A d \in Calls \ {c} : pc'[d] = pc[d] /\ reply'[d] = reply[d]
  <2>1. UNCHANGED <<registered, stopping, cur, worker>> /\ pc[c] \in {"new", "found"}
    BY DEF Begin, Enqueue
  <2>2. c # cur
    BY <2>1 DEF NoLostCall
  <2>3. \A d \in Calls \ {c} : pc'[d] = pc[d] /\ reply'[d] = reply[d]
    BY DEF Begin, Enqueue, Complete, Goto, LoopTypeOK
  <2>4. QED
    BY <2>1, <2>2, <2>3
<1>2. Gate' = Gate /\ Phase(c) = "new" /\ \A d \in Calls \ {c} : Phase(d)' = Phase(d)
  BY <1>1 DEF Gate, Phase
<1>3. CASE pc'[c] = "found"
  <2>1. queue' = queue /\ pc' = [pc EXCEPT ![c] = "found"]
    BY <1>3 DEF Begin, Enqueue, Complete, Goto, LoopTypeOK
  <2>2. \A d \in Calls : Phase(d)' = Phase(d)
    BY <1>1, <1>2, <1>3 DEF Phase
  <2>3. QED
    BY <1>2, <2>1, <2>2, NoPhase DEF Service!vars, Phases
<1>4. CASE pc'[c] = "queued"
  <2>1. queue' = Append(queue, c) /\ ~stopping
    BY <1>4 DEF Begin, Enqueue, Complete, Goto, LoopTypeOK
  <2>2. Phase(c)' = "waiting"
    BY <1>1, <1>4 DEF Phase
  <2>3. Gate \in {"open", "closing"}
    BY <2>1 DEF Gate
  <2>4. Service!TakeOn(c)
    BY <1>2, <2>1, <2>2, <2>3, OnePhase DEF Service!TakeOn
  <2>5. QED
    BY <2>4 DEF Service!Next
<1>5. CASE pc'[c] = "done"
  <2>1. queue' = queue /\ reply'[c] = Failed("refused") /\ (~registered \/ stopping)
    BY <1>5 DEF Begin, Enqueue, Complete, Goto, LoopTypeOK
  <2>2. Phase(c)' = "away"
    BY <1>1, <1>5, <2>1 DEF Phase, Failed
  <2>3. Gate # "open"
    BY <2>1 DEF Gate, ReleaseOrder
  <2>4. Service!TurnAway(c)
    BY <1>2, <2>1, <2>2, <2>3, OnePhase DEF Service!TurnAway
  <2>5. QED
    BY <2>4 DEF Service!Next
<1>6. pc'[c] \in {"found", "queued", "done"}
  BY DEF Begin, Enqueue, Complete, Goto, LoopTypeOK
<1>7. QED
  BY <1>3, <1>4, <1>5, <1>6

LEMMA ReleaseRefines ==
    ASSUME LoopInv, Unregister \/ Shutdown \/ Join \/ Leave
    PROVE  [Service!Next]_Service!vars
<1> USE DEF LoopInv, callVars, sharedVars
<1>1. UNCHANGED <<pc, reply, queue, cur>>
  BY DEF Unregister, Shutdown, Join, Leave
<1>2. UNCHANGED <<Phases, queue>>
  BY <1>1 DEF Phases, Phase
<1>3. CASE Unregister
  <2>1. Gate = "open" /\ Gate' = "closing"
    BY <1>3 DEF Unregister, Gate, ReleaseOrder
  <2>2. QED
    BY <1>2, <2>1 DEF Service!Close, Service!Next, Phases
<1>4. CASE Shutdown
  <2>1. Gate = "closing" /\ Gate' = "closed"
    BY <1>4 DEF Shutdown, Gate, ReleaseOrder, NoLostCall, LoopTypeOK
  <2>2. QED
    BY <1>2, <2>1 DEF Service!Close, Service!Next, Phases
<1>5. CASE Join
  <2>1. Gate' = Gate
    BY <1>5 DEF Join, Gate
  <2>2. QED
    BY <1>2, <2>1 DEF Service!vars, Phases
<1>6. CASE Leave
  <2>1. Gate = "closed" /\ Gate' = "stopped" /\ queue = <<>> /\ cur = 0
    BY <1>6 DEF Leave, Gate, ReleaseOrder
  <2>2. \A c \in Calls : Phase(c) # "started"
    BY <2>1, LoopAssumption DEF Phase, Calls
  <2>3. QED
    BY <1>2, <2>1, <2>2 DEF Service!Stop, Service!Next, Phases
<1>7. QED
  BY <1>3, <1>4, <1>5, <1>6

LEMMA PopRefines ==
    ASSUME LoopInv, Pop
    PROVE  [Service!Next]_Service!vars
<1> USE DEF LoopInv, callVars, sharedVars
<1>1. /\ UNCHANGED <<pc, reply, registered, stopping, worker>>
      /\ cur = 0 /\ cur' = Head(queue) /\ queue' = Tail(queue) /\ queue # <<>>
      /\ queue \in Seq(Calls)
  BY DEF Pop, LoopTypeOK
<1>2. PICK c \in Calls : c = Head(queue) /\ pc[c] = "queued"
  <2>1. Head(queue) \in Calls /\ Head(queue) = queue[1] /\ 1 \in 1..Len(queue)
    BY <1>1
  <2>2. QED
    BY <2>1 DEF NoLostCall
<1>3. Phase(c)' = "started"
  BY <1>1, <1>2 DEF Phase
<1>4. \A d \in Calls \ {c} : Phase(d)' = Phase(d)
  BY <1>1, <1>2, LoopAssumption DEF Phase, Calls
<1>5. Gate' = Gate
  BY <1>1 DEF Gate
<1>6. Service!Move(c, "started")
  BY <1>3, <1>4, OnePhase
<1>7. Service!Start
  BY <1>1, <1>2, <1>5, <1>6 DEF Service!Start
<1>8. QED
  BY <1>7 DEF Service!Next

LEMMA AnswerRefines ==
    ASSUME LoopInv, AnswerStep
    PROVE  [Service!Next]_Service!vars
<1> USE DEF LoopInv, sharedVars
<1>1. PICK r \in Completions : r.st \in {"ok", "error"} /\ Answer(r)
  BY AnswerWrites
<1>2. cur \in Calls /\ 0 \notin Calls /\ pc[cur] = "queued"
  BY LoopAssumption DEF AnswerStep, LoopTypeOK, Calls, NoLostCall
<1>3. /\ UNCHANGED <<registered, stopping, queue, worker>>
      /\ pc'[cur] = "done" /\ reply'[cur] = r /\ cur' = 0
      /\ \A d \in Calls \ {cur} : pc'[d] = pc[d] /\ reply'[d] = reply[d]
  BY <1>1, <1>2 DEF Answer, Complete, Goto, LoopTypeOK
<1>4. Phase(cur) = "started" /\ Gate' = Gate
  BY <1>2, <1>3 DEF Phase, Gate
<1>5. ASSUME NEW c \in Calls, c = cur PROVE Phase(c)' = "answered"
  BY <1>1, <1>2, <1>3, <1>5 DEF Phase
<1>6. \A d \in Calls \ {cur} : Phase(d)' = Phase(d)
  BY <1>2, <1>3 DEF Phase
<1>7. ASSUME NEW c \in Calls, c = cur PROVE Service!Finish(c)
  BY <1>3, <1>4, <1>5, <1>6, <1>7, OnePhase DEF Service!Finish
<1>8. QED
  BY <1>2, <1>7 DEF Service!Next

LEMMA LoopStepRefines ==
    ASSUME LoopInv, LoopStep
    PROVE  [Service!Next]_Service!vars
<1>1. CASE UNCHANGED loopVars
  <2>1. UNCHANGED <<pc, reply, registered, stopping, queue, cur, worker>>
    BY <1>1 DEF loopVars, callVars, sharedVars
  <2>2. UNCHANGED <<Phases, queue, Gate>>
    BY <2>1 DEF Phases, Phase, Gate
  <2>3. QED
    BY <2>2 DEF Service!vars, Phases
<1>2. QED
  BY <1>1, CallerRefines, ReleaseRefines, PopRefines, AnswerRefines DEF LoopStep

-----------------------------------------------------------------------------
(* Part 2.  add* finds a free id as long as there is one, wherever its     *)
(* counter stands and however often it has wrapped.                        *)

LEMMA LessIsRelated ==
    ASSUME NEW x \in Nat, NEW y \in Nat, y < x
    PROVE  <<y, x>> \in OpToRel(<, Nat)
<1>1. <<y, x>> \in Nat \X Nat /\ <<y, x>>[1] = y /\ <<y, x>>[2] = x
  OBVIOUS
<1>2. <<y, x>>[1] < <<y, x>>[2]
  BY <1>1
<1>3. QED
  BY <1>1, <1>2, Zenon DEF OpToRel

LEMMA SmallestExists ==
    ASSUME NEW S \in SUBSET Nat, S # {}
    PROVE  \E x \in S : \A y \in S : x <= y
<1>1. \E x \in S : \A y \in S : ~(<<y, x>> \in OpToRel(<, Nat))
  BY WFMin, NatLessThanWellFounded
<1>2. PICK x \in S : \A y \in S : ~(<<y, x>> \in OpToRel(<, Nat))
  BY <1>1, Zenon
<1>3. \A y \in S : ~(y < x)
  BY <1>2, LessIsRelated, Zenon
<1>4. QED
  BY <1>3

\* The counter comes to every id within IdSpace steps.
LEMMA CounterReaches ==
    ASSUME NEW n \in Ids, NEW j \in Ids
    PROVE  \E d \in 0..IdSpace : (n + d) % IdSpace = j
<1> USE IdSpaceAssumption DEF Ids
<1>1. CASE n <= j
  <2>1. j - n \in 0..IdSpace /\ n + (j - n) = j /\ j % IdSpace = j
    BY <1>1
  <2>2. QED
    BY <2>1
<1>2. CASE j < n
  <2>1. (IdSpace + j) - n \in 0..IdSpace /\ n + ((IdSpace + j) - n) = IdSpace + j
    BY <1>2
  <2>2. (IdSpace + j) % IdSpace = j
    OBVIOUS
  <2>3. QED
    BY <2>1, <2>2
<1>3. QED
  BY <1>1, <1>2

LEMMA FreshIsFree ==
    ASSUME NEW n \in Ids, NEW used, NEW j \in Ids \ used
    PROVE  FreshFrom(n, used) \in Ids \ used
<1> DEFINE Free == {d \in 0..IdSpace : (n + d) % IdSpace \notin used}
<1>1. Free \in SUBSET Nat /\ Free # {}
  BY CounterReaches, IdSpaceAssumption
<1>2. PICK k \in Free : \A e \in Free : k <= e
  BY <1>1, SmallestExists
<1>3. \A e \in 0..(k - 1) : (n + e) % IdSpace \in used
  BY <1>2, IdSpaceAssumption
<1> DEFINE First(d) == /\ (n + d) % IdSpace \notin used
                       /\ \A e \in 0..(d - 1) : (n + e) % IdSpace \in used
<1> DEFINE c == CHOOSE d \in 0..IdSpace : First(d)
<1>4. k \in 0..IdSpace /\ First(k)
  BY <1>3
<1>5. c \in 0..IdSpace /\ First(c)
  BY <1>4, Zenon
<1>6. FreshFrom(n, used) = (n + c) % IdSpace
  BY DEF FreshFrom
<1>7. (n + c) % IdSpace \in Ids /\ (n + c) % IdSpace \notin used
  <2>1. n + c \in Nat
    BY <1>5, IdSpaceAssumption DEF Ids
  <2> HIDE DEF c
  <2>2. (n + c) % IdSpace \in 0..(IdSpace - 1)
    BY <2>1, IdSpaceAssumption
  <2>3. QED
    BY <1>5, <2>2 DEF Ids
<1>8. QED
  BY <1>6, <1>7

-----------------------------------------------------------------------------
(* Part 3.  The tables.  OneOwner, place by place: no two places hold the  *)
(* same promise, and none holds one that a combinator took over.           *)

Single ==
    /\ \A ty, uy \in PromiseTypes : \A i, j \in Ids :
          promises[ty][i] = promises[uy][j] /\ promises[ty][i] # 0 => ty = uy /\ i = j
    /\ \A s, t \in Ids : \A n \in sets[s].tasks : n \in sets[t].tasks => s = t
    /\ \A ty \in PromiseTypes : \A i, s \in Ids : promises[ty][i] \notin sets[s].tasks
    /\ \A ty \in PromiseTypes : \A i \in Ids : wait.node # 0 => wait.node # promises[ty][i]
    /\ \A s \in Ids : wait.node \notin sets[s].tasks

Roots ==
    /\ \A ty \in PromiseTypes : \A i \in Ids :
          promises[ty][i] # 0 => nodes[promises[ty][i]].root = promises[ty][i]
    /\ \A s \in Ids : \A n \in sets[s].tasks : nodes[n].root = n
    /\ wait.node # 0 => nodes[wait.node].root = wait.node

HeapInv == HeapTypeOK /\ RetiredIsGone /\ Single /\ Roots

\* What an operation of the runtime keeps.
Kept == LoopStep /\ HeapInv' /\ (EveryHandleGranted => EveryHandleGranted')

LEMMA SingleIsOneOwner == HeapInv => OneOwner
<1> SUFFICES ASSUME HeapInv, NEW n \in Nodes
             PROVE  /\ \A a, b \in Owners(n) : a = b
                    /\ nodes[n].root # n => Owners(n) = {}
  BY DEF OneOwner
<1>1. n # 0
  BY DEF HeapInv, HeapTypeOK, NodesTypeOK, Nodes
<1>2. ASSUME NEW a \in Owners(n)
      PROVE  \/ \E ty \in PromiseTypes : \E i \in Ids : a = <<ty, i>> /\ promises[ty][i] = n
             \/ \E s \in Ids : a = <<"taskSet", s>> /\ n \in sets[s].tasks
             \/ a = <<"wait", 0>> /\ wait.node = n
  BY DEF Owners
<1>3. ASSUME NEW a \in Owners(n), NEW b \in Owners(n) PROVE a = b
  <2>table. CASE \E ty \in PromiseTypes : \E i \in Ids : a = <<ty, i>> /\ promises[ty][i] = n
    <3>1. PICK ty \in PromiseTypes, i \in Ids : a = <<ty, i>> /\ promises[ty][i] = n
      BY <2>table
    <3>2. wait.node # n /\ \A s \in Ids : n \notin sets[s].tasks
      BY <1>1, <3>1 DEF HeapInv, Single
    <3>3. PICK uy \in PromiseTypes, j \in Ids : b = <<uy, j>> /\ promises[uy][j] = n
      BY <1>2, <3>2
    <3>4. ty = uy /\ i = j
      BY <1>1, <3>1, <3>3 DEF HeapInv, Single
    <3>5. QED
      BY <3>1, <3>3, <3>4
  <2>set. CASE \E s \in Ids : a = <<"taskSet", s>> /\ n \in sets[s].tasks
    <3>1. PICK s \in Ids : a = <<"taskSet", s>> /\ n \in sets[s].tasks
      BY <2>set
    <3>2. wait.node # n /\ \A ty \in PromiseTypes : \A i \in Ids : promises[ty][i] # n
      BY <3>1 DEF HeapInv, Single
    <3>3. PICK t \in Ids : b = <<"taskSet", t>> /\ n \in sets[t].tasks
      BY <1>2, <3>2
    <3>4. QED
      BY <3>1, <3>3 DEF HeapInv, Single
  <2>wait. CASE a = <<"wait", 0>> /\ wait.node = n
    <3>1. /\ \A s \in Ids : n \notin sets[s].tasks
          /\ \A ty \in PromiseTypes : \A i \in Ids : promises[ty][i] # n
      BY <1>1, <2>wait DEF HeapInv, Single
    <3>2. QED
      BY <1>2, <2>wait, <3>1
  <2>1. QED
    BY <1>2, <2>table, <2>set, <2>wait
<1>4. ASSUME NEW a \in Owners(n) PROVE nodes[n].root = n
  BY <1>1, <1>2 DEF HeapInv, Roots
<1>5. QED
  BY <1>3, <1>4

LEMMA HeapInitOK == HeapInit => HeapInv
<1> SUFFICES ASSUME HeapInit PROVE HeapInv
  OBVIOUS
<1>1. nodes = <<>> /\ Nodes = {}
  BY DEF HeapInit, Nodes
<1>2. NodesTypeOK
  BY <1>1 DEF NodesTypeOK
<1>3. 0 \in Ids /\ 1 \in Ids
  BY IdSpaceAssumption DEF Ids
<1>4. HeapTypeOK
  <2>1. promises \in [PromiseTypes -> [Ids -> {0} \cup Nodes]]
    BY DEF HeapInit
  <2>2. retired \in SUBSET Ids /\ objects \in [ObjectTypes -> SUBSET Ids]
    BY DEF HeapInit
  <2>3. sets \in [Ids -> [tasks : SUBSET Nodes, errors : Nat, last : BOOLEAN, empty : {0} \cup Nodes]]
    BY DEF HeapInit, NoTasks
  <2>4. nextId \in [PromiseTypes \cup ObjectTypes -> Ids]
    BY <1>3 DEF HeapInit
  <2>5. wait \in [node : {0} \cup Nodes, how : Hows] /\ wait.node = 0
    BY DEF HeapInit, NoWait, Hows
  <2>6. QED
    BY <1>2, <2>1, <2>2, <2>3, <2>4, <2>5 DEF HeapTypeOK
<1>5. RetiredIsGone /\ Single /\ Roots
  BY DEF HeapInit, RetiredIsGone, Single, Roots, NoTasks, NoWait
<1>6. QED
  BY <1>4, <1>5 DEF HeapInv

LEMMA GrantsAdds ==
    ASSUME LoopInv, cur # 0, NEW h \in Handles, Grants(h)
    PROVE  Granted' = Granted \cup h
<1>1. cur \in Calls /\ reply[cur] = NoReply
  BY DEF LoopInv, LoopTypeOK, CallsInOrder, NoLostCall
<1>2. \A c \in Calls : reply'[c] = IF c = cur THEN [st |-> "ok", got |-> h] ELSE reply[c]
  BY <1>1 DEF Grants, Answer, Complete, LoopInv, LoopTypeOK
<1>3. \A c \in Calls : reply'[c].got = IF c = cur THEN h ELSE reply[c].got
  BY <1>2
<1>4. reply[cur].got = {}
  BY <1>1 DEF NoReply
<1>5. QED
  BY <1>1, <1>3, <1>4 DEF Granted

LEMMA FailsAdds ==
    ASSUME LoopInv, cur # 0, Fails
    PROVE  Granted' = Granted
<1>1. cur \in Calls /\ reply[cur] = NoReply
  BY DEF LoopInv, LoopTypeOK, CallsInOrder, NoLostCall
<1>2. \A c \in Calls : reply'[c] = IF c = cur THEN Failed("error") ELSE reply[c]
  BY <1>1 DEF Fails, Answer, Complete, LoopInv, LoopTypeOK
<1>3. \A c \in Calls : reply'[c].got = IF c = cur THEN {} ELSE reply[c].got
  BY <1>2 DEF Failed
<1>4. reply[cur].got = {}
  BY <1>1 DEF NoReply
<1>5. QED
  BY <1>1, <1>3, <1>4 DEF Granted

LEMMA SilenceAdds ==
    ASSUME UNCHANGED loopVars
    PROVE  Granted' = Granted /\ LoopStep /\ cur' = cur
BY DEF Granted, loopVars, callVars, LoopStep

LEMMA AnswerIsStep ==
    ASSUME cur # 0, Fails \/ \E h \in Handles : Grants(h)
    PROVE  LoopStep /\ cur' = 0
BY DEF LoopStep, AnswerStep, Fails, Grants, Answer

LEMMA SucceedsGrants == Succeeds => \E h \in Handles : Grants(h) /\ h = {}
BY DEF Succeeds, Handles

LEMMA HandleIsHandle ==
    ASSUME NEW ty \in PromiseTypes \cup ObjectTypes, NEW i \in Ids
    PROVE  {<<ty, i>>} \in Handles
<1>1. i \in Nat
  BY IdSpaceAssumption DEF Ids
<1>2. QED
  BY <1>1 DEF Handles

LEMMA BumpKeeps ==
    ASSUME HeapTypeOK, NEW ty \in PromiseTypes \cup ObjectTypes, NEW i \in Ids, Bump(ty, i)
    PROVE  nextId' \in [PromiseTypes \cup ObjectTypes -> Ids]
<1>1. (i + 1) % IdSpace \in Ids
  BY IdSpaceAssumption DEF Ids
<1>2. QED
  BY <1>1 DEF Bump, HeapTypeOK

(* The promises made so far keep their places.                             *)
Grown == /\ NodesTypeOK'
         /\ Nodes \subseteq Nodes'
         /\ \A n \in Nodes : nodes'[n].root = nodes[n].root

NewNode == Len(nodes) + 1

LEMMA SameNodes ==
    ASSUME HeapTypeOK, UNCHANGED nodes
    PROVE  Grown /\ Nodes' = Nodes
BY DEF Grown, HeapTypeOK, NodesTypeOK, Nodes

LEMMA LeafAdded ==
    ASSUME HeapTypeOK, NEW kind \in Kinds, NEW on \in {Nothing} \cup (ObjectTypes \X Nat),
           NewLeaf(kind, on)
    PROVE  /\ Grown
           /\ NewNode \in Nodes' /\ nodes'[NewNode].root = NewNode
           /\ NewNode \notin Nodes /\ NewNode # 0
<1> DEFINE leaf == Leaf(kind, on)
<1>1. nodes \in Seq(NodeRecords) /\ Len(nodes) \in Nat /\ Nodes = 1..Len(nodes)
  BY DEF HeapTypeOK, NodesTypeOK, Nodes
<1>2. /\ leaf \in NodeRecords /\ leaf.root = NewNode /\ leaf.parts = <<>>
      /\ NewNode \in Nat
  <2>1. <<>> \in Seq(Nat)
    OBVIOUS
  <2>2. QED
    BY <1>1, <2>1 DEF NodeRecords, Leaf, NewNode
<1> HIDE DEF leaf
<1>3. nodes' = Append(nodes, leaf)
  BY DEF NewLeaf, leaf
<1>4. /\ nodes' \in Seq(NodeRecords) /\ Nodes' = 1..NewNode
      /\ nodes'[NewNode] = leaf /\ \A n \in Nodes : nodes'[n] = nodes[n]
  BY <1>1, <1>2, <1>3 DEF Nodes, NewNode
<1>5. NodesTypeOK'
  <2>1. ASSUME NEW n \in Nodes
        PROVE  /\ nodes'[n].root \in Nodes'
               /\ \A k \in DOMAIN nodes'[n].parts : nodes'[n].parts[k] \in 1..(n - 1)
    BY <1>1, <1>4 DEF HeapTypeOK, NodesTypeOK, NewNode
  <2>2. /\ nodes'[NewNode].root \in Nodes'
        /\ \A k \in DOMAIN nodes'[NewNode].parts : nodes'[NewNode].parts[k] \in 1..(NewNode - 1)
    BY <1>1, <1>2, <1>4 DEF NewNode
  <2>3. \A n \in Nodes' : n \in Nodes \/ n = NewNode
    BY <1>1, <1>4 DEF NewNode
  <2>4. QED
    BY <1>4, <2>1, <2>2, <2>3 DEF NodesTypeOK
<1>6. QED
  BY <1>1, <1>2, <1>4, <1>5 DEF Grown, NewNode

LEMMA StatusChanged ==
    ASSUME HeapTypeOK, NEW n \in Nodes, NEW o \in {"ok", "err"},
           nodes' = [nodes EXCEPT ![n].st = o]
    PROVE  Grown /\ Nodes' = Nodes
<1>1. nodes \in Seq(NodeRecords) /\ Len(nodes) \in Nat /\ Nodes = 1..Len(nodes)
  BY DEF HeapTypeOK, NodesTypeOK, Nodes
<1>2. [nodes[n] EXCEPT !.st = o] \in NodeRecords
  <2>1. nodes[n] \in NodeRecords
    BY <1>1
  <2>2. QED
    BY <2>1 DEF NodeRecords
<1>3. /\ nodes' \in Seq(NodeRecords) /\ Nodes' = Nodes
      /\ \A m \in Nodes : nodes'[m] = IF m = n THEN [nodes[n] EXCEPT !.st = o] ELSE nodes[m]
  BY <1>1, <1>2, ExceptSeq DEF Nodes
<1>4. \A m \in Nodes : nodes'[m].root = nodes[m].root /\ nodes'[m].parts = nodes[m].parts
  BY <1>1, <1>3 DEF NodeRecords, Nodes
<1>5. QED
  BY <1>3, <1>4 DEF Grown, HeapTypeOK, NodesTypeOK

LEMMA StillTyped ==
    ASSUME HeapTypeOK, Grown
    PROVE  /\ promises \in [PromiseTypes -> [Ids -> {0} \cup Nodes']]
           /\ sets \in [Ids -> [tasks : SUBSET Nodes', errors : Nat, last : BOOLEAN,
                                empty : {0} \cup Nodes']]
           /\ wait \in [node : {0} \cup Nodes', how : Hows]
<1>1. Nodes \subseteq Nodes'
  BY DEF Grown
<1>2. promises \in [PromiseTypes -> [Ids -> {0} \cup Nodes']]
  BY <1>1 DEF HeapTypeOK
<1>3. sets \in [Ids -> [tasks : SUBSET Nodes', errors : Nat, last : BOOLEAN,
                        empty : {0} \cup Nodes']]
  BY <1>1 DEF HeapTypeOK
<1>4. wait \in [node : {0} \cup Nodes', how : Hows]
  BY <1>1 DEF HeapTypeOK
<1>5. QED
  BY <1>2, <1>3, <1>4

LEMMA ZeroIsNoNode == HeapTypeOK => 0 \notin Nodes /\ 0 \in Nat
BY DEF HeapTypeOK, NodesTypeOK, Nodes

\* Places may lose what they hold.
LEMMA LessIsSingle ==
    ASSUME HeapInv, Grown,
           \A ty \in PromiseTypes : \A i \in Ids : promises'[ty][i] \in {0, promises[ty][i]},
           \A s \in Ids : sets'[s].tasks \subseteq sets[s].tasks,
           wait'.node \in {0, wait.node}
    PROVE  Single' /\ Roots'
<1>1. /\ \A s \in Ids : sets[s].tasks \subseteq Nodes
      /\ \A ty \in PromiseTypes : \A i \in Ids : promises[ty][i] # 0 => promises[ty][i] \in Nodes
      /\ wait.node # 0 => wait.node \in Nodes
  BY DEF HeapInv, HeapTypeOK
<1>2. 0 \notin Nodes
  BY ZeroIsNoNode DEF HeapInv
<1>3. Single'
  BY <1>1, <1>2 DEF HeapInv, Single
<1>4. Roots'
  BY <1>1 DEF HeapInv, Roots, Grown
<1>5. QED
  BY <1>3, <1>4

NewIsNew == NewNode \in Nodes' /\ nodes'[NewNode].root = NewNode /\ NewNode \notin Nodes
            /\ NewNode # 0

\* One place gets the new promise.
LEMMA NewInTable ==
    ASSUME HeapInv, Grown, NewIsNew, NEW uy \in PromiseTypes, NEW j \in Ids,
           \A ty \in PromiseTypes : \A i \in Ids :
              promises'[ty][i] = IF ty = uy /\ i = j THEN NewNode ELSE promises[ty][i],
           \A s \in Ids : sets'[s].tasks = sets[s].tasks,
           wait'.node \in {0, wait.node}
    PROVE  Single' /\ Roots'
<1>1. /\ \A s \in Ids : sets[s].tasks \subseteq Nodes
      /\ \A ty \in PromiseTypes : \A i \in Ids : promises[ty][i] # 0 => promises[ty][i] \in Nodes
      /\ wait.node # 0 => wait.node \in Nodes
  BY DEF HeapInv, HeapTypeOK
<1>2. 0 \notin Nodes
  BY ZeroIsNoNode DEF HeapInv
<1>3. NewNode \notin Nodes /\ NewNode # 0 /\ nodes'[NewNode].root = NewNode
  BY DEF NewIsNew
<1> HIDE DEF NewNode
<1>4. Single'
  <2>1. ASSUME NEW ty \in PromiseTypes, NEW vy \in PromiseTypes, NEW i \in Ids, NEW k \in Ids,
               promises'[ty][i] = promises'[vy][k], promises'[ty][i] # 0
        PROVE  ty = vy /\ i = k
    BY <1>1, <1>3, <2>1 DEF HeapInv, Single
  <2>2. \A s, t \in Ids : \A n \in sets'[s].tasks : n \in sets'[t].tasks => s = t
    BY DEF HeapInv, Single
  <2>3. \A ty \in PromiseTypes : \A i, s \in Ids : promises'[ty][i] \notin sets'[s].tasks
    BY <1>1, <1>3 DEF HeapInv, Single
  <2>4. /\ \A ty \in PromiseTypes : \A i \in Ids : wait'.node # 0 => wait'.node # promises'[ty][i]
        /\ \A s \in Ids : wait'.node \notin sets'[s].tasks
    BY <1>1, <1>2, <1>3 DEF HeapInv, Single
  <2>5. QED
    BY <2>1, <2>2, <2>3, <2>4 DEF Single
<1>5. Roots'
  BY <1>1, <1>3 DEF HeapInv, Roots, Grown
<1>6. QED
  BY <1>4, <1>5

LEMMA NewInWait ==
    ASSUME HeapInv, Grown, NewIsNew, wait.node = 0, wait'.node = NewNode,
           \A ty \in PromiseTypes : \A i \in Ids : promises'[ty][i] = promises[ty][i],
           \A s \in Ids : sets'[s].tasks = sets[s].tasks
    PROVE  Single' /\ Roots'
<1>1. /\ \A s \in Ids : sets[s].tasks \subseteq Nodes
      /\ \A ty \in PromiseTypes : \A i \in Ids : promises[ty][i] # 0 => promises[ty][i] \in Nodes
  BY DEF HeapInv, HeapTypeOK
<1>2. NewNode \notin Nodes /\ NewNode # 0 /\ nodes'[NewNode].root = NewNode
  BY DEF NewIsNew
<1> HIDE DEF NewNode
<1>3. Single'
  BY <1>1, <1>2 DEF HeapInv, Single
<1>4. Roots'
  BY <1>1, <1>2 DEF HeapInv, Roots, Grown
<1>5. QED
  BY <1>3, <1>4

\* An entry is told of by the completion that grants it.
LEMMA StillGranted ==
    ASSUME Granted \subseteq Granted',
           \A ty \in PromiseTypes : \A i \in Ids :
              promises'[ty][i] # 0 => promises[ty][i] # 0 \/ <<ty, i>> \in Granted',
           \A ty \in ObjectTypes : \A i \in objects'[ty] :
              i \in objects[ty] \/ <<ty, i>> \in Granted'
    PROVE  EveryHandleGranted => EveryHandleGranted'
BY DEF EveryHandleGranted, Busy

\* The operation's free id.
LEMMA FreeEntry ==
    ASSUME HeapTypeOK, NEW ty \in PromiseTypes, Room(ty)
    PROVE  /\ FreshFrom(nextId[ty], Busy(ty)) \in Ids
           /\ promises[ty][FreshFrom(nextId[ty], Busy(ty))] = 0
<1>1. nextId[ty] \in Ids
  BY DEF HeapTypeOK
<1>2. PICK j \in Ids : j \notin Busy(ty)
  BY DEF Room, Busy
<1>3. FreshFrom(nextId[ty], Busy(ty)) \in Ids \ Busy(ty)
  BY <1>1, <1>2, FreshIsFree
<1>4. QED
  BY <1>3 DEF Busy

LEMMA FreeObject ==
    ASSUME HeapTypeOK, NEW ty \in ObjectTypes, Room(ty)
    PROVE  FreshFrom(nextId[ty], objects[ty]) \in Ids \ objects[ty]
<1>1. nextId[ty] \in Ids /\ objects[ty] \subseteq Ids
  BY DEF HeapTypeOK
<1>2. ty \notin PromiseTypes
  BY DEF PromiseTypes, ObjectTypes
<1>3. PICK j \in Ids : j \notin objects[ty]
  BY <1>1, <1>2 DEF Room
<1>4. QED
  BY <1>1, <1>3, FreshIsFree

-----------------------------------------------------------------------------
(* The shapes of operations, each with the whole of its effect.            *)

Attending == LoopInv /\ HeapInv /\ cur # 0 /\ wait = NoWait

\* The types of a heap whose promises and waits did not move.
LEMMA QuietHeap ==
    ASSUME HeapInv, UNCHANGED <<nodes, promises, retired, sets>>, wait' = wait \/ wait' = NoWait,
           objects' \in [ObjectTypes -> SUBSET Ids],
           nextId' \in [PromiseTypes \cup ObjectTypes -> Ids],
           wait'.node # 0 => cur' # 0
    PROVE  HeapInv'
<1>1. Grown /\ Nodes' = Nodes
  BY SameNodes DEF HeapInv
<1>2. wait' \in [node : {0} \cup Nodes, how : Hows] /\ wait'.node \in {0, wait.node}
  BY DEF HeapInv, HeapTypeOK, NoWait, Hows
<1>3. HeapTypeOK'
  BY <1>1, <1>2 DEF HeapInv, HeapTypeOK, Grown
<1>4. \A ty \in PromiseTypes : \A i \in Ids : promises'[ty][i] \in {0, promises[ty][i]}
  OBVIOUS
<1>5. \A s \in Ids : sets'[s].tasks \subseteq sets[s].tasks
  OBVIOUS
<1>6. Single' /\ Roots'
  BY <1>1, <1>2, <1>4, <1>5, LessIsSingle
<1>7. RetiredIsGone'
  BY DEF HeapInv, RetiredIsGone
<1>8. QED
  BY <1>3, <1>6, <1>7 DEF HeapInv

\* Nothing but an answer.
LEMMA AnswerOnly ==
    ASSUME LoopInv, HeapInv, cur # 0, Fails \/ Succeeds, UNCHANGED heapVars, wait' = NoWait
    PROVE  Kept
<1>1. LoopStep /\ cur' = 0 /\ Granted \subseteq Granted'
  BY AnswerIsStep, SucceedsGrants, GrantsAdds, FailsAdds
<1>2. UNCHANGED <<nodes, promises, retired, objects, sets, nextId>>
  BY DEF heapVars
<1>3. objects' \in [ObjectTypes -> SUBSET Ids] /\ nextId' \in [PromiseTypes \cup ObjectTypes -> Ids]
  BY <1>2 DEF HeapInv, HeapTypeOK
<1>4. wait'.node = 0
  BY DEF NoWait
<1>5. HeapInv'
  BY <1>2, <1>3, <1>4, QuietHeap
<1>6. EveryHandleGranted => EveryHandleGranted'
  BY <1>1, <1>2, StillGranted
<1>7. QED
  BY <1>1, <1>5, <1>6 DEF Kept

LEMMA RejectsKeeps == ASSUME Attending, Rejects PROVE Kept
BY AnswerOnly DEF Attending, Rejects

LEMMA ReturnsKeeps == ASSUME Attending, Returns PROVE Kept
BY AnswerOnly DEF Attending, Returns

LEMMA AddObjectKeeps ==
    ASSUME LoopInv, HeapInv, cur # 0, wait' = NoWait, NEW ty \in ObjectTypes, AddObject(ty),
           UNCHANGED <<nodes, promises, retired, sets>>
    PROVE  Kept
<1> DEFINE i == FreshFrom(nextId[ty], objects[ty])
<1>1. i \in Ids
  BY FreeObject DEF AddObject, HeapInv
<1> HIDE DEF i
<1>2. /\ objects' = [objects EXCEPT ![ty] = @ \cup {i}]
      /\ Bump(ty, i) /\ Grants({<<ty, i>>})
  BY DEF AddObject, i
<1>3. {<<ty, i>>} \in Handles
  BY <1>1, HandleIsHandle
<1>4. LoopStep /\ cur' = 0 /\ Granted' = Granted \cup {<<ty, i>>}
  BY <1>2, <1>3, AnswerIsStep, GrantsAdds
<1>5. nextId' \in [PromiseTypes \cup ObjectTypes -> Ids]
  BY <1>1, <1>2, BumpKeeps DEF HeapInv
<1>6. objects' \in [ObjectTypes -> SUBSET Ids]
  BY <1>1, <1>2 DEF HeapInv, HeapTypeOK
<1>7. wait'.node = 0
  BY DEF NoWait
<1>8. HeapInv'
  BY <1>5, <1>6, <1>7, QuietHeap
<1>9. \A uy \in ObjectTypes : \A j \in objects'[uy] : j \in objects[uy] \/ <<uy, j>> \in Granted'
  BY <1>2, <1>4 DEF HeapInv, HeapTypeOK
<1>10. EveryHandleGranted => EveryHandleGranted'
  BY <1>4, <1>9, StillGranted
<1>11. QED
  BY <1>4, <1>8, <1>10 DEF Kept

LEMMA MakesKeeps == ASSUME Attending, NEW ty \in ObjectTypes, Makes(ty) PROVE Kept
BY AddObjectKeeps, RejectsKeeps DEF Attending, Makes

LEMMA EraseKeeps == ASSUME Attending, NEW ty \in ObjectTypes, Erase(ty) PROVE Kept
<1>1. CASE Has(ty, Arg(1))
  <2>1. /\ objects' = [objects EXCEPT ![ty] = @ \ {Arg(1)}]
        /\ Succeeds
        /\ UNCHANGED <<nodes, promises, retired, sets, nextId, wait>>
    BY <1>1 DEF Erase, Needs
  <2>2. LoopStep /\ cur' = 0 /\ Granted' = Granted
    BY <2>1, AnswerIsStep, SucceedsGrants, GrantsAdds DEF Attending
  <2>3. objects' \in [ObjectTypes -> SUBSET Ids]
    BY <2>1 DEF Attending, HeapInv, HeapTypeOK
  <2>4. nextId' \in [PromiseTypes \cup ObjectTypes -> Ids] /\ wait'.node = 0
    BY <2>1 DEF Attending, HeapInv, HeapTypeOK, NoWait
  <2>5. HeapInv'
    BY <2>1, <2>3, <2>4, QuietHeap DEF Attending
  <2>6. \A uy \in ObjectTypes : objects'[uy] \subseteq objects[uy]
    BY <2>1 DEF Attending, HeapInv, HeapTypeOK
  <2>7. EveryHandleGranted => EveryHandleGranted'
    BY <2>1, <2>2, <2>6, StillGranted
  <2>8. QED
    BY <2>2, <2>5, <2>7 DEF Kept
<1>2. CASE ~Has(ty, Arg(1))
  BY <1>2, RejectsKeeps DEF Erase, Needs
<1>3. QED
  BY <1>1, <1>2

LEMMA AddPairKeeps == ASSUME Attending, NEW ty \in ObjectTypes, AddPair(ty) PROVE Kept
<1> USE DEF Attending
<1> DEFINE i == FreshFrom(nextId[ty], objects[ty])
<1> DEFINE j == FreshFrom((i + 1) % IdSpace, objects[ty] \cup {i})
<1>1. nextId[ty] \in Ids /\ objects[ty] \subseteq Ids
  BY DEF HeapInv, HeapTypeOK
<1>2. Cardinality(Ids \ objects[ty]) >= 2
  BY DEF AddPair
<1>3. \E x \in Ids : x \notin objects[ty]
  <2>1. CASE Ids \ objects[ty] = {}
    BY <1>2, <2>1, FS_EmptySet
  <2>2. QED
    BY <2>1
<1>4. i \in Ids \ objects[ty]
  BY <1>1, <1>3, FreshIsFree
<1> HIDE DEF i
<1>5. \E x \in Ids : x \notin objects[ty] \cup {i}
  <2>1. CASE Ids \ objects[ty] = {i}
    BY <1>2, <2>1, FS_Singleton
  <2>2. QED
    BY <1>3, <1>4, <2>1
<1>6. (i + 1) % IdSpace \in Ids
  BY <1>4, IdSpaceAssumption DEF Ids
<1>7. j \in Ids
  BY <1>5, <1>6, FreshIsFree
<1> HIDE DEF j
<1>8. /\ objects' = [objects EXCEPT ![ty] = @ \cup {i, j}]
      /\ Bump(ty, j) /\ Grants({<<ty, i>>, <<ty, j>>})
      /\ UNCHANGED <<nodes, promises, retired, sets, wait>>
  BY DEF AddPair, i, j
<1>9. {<<ty, i>>, <<ty, j>>} \in Handles
  <2>1. {<<ty, i>>} \in Handles /\ {<<ty, j>>} \in Handles
    BY <1>4, <1>7, HandleIsHandle
  <2>2. QED
    BY <2>1 DEF Handles
<1>10. LoopStep /\ cur' = 0 /\ Granted' = Granted \cup {<<ty, i>>, <<ty, j>>}
  BY <1>8, <1>9, AnswerIsStep, GrantsAdds
<1>11. nextId' \in [PromiseTypes \cup ObjectTypes -> Ids]
  BY <1>7, <1>8, BumpKeeps DEF HeapInv
<1>12. objects' \in [ObjectTypes -> SUBSET Ids]
  BY <1>4, <1>7, <1>8 DEF HeapInv, HeapTypeOK
<1>13. wait'.node = 0
  BY <1>8 DEF NoWait
<1>14. HeapInv'
  BY <1>8, <1>11, <1>12, <1>13, QuietHeap
<1>15. \A uy \in ObjectTypes : \A k \in objects'[uy] : k \in objects[uy] \/ <<uy, k>> \in Granted'
  BY <1>8, <1>10 DEF HeapInv, HeapTypeOK
<1>16. EveryHandleGranted => EveryHandleGranted'
  BY <1>8, <1>10, <1>15, StillGranted
<1>17. QED
  BY <1>10, <1>14, <1>16 DEF Kept

\* What a promise may be about.
Abouts == {Nothing} \cup (ObjectTypes \X Nat)

LEMMA LeafIsNew ==
    ASSUME HeapTypeOK, NEW kind \in Kinds, NEW on \in Abouts, NewLeaf(kind, on)
    PROVE  Grown /\ NewIsNew
BY LeafAdded DEF NewIsNew, Abouts

\* A new promise goes into the table under a free id, which is granted.
LEMMA AddPromiseKeeps ==
    ASSUME LoopInv, HeapInv, cur # 0, wait = NoWait, wait' = NoWait, Grown, NewIsNew,
           NEW ty \in PromiseTypes, Room(ty), AddPromise(ty, NewNode), UNCHANGED objects,
           sets' \in [Ids -> [tasks : SUBSET Nodes', errors : Nat, last : BOOLEAN,
                              empty : {0} \cup Nodes']],
           \A s \in Ids : sets'[s].tasks = sets[s].tasks
    PROVE  Kept
<1> DEFINE i == FreshFrom(nextId[ty], Busy(ty))
<1>1. i \in Ids /\ promises[ty][i] = 0
  BY FreeEntry DEF HeapInv
<1>2. /\ promises' = [promises EXCEPT ![ty][i] = NewNode]
      /\ retired' = IF ty = "void" THEN retired \ {i} ELSE retired
      /\ Bump(ty, i) /\ Grants({<<ty, i>>})
  BY DEF AddPromise
<1> HIDE DEF i, NewNode
<1>3. {<<ty, i>>} \in Handles
  BY <1>1, HandleIsHandle
<1>4. LoopStep /\ cur' = 0 /\ Granted' = Granted \cup {<<ty, i>>}
  BY <1>2, <1>3, AnswerIsStep, GrantsAdds
<1>5. nextId' \in [PromiseTypes \cup ObjectTypes -> Ids]
  BY <1>1, <1>2, BumpKeeps DEF HeapInv
<1>6. \A uy \in PromiseTypes : \A j \in Ids :
         promises'[uy][j] = IF uy = ty /\ j = i THEN NewNode ELSE promises[uy][j]
  BY <1>1, <1>2 DEF HeapInv, HeapTypeOK
<1>7. wait'.node = 0 /\ wait' \in [node : {0} \cup Nodes', how : Hows]
  BY DEF NoWait, Hows
<1>8. Single' /\ Roots'
  BY <1>1, <1>6, <1>7, NewInTable
<1>9. promises' \in [PromiseTypes -> [Ids -> {0} \cup Nodes']]
  BY <1>1, <1>2, StillTyped DEF HeapInv, NewIsNew
<1>10. retired' \in SUBSET Ids /\ objects' \in [ObjectTypes -> SUBSET Ids]
  BY <1>2 DEF HeapInv, HeapTypeOK
<1>11. HeapTypeOK'
  BY <1>5, <1>7, <1>9, <1>10 DEF HeapTypeOK, Grown
<1>12. RetiredIsGone'
  BY <1>2, <1>6, <1>10 DEF HeapInv, HeapTypeOK, RetiredIsGone, PromiseTypes
<1>13. \A uy \in PromiseTypes : \A j \in Ids :
          promises'[uy][j] # 0 => promises[uy][j] # 0 \/ <<uy, j>> \in Granted'
  BY <1>4, <1>6
<1>14. EveryHandleGranted => EveryHandleGranted'
  BY <1>4, <1>13, StillGranted
<1>15. QED
  BY <1>4, <1>8, <1>11, <1>12, <1>14 DEF Kept, HeapInv

LEMMA StartKeeps ==
    ASSUME Attending, NEW ty \in PromiseTypes, NEW kind \in Kinds, NEW on \in Abouts,
           Start(ty, kind, on)
    PROVE  Kept
<1> USE DEF Attending
<1>1. /\ Room(ty) /\ NewLeaf(kind, on) /\ AddPromise(ty, NewNode)
      /\ UNCHANGED <<objects, sets, wait>>
  BY DEF Start, NewNode
<1>2. Grown /\ NewIsNew
  BY <1>1, LeafIsNew DEF HeapInv
<1>3. sets' \in [Ids -> [tasks : SUBSET Nodes', errors : Nat, last : BOOLEAN,
                         empty : {0} \cup Nodes']]
  BY <1>1, <1>2, StillTyped DEF HeapInv
<1>4. \A s \in Ids : sets'[s].tasks = sets[s].tasks
  BY <1>1
<1>5. wait' = NoWait
  BY <1>1
<1>6. QED
  BY <1>1, <1>2, <1>3, <1>4, <1>5, AddPromiseKeeps

\* The thread begins to wait for a new promise.
LEMMA BeginsToWait ==
    ASSUME Attending, Grown, NewIsNew, NEW how \in Hows,
           wait' = [node |-> NewNode, how |-> how],
           UNCHANGED <<promises, sets, loopVars>>,
           retired' \in SUBSET Ids, RetiredIsGone',
           objects' \in [ObjectTypes -> SUBSET Ids],
           \A uy \in ObjectTypes : objects'[uy] \subseteq objects[uy],
           nextId' \in [PromiseTypes \cup ObjectTypes -> Ids]
    PROVE  Kept
<1> USE DEF Attending
<1> HIDE DEF NewNode
<1>1. Granted' = Granted /\ LoopStep /\ cur' = cur
  BY SilenceAdds
<1>2. wait.node = 0 /\ wait'.node = NewNode
  BY DEF NoWait
<1>3. Single' /\ Roots'
  BY <1>2, NewInWait
<1>4. wait' \in [node : {0} \cup Nodes', how : Hows]
  BY DEF NewIsNew
<1>5. HeapTypeOK'
  BY <1>1, <1>4, StillTyped DEF HeapInv, HeapTypeOK, Grown
<1>6. EveryHandleGranted => EveryHandleGranted'
  BY <1>1, StillGranted
<1>7. QED
  BY <1>1, <1>3, <1>5, <1>6 DEF Kept, HeapInv

LEMMA WaitForKeeps ==
    ASSUME Attending, NEW kind \in Kinds, NEW on \in Abouts, NEW how \in Hows,
           WaitFor(kind, on, how)
    PROVE  Kept
<1>1. Grown /\ NewIsNew
  BY LeafIsNew DEF WaitFor, Attending, HeapInv
<1>2. wait' = [node |-> NewNode, how |-> how]
  BY DEF WaitFor, NewNode
<1>3. UNCHANGED <<promises, retired, objects, sets, nextId, loopVars>>
  BY DEF WaitFor
<1>4. /\ retired' \in SUBSET Ids /\ RetiredIsGone'
      /\ objects' \in [ObjectTypes -> SUBSET Ids]
      /\ nextId' \in [PromiseTypes \cup ObjectTypes -> Ids]
  BY <1>3 DEF Attending, HeapInv, HeapTypeOK, RetiredIsGone
<1>5. QED
  BY <1>1, <1>2, <1>3, <1>4, BeginsToWait

LEMMA StartAndAwaitKeeps ==
    ASSUME Attending, NEW ty \in PromiseTypes, NEW kind \in Kinds, NEW on \in Abouts,
           NEW how \in Hows, StartAndAwait(ty, kind, on, how)
    PROVE  Kept
<1> USE DEF Attending
<1> DEFINE i == FreshFrom(nextId[ty], Busy(ty))
<1>1. i \in Ids /\ promises[ty][i] = 0
  BY FreeEntry DEF HeapInv, StartAndAwait
<1>2. /\ NewLeaf(kind, on) /\ Bump(ty, i)
      /\ retired' = IF ty = "void" THEN retired \cup {i} ELSE retired
      /\ wait' = [node |-> NewNode, how |-> how]
      /\ UNCHANGED <<promises, objects, sets, loopVars>>
  BY DEF StartAndAwait, NewNode
<1> HIDE DEF i, NewNode
<1>3. Grown /\ NewIsNew
  BY <1>2, LeafIsNew DEF HeapInv
<1>4. nextId' \in [PromiseTypes \cup ObjectTypes -> Ids]
  BY <1>1, <1>2, BumpKeeps DEF HeapInv
<1>5. /\ retired' \in SUBSET Ids /\ RetiredIsGone'
      /\ objects' \in [ObjectTypes -> SUBSET Ids]
      /\ \A uy \in ObjectTypes : objects'[uy] \subseteq objects[uy]
  BY <1>1, <1>2 DEF HeapInv, HeapTypeOK, RetiredIsGone
<1>6. QED
  BY <1>2, <1>3, <1>4, <1>5, BeginsToWait

-----------------------------------------------------------------------------
(* Operations on a promise that is in its table.                           *)

LEMMA UnknownKeeps == ASSUME Attending, NEW ty, UnknownPromise(ty) PROVE Kept
BY RejectsKeeps, ReturnsKeeps DEF UnknownPromise

\* The entry is taken out, and its promise goes to the wait or nowhere.
LEMMA TakeTyped ==
    ASSUME HeapInv, NEW ty \in PromiseTypes, Take(ty)
    PROVE  \E i \in Ids :
              /\ i = Arg(1)
              /\ promises[ty][i] \in Nodes
              /\ \A uy \in PromiseTypes : \A j \in Ids :
                    promises'[uy][j] = IF uy = ty /\ j = i THEN 0 ELSE promises[uy][j]
              /\ promises' \in [PromiseTypes -> [Ids -> {0} \cup Nodes]]
              /\ retired' \in SUBSET Ids /\ RetiredIsGone'
              /\ UNCHANGED <<nodes, objects, sets, nextId>>
<1>1. PICK i \in Ids : i = Arg(1) /\ promises[ty][i] # 0
  BY DEF Take, Busy
<1>2. /\ promises' = [promises EXCEPT ![ty][i] = 0]
      /\ retired' = IF ty = "void" THEN retired \cup {i} ELSE retired
      /\ UNCHANGED <<nodes, objects, sets, nextId>>
  BY <1>1 DEF Take
<1>3. promises[ty][i] \in Nodes
  BY <1>1 DEF HeapInv, HeapTypeOK
<1>4. \A uy \in PromiseTypes : \A j \in Ids :
         promises'[uy][j] = IF uy = ty /\ j = i THEN 0 ELSE promises[uy][j]
  BY <1>2 DEF HeapInv, HeapTypeOK
<1>5. promises' \in [PromiseTypes -> [Ids -> {0} \cup Nodes]]
  BY <1>2 DEF HeapInv, HeapTypeOK
<1>6. retired' \in SUBSET Ids
  BY <1>2 DEF HeapInv, HeapTypeOK
<1>7. RetiredIsGone'
  BY <1>2, <1>4, <1>6 DEF HeapInv, HeapTypeOK, RetiredIsGone, PromiseTypes
<1>8. QED
  BY <1>1, <1>2, <1>3, <1>4, <1>5, <1>6, <1>7

LEMMA TakeAndAnswer ==
    ASSUME Attending, NEW ty \in PromiseTypes, Take(ty), Succeeds \/ Fails, UNCHANGED wait
    PROVE  Kept
<1> USE DEF Attending
<1>1. PICK i \in Ids :
         /\ \A uy \in PromiseTypes : \A j \in Ids :
               promises'[uy][j] = IF uy = ty /\ j = i THEN 0 ELSE promises[uy][j]
         /\ promises' \in [PromiseTypes -> [Ids -> {0} \cup Nodes]]
         /\ retired' \in SUBSET Ids /\ RetiredIsGone'
         /\ UNCHANGED <<nodes, objects, sets, nextId>>
  BY TakeTyped
<1>2. LoopStep /\ cur' = 0 /\ Granted \subseteq Granted'
  BY AnswerIsStep, SucceedsGrants, GrantsAdds, FailsAdds
<1>3. Grown /\ Nodes' = Nodes
  BY <1>1, SameNodes DEF HeapInv
<1>4. wait'.node = 0 /\ wait' \in [node : {0} \cup Nodes, how : Hows]
  BY DEF NoWait, Hows
<1>5. HeapTypeOK'
  BY <1>1, <1>3, <1>4 DEF HeapInv, HeapTypeOK, Grown
<1>6. Single' /\ Roots'
  <2>1. \A uy \in PromiseTypes : \A j \in Ids : promises'[uy][j] \in {0, promises[uy][j]}
    BY <1>1
  <2>2. \A s \in Ids : sets'[s].tasks \subseteq sets[s].tasks
    BY <1>1
  <2>3. QED
    BY <1>3, <1>4, <2>1, <2>2, LessIsSingle
<1>7. EveryHandleGranted => EveryHandleGranted'
  <2>1. \A uy \in PromiseTypes : \A j \in Ids : promises'[uy][j] # 0 => promises[uy][j] # 0
    BY <1>1
  <2>2. QED
    BY <1>1, <1>2, <2>1, StillGranted
<1>8. QED
  BY <1>1, <1>2, <1>5, <1>6, <1>7 DEF Kept, HeapInv

LEMMA ReleaseIdKeeps == ASSUME Attending, NEW ty \in PromiseTypes, ReleaseId(ty) PROVE Kept
BY TakeAndAnswer, UnknownKeeps DEF ReleaseId

LEMMA AwaitIdKeeps ==
    ASSUME Attending, NEW ty \in PromiseTypes, NEW how \in Hows, AwaitId(ty, how)
    PROVE  Kept
<1> USE DEF Attending
<1>take. CASE /\ Take(ty) /\ wait' = [node |-> promises[ty][Arg(1)], how |-> how]
              /\ UNCHANGED loopVars
  <2>1. PICK i \in Ids :
           /\ i = Arg(1)
           /\ promises[ty][i] \in Nodes
           /\ \A uy \in PromiseTypes : \A j \in Ids :
                 promises'[uy][j] = IF uy = ty /\ j = i THEN 0 ELSE promises[uy][j]
           /\ promises' \in [PromiseTypes -> [Ids -> {0} \cup Nodes]]
           /\ retired' \in SUBSET Ids /\ RetiredIsGone'
           /\ UNCHANGED <<nodes, objects, sets, nextId>>
    BY <1>take, TakeTyped
  <2>2. Granted' = Granted /\ LoopStep /\ cur' = cur
    BY <1>take, SilenceAdds
  <2>3. Grown /\ Nodes' = Nodes /\ 0 \notin Nodes
    BY <2>1, SameNodes, ZeroIsNoNode DEF HeapInv
  <2>4. wait' = [node |-> promises[ty][i], how |-> how]
    BY <1>take, <2>1
  <2>5. wait'.node = promises[ty][i] /\ wait' \in [node : {0} \cup Nodes, how : Hows]
    BY <2>1, <2>4
  <2>6. HeapTypeOK'
    BY <2>1, <2>2, <2>3, <2>5 DEF HeapInv, HeapTypeOK, Grown
  <2>7. Single'
    <3>1. \A uy, vy \in PromiseTypes : \A j, k \in Ids :
             promises'[uy][j] = promises'[vy][k] /\ promises'[uy][j] # 0 => uy = vy /\ j = k
      BY <2>1 DEF HeapInv, Single
    <3>2. \A s, t \in Ids : \A n \in sets'[s].tasks : n \in sets'[t].tasks => s = t
      BY <2>1 DEF HeapInv, Single
    <3>3. \A uy \in PromiseTypes : \A j, s \in Ids : promises'[uy][j] \notin sets'[s].tasks
      BY <2>1, <2>3 DEF HeapInv, HeapTypeOK, Single
    <3>4. \A uy \in PromiseTypes : \A j \in Ids : wait'.node # promises'[uy][j]
      BY <2>1, <2>3, <2>5 DEF HeapInv, Single
    <3>5. \A s \in Ids : wait'.node \notin sets'[s].tasks
      BY <2>1, <2>5 DEF HeapInv, Single
    <3>6. QED
      BY <3>1, <3>2, <3>3, <3>4, <3>5 DEF Single
  <2>8. Roots'
    BY <2>1, <2>3, <2>5 DEF HeapInv, Roots
  <2>9. EveryHandleGranted => EveryHandleGranted'
    <3>1. \A uy \in PromiseTypes : \A j \in Ids : promises'[uy][j] # 0 => promises[uy][j] # 0
      BY <2>1
    <3>2. QED
      BY <2>1, <2>2, <3>1, StillGranted
  <2>10. QED
    BY <2>1, <2>2, <2>6, <2>7, <2>8, <2>9 DEF Kept, HeapInv
<1>unknown. CASE UnknownPromise(ty)
  BY <1>unknown, UnknownKeeps
<1>1. QED
  BY <1>take, <1>unknown DEF AwaitId

\* Settling a promise moves nothing.
LEMMA StatusOnly ==
    ASSUME HeapInv, Grown, Nodes' = Nodes, wait' = wait \/ wait' = NoWait,
           UNCHANGED <<promises, retired>>,
           objects' \in [ObjectTypes -> SUBSET Ids],
           nextId' \in [PromiseTypes \cup ObjectTypes -> Ids],
           sets' \in [Ids -> [tasks : SUBSET Nodes, errors : Nat, last : BOOLEAN,
                              empty : {0} \cup Nodes]],
           \A s \in Ids : sets'[s].tasks \subseteq sets[s].tasks,
           wait'.node # 0 => cur' # 0
    PROVE  HeapInv'
<1>1. wait' \in [node : {0} \cup Nodes, how : Hows] /\ wait'.node \in {0, wait.node}
  BY DEF HeapInv, HeapTypeOK, NoWait, Hows
<1>2. HeapTypeOK'
  BY <1>1 DEF HeapInv, HeapTypeOK, Grown
<1>3. \A ty \in PromiseTypes : \A i \in Ids : promises'[ty][i] \in {0, promises[ty][i]}
  OBVIOUS
<1>4. Single' /\ Roots'
  BY <1>1, <1>3, LessIsSingle
<1>5. RetiredIsGone'
  BY DEF HeapInv, RetiredIsGone
<1>6. QED
  BY <1>2, <1>4, <1>5 DEF HeapInv

LEMMA MaybeSettled ==
    ASSUME HeapTypeOK, NEW n, NEW o \in {"ok", "err"},
           nodes' = nodes \/ (n \in Nodes /\ nodes' = [nodes EXCEPT ![n].st = o])
    PROVE  Grown /\ Nodes' = Nodes
BY SameNodes, StatusChanged

LEMMA CancelIdKeeps == ASSUME Attending, NEW ty \in PromiseTypes, CancelId(ty) PROVE Kept
<1> USE DEF Attending
<1>known. CASE Arg(1) \in Busy(ty)
  <2>1. PICK i \in Ids : i = Arg(1) /\ promises[ty][i] \in Nodes
    BY <1>known DEF Busy, HeapInv, HeapTypeOK
  <2>2. /\ nodes' = nodes \/ nodes' = [nodes EXCEPT ![promises[ty][i]].st = "err"]
        /\ Succeeds
        /\ UNCHANGED <<promises, retired, objects, sets, nextId, wait>>
    BY <1>known, <2>1 DEF CancelId, UnknownPromise
  <2>3. Grown /\ Nodes' = Nodes
    BY <2>1, <2>2, MaybeSettled DEF HeapInv
  <2>4. LoopStep /\ cur' = 0 /\ Granted' = Granted
    BY <2>2, AnswerIsStep, SucceedsGrants, GrantsAdds
  <2>5. /\ objects' \in [ObjectTypes -> SUBSET Ids]
        /\ nextId' \in [PromiseTypes \cup ObjectTypes -> Ids]
        /\ sets' \in [Ids -> [tasks : SUBSET Nodes, errors : Nat, last : BOOLEAN,
                              empty : {0} \cup Nodes]]
        /\ \A s \in Ids : sets'[s].tasks \subseteq sets[s].tasks
    BY <2>2 DEF HeapInv, HeapTypeOK
  <2>6. wait'.node = 0
    BY <2>2 DEF NoWait
  <2>7. HeapInv'
    BY <2>2, <2>3, <2>5, <2>6, StatusOnly
  <2>8. EveryHandleGranted => EveryHandleGranted'
    BY <2>2, <2>4, StillGranted
  <2>9. QED
    BY <2>4, <2>7, <2>8 DEF Kept
<1>unknown. CASE Arg(1) \notin Busy(ty)
  BY <1>unknown, UnknownKeeps DEF CancelId
<1>1. QED
  BY <1>known, <1>unknown

-----------------------------------------------------------------------------
(* Combinators.                                                            *)

LEMMA TakenAreBusy ==
    ASSUME LoopInv, HeapInv, cur # 0
    PROVE  /\ Taken \subseteq Busy("void")
           /\ WithoutTaken \in [Ids -> {0} \cup Nodes]
           /\ \A j \in Ids : WithoutTaken[j] = IF j \in Taken THEN 0 ELSE promises["void"][j]
<1>1. DOMAIN Named = 1..Len(Named) /\ Len(Named) \in Nat
  BY DEF Named, LoopInv, LoopTypeOK
<1>2. ASSUME NEW k \in Reached PROVE Named[k] \in Busy("void")
  <2>1. k \in 1..k
    BY <1>1 DEF Reached
  <2>2. QED
    BY <2>1 DEF Reached, Missing
<1>3. Taken \subseteq Busy("void")
  BY <1>2 DEF Taken
<1>4. \A j \in Ids : WithoutTaken[j] = IF j \in Taken THEN 0 ELSE promises["void"][j]
  BY DEF WithoutTaken
<1>5. "void" \in PromiseTypes
  BY DEF PromiseTypes
<1>6. WithoutTaken \in [Ids -> {0} \cup Nodes]
  BY <1>5 DEF WithoutTaken, HeapInv, HeapTypeOK
<1>7. QED
  BY <1>3, <1>4, <1>6

LEMMA AllTaken ==
    ASSUME LoopInv, HeapInv, cur # 0, \A k \in DOMAIN Named : ~Missing(k)
    PROVE  \A k \in DOMAIN Named : Named[k] \in Taken
<1>1. DOMAIN Named = 1..Len(Named) /\ Len(Named) \in Nat
  BY DEF Named, LoopInv, LoopTypeOK
<1>2. \A k \in DOMAIN Named : k \in Reached
  BY <1>1 DEF Reached
<1>3. QED
  BY <1>2 DEF Taken

\* The promises that a combinator takes over.
Unders == {promises["void"][Named[k]] : k \in DOMAIN Named}

\* The combinator is new and pending, the promises it takes over get it as their root and
\* as one more above them, and nothing else about the promises made so far changes.
JoinedUp(kind) ==
    /\ nodes'[NewNode].kind = kind /\ nodes'[NewNode].st = "pending"
    /\ nodes'[NewNode].root = NewNode /\ nodes'[NewNode].above = {}
    /\ DOMAIN nodes'[NewNode].parts = DOMAIN Named
    /\ \A k \in DOMAIN Named :
          nodes'[NewNode].parts[k] \in Nodes /\ nodes'[NewNode].parts[k] = promises["void"][Named[k]]
    /\ Nodes' = Nodes \cup {NewNode}
    /\ \A m \in Nodes :
          /\ nodes'[m].kind = nodes[m].kind /\ nodes'[m].on = nodes[m].on
          /\ nodes'[m].parts = nodes[m].parts /\ nodes'[m].st = nodes[m].st
          /\ nodes[m].root \in Unders =>
                nodes'[m].root = NewNode /\ nodes'[m].above = nodes[m].above \cup {NewNode}
          /\ nodes[m].root \notin Unders =>
                nodes'[m].root = nodes[m].root /\ nodes'[m].above = nodes[m].above

LEMMA JoinedTyped ==
    ASSUME LoopInv, HeapInv, cur # 0, NEW kind \in Kinds,
           \A k \in DOMAIN Named : ~Missing(k), nodes' = Joined(kind)
    PROVE  /\ NodesTypeOK' /\ NewIsNew /\ JoinedUp(kind)
           /\ Nodes \subseteq Nodes'
           /\ \A m \in Nodes : nodes[m].root = m /\ m \notin Unders => nodes'[m].root = m
<1> DEFINE parts == [k \in DOMAIN Named |-> promises["void"][Named[k]]]
<1> DEFINE under == {parts[k] : k \in DOMAIN parts}
<1> DEFINE old == [m \in DOMAIN nodes |->
                     IF nodes[m].root \in under
                     THEN [nodes[m] EXCEPT !.root = NewNode, !.above = @ \cup {NewNode}]
                     ELSE nodes[m]]
<1> DEFINE node == [kind |-> kind, on |-> Nothing, parts |-> parts, st |-> "pending",
                    root |-> NewNode, above |-> {}]
<1>1. DOMAIN Named = 1..Len(Named) /\ Len(Named) \in Nat
  BY DEF Named, LoopInv, LoopTypeOK
<1>2. nodes \in Seq(NodeRecords) /\ Len(nodes) \in Nat /\ Nodes = 1..Len(nodes)
  BY DEF HeapInv, HeapTypeOK, NodesTypeOK, Nodes
<1>3. ASSUME NEW k \in DOMAIN Named PROVE parts[k] \in Nodes
  <2>1. Named[k] \in Ids /\ promises["void"][Named[k]] # 0
    BY DEF Missing, Busy
  <2>2. "void" \in PromiseTypes
    BY DEF PromiseTypes
  <2>3. promises["void"][Named[k]] \in Nodes
    BY <2>1, <2>2 DEF HeapInv, HeapTypeOK
  <2>4. QED
    BY <2>3
<1>4. nodes' = Append(old, node)
  BY DEF Joined, NewNode
<1>5. under = Unders
  BY DEF Unders
<1>6. NewNode \in Nat /\ NewNode = Len(nodes) + 1
  BY <1>2 DEF NewNode
<1>7. parts \in Seq(Nat) /\ DOMAIN parts = DOMAIN Named
  <2>1. \A k \in 1..Len(Named) : parts[k] \in Nat
    BY <1>1, <1>2, <1>3
  <2>2. parts \in [1..Len(Named) -> Nat]
    BY <1>1, <2>1
  <2>3. QED
    BY <1>1, <2>2
<1> HIDE DEF parts, under, NewNode
<1>8. /\ node \in NodeRecords /\ node.root = NewNode /\ node.parts = parts
      /\ node.kind = kind /\ node.st = "pending" /\ node.above = {}
  BY <1>6, <1>7 DEF NodeRecords
<1>9. ASSUME NEW m \in Nodes
      PROVE  /\ old[m] \in NodeRecords /\ old[m].parts = nodes[m].parts
             /\ old[m].root \in {nodes[m].root, NewNode}
             /\ nodes[m].root \notin under => old[m] = nodes[m]
             /\ nodes[m].root \in under =>
                   old[m].root = NewNode /\ old[m].above = nodes[m].above \cup {NewNode}
             /\ old[m].kind = nodes[m].kind /\ old[m].on = nodes[m].on /\ old[m].st = nodes[m].st
  <2>1. nodes[m] \in NodeRecords
    BY <1>2
  <2> DEFINE over == [nodes[m] EXCEPT !.root = NewNode, !.above = @ \cup {NewNode}]
  <2>2. over \in NodeRecords
    BY <1>6, <2>1 DEF NodeRecords
  <2>3. /\ over.parts = nodes[m].parts /\ over.root = NewNode
        /\ over.kind = nodes[m].kind /\ over.on = nodes[m].on /\ over.st = nodes[m].st
        /\ over.above = nodes[m].above \cup {NewNode}
    BY <2>1 DEF NodeRecords
  <2>4. old[m] = IF nodes[m].root \in under THEN over ELSE nodes[m]
    BY DEF Nodes
  <2> HIDE DEF over, old
  <2>5. QED
    BY <2>1, <2>2, <2>3, <2>4
<1>10. old \in Seq(NodeRecords) /\ Len(old) = Len(nodes)
  <2>1. DOMAIN old = 1..Len(nodes)
    BY <1>2 DEF Nodes
  <2>2. old \in [1..Len(nodes) -> NodeRecords]
    <3>1. \A m \in 1..Len(nodes) : old[m] \in NodeRecords
      BY <1>2, <1>9
    <3> HIDE DEF node
    <3>2. QED
      BY <2>1, <3>1
  <2> HIDE DEF old
  <2>3. QED
    BY <1>2, <2>1, <2>2
<1> HIDE DEF old, node
<1>11. /\ nodes' \in Seq(NodeRecords) /\ Nodes' = 1..NewNode /\ nodes'[NewNode] = node
       /\ \A m \in Nodes : nodes'[m] = old[m]
  BY <1>2, <1>4, <1>6, <1>8, <1>10 DEF Nodes
<1>12. NodesTypeOK'
  <2>1. ASSUME NEW m \in Nodes
        PROVE  /\ nodes'[m].root \in Nodes'
               /\ \A k \in DOMAIN nodes'[m].parts : nodes'[m].parts[k] \in 1..(m - 1)
    <3>1. nodes[m].root \in Nodes /\ \A k \in DOMAIN nodes[m].parts : nodes[m].parts[k] \in 1..(m - 1)
      BY DEF HeapInv, HeapTypeOK, NodesTypeOK
    <3>2. QED
      BY <1>2, <1>6, <1>9, <1>11, <3>1
  <2>2. /\ nodes'[NewNode].root \in Nodes'
        /\ \A k \in DOMAIN nodes'[NewNode].parts : nodes'[NewNode].parts[k] \in 1..(NewNode - 1)
    BY <1>2, <1>3, <1>6, <1>7, <1>8, <1>11
  <2>3. \A n \in Nodes' : n \in Nodes \/ n = NewNode
    BY <1>2, <1>6, <1>11
  <2>4. QED
    BY <1>11, <2>1, <2>2, <2>3 DEF NodesTypeOK
<1>13. NewIsNew /\ Nodes \subseteq Nodes'
  BY <1>2, <1>6, <1>8, <1>11 DEF NewIsNew
<1>14. JoinedUp(kind)
  <2>1. \A k \in DOMAIN Named : parts[k] = promises["void"][Named[k]]
    BY DEF parts
  <2>2. Nodes' = Nodes \cup {NewNode}
    BY <1>2, <1>6, <1>11
  <2>3. QED
    BY <1>3, <1>5, <1>7, <1>8, <1>9, <1>11, <2>1, <2>2 DEF JoinedUp
<1>15. QED
  BY <1>5, <1>9, <1>11, <1>12, <1>13, <1>14

LEMMA CombineKeeps == ASSUME Attending, NEW kind \in Kinds, Combine(kind) PROVE Kept
<1> USE DEF Attending
<1>void. "void" \in PromiseTypes
  BY DEF PromiseTypes
<1>take. /\ Taken \subseteq Busy("void")
         /\ WithoutTaken \in [Ids -> {0} \cup Nodes]
         /\ \A j \in Ids : WithoutTaken[j] = IF j \in Taken THEN 0 ELSE promises["void"][j]
  BY TakenAreBusy
<1>ids. Taken \subseteq Ids
  BY <1>take DEF Busy
<1>all. CASE \A k \in DOMAIN Named : ~Missing(k)
  <2> DEFINE i == FreshFrom(nextId["void"], {j \in Ids : WithoutTaken[j] # 0})
  <2>1. /\ \E j \in Ids : WithoutTaken[j] = 0
        /\ nodes' = Joined(kind)
        /\ promises' = [promises EXCEPT !["void"] = [WithoutTaken EXCEPT ![i] = NewNode]]
        /\ retired' = (retired \cup Taken) \ {i}
        /\ Bump("void", i) /\ Grants({<<"void", i>>})
        /\ UNCHANGED <<objects, sets, wait>>
    BY <1>all DEF Combine, NewNode
  <2>2. i \in Ids
    <3>1. nextId["void"] \in Ids
      BY <1>void DEF HeapInv, HeapTypeOK
    <3>2. PICK j \in Ids : j \notin {m \in Ids : WithoutTaken[m] # 0}
      BY <2>1
    <3>3. QED
      BY <3>1, <3>2, FreshIsFree
  <2> HIDE DEF i, NewNode
  <2>3. /\ NodesTypeOK' /\ NewIsNew /\ Nodes \subseteq Nodes'
        /\ \A m \in Nodes : nodes[m].root = m /\ m \notin Unders => nodes'[m].root = m
    BY <1>all, <2>1, JoinedTyped
  <2>4. \A k \in DOMAIN Named : Named[k] \in Taken
    BY <1>all, AllTaken
  <2>5. {<<"void", i>>} \in Handles
    BY <1>void, <2>2, HandleIsHandle
  <2>6. LoopStep /\ cur' = 0 /\ Granted' = Granted \cup {<<"void", i>>}
    BY <2>1, <2>5, AnswerIsStep, GrantsAdds
  <2>7. \A uy \in PromiseTypes : \A j \in Ids :
           promises'[uy][j] = IF uy = "void" /\ j = i THEN NewNode
                              ELSE IF uy = "void" /\ j \in Taken THEN 0 ELSE promises[uy][j]
    BY <1>take, <2>1, <2>2 DEF HeapInv, HeapTypeOK
  <2>8. /\ \A s \in Ids : sets[s].tasks \subseteq Nodes
        /\ \A ty \in PromiseTypes : \A j \in Ids : promises[ty][j] # 0 => promises[ty][j] \in Nodes
        /\ 0 \notin Nodes /\ wait'.node = 0
    BY <2>1, ZeroIsNoNode DEF HeapInv, HeapTypeOK, NoWait
  <2>9. NewNode \notin Nodes /\ NewNode # 0 /\ NewNode \in Nodes' /\ nodes'[NewNode].root = NewNode
    BY <2>3 DEF NewIsNew
  <2>10. HeapTypeOK'
    <3>1. promises' \in [PromiseTypes -> [Ids -> {0} \cup Nodes']]
      <4>1. [WithoutTaken EXCEPT ![i] = NewNode] \in [Ids -> {0} \cup Nodes']
        BY <1>take, <2>2, <2>3, <2>9
      <4>2. promises \in [PromiseTypes -> [Ids -> {0} \cup Nodes']]
        BY <2>3 DEF HeapInv, HeapTypeOK
      <4>3. QED
        BY <2>1, <4>1, <4>2
    <3>2. retired' \in SUBSET Ids /\ objects' \in [ObjectTypes -> SUBSET Ids]
      BY <1>ids, <2>1 DEF HeapInv, HeapTypeOK
    <3>3. sets' \in [Ids -> [tasks : SUBSET Nodes', errors : Nat, last : BOOLEAN,
                             empty : {0} \cup Nodes']]
      BY <2>1, <2>3 DEF HeapInv, HeapTypeOK
    <3>4. nextId' \in [PromiseTypes \cup ObjectTypes -> Ids]
      BY <1>void, <2>1, <2>2, BumpKeeps DEF HeapInv
    <3>5. wait' \in [node : {0} \cup Nodes', how : Hows]
      BY <2>1 DEF NoWait, Hows
    <3>6. QED
      BY <2>3, <2>8, <3>1, <3>2, <3>3, <3>4, <3>5 DEF HeapTypeOK
  <2>11. Single'
    <3>1. ASSUME NEW ty \in PromiseTypes, NEW vy \in PromiseTypes, NEW j \in Ids, NEW k \in Ids,
                 promises'[ty][j] = promises'[vy][k], promises'[ty][j] # 0
          PROVE  ty = vy /\ j = k
      BY <2>7, <2>8, <2>9, <3>1 DEF HeapInv, Single
    <3>2. \A s, t \in Ids : \A n \in sets'[s].tasks : n \in sets'[t].tasks => s = t
      BY <2>1 DEF HeapInv, Single
    <3>3. \A ty \in PromiseTypes : \A j, s \in Ids : promises'[ty][j] \notin sets'[s].tasks
      BY <2>1, <2>7, <2>8, <2>9 DEF HeapInv, Single
    <3>4. /\ \A ty \in PromiseTypes : \A j \in Ids : wait'.node # 0 => wait'.node # promises'[ty][j]
          /\ \A s \in Ids : wait'.node \notin sets'[s].tasks
      BY <2>1, <2>8
    <3>5. QED
      BY <3>1, <3>2, <3>3, <3>4 DEF Single
  <2>12. Roots'
    <3>1. ASSUME NEW ty \in PromiseTypes, NEW j \in Ids, promises'[ty][j] # 0
          PROVE  nodes'[promises'[ty][j]].root = promises'[ty][j]
      <4>1. CASE ty = "void" /\ j = i
        BY <2>7, <2>9, <4>1
      <4>2. CASE ~(ty = "void" /\ j = i)
        <5>1. promises'[ty][j] = promises[ty][j] /\ ~(ty = "void" /\ j \in Taken)
          BY <2>7, <3>1, <4>2
        <5>2. promises[ty][j] \notin Unders
          <6>1. ASSUME NEW k \in DOMAIN Named, promises[ty][j] = promises["void"][Named[k]]
                PROVE  FALSE
            <7>1. Named[k] \in Taken /\ Named[k] \in Ids
              BY <1>ids, <2>4
            <7>2. ty = "void" /\ j = Named[k]
              BY <1>void, <3>1, <5>1, <6>1, <7>1 DEF HeapInv, Single
            <7>3. QED
              BY <5>1, <7>1, <7>2
          <6>2. QED
            BY <6>1 DEF Unders
        <5>3. promises[ty][j] \in Nodes /\ nodes[promises[ty][j]].root = promises[ty][j]
          BY <2>8, <3>1, <5>1 DEF HeapInv, Roots
        <5>4. QED
          BY <2>3, <5>1, <5>2, <5>3
      <4>3. QED
        BY <4>1, <4>2
    <3>2. ASSUME NEW s \in Ids, NEW n \in sets'[s].tasks PROVE nodes'[n].root = n
      <4>1. n \in sets[s].tasks /\ n \in Nodes /\ nodes[n].root = n
        BY <2>1, <2>8 DEF HeapInv, Roots
      <4>2. n \notin Unders
        <5>1. \A k \in DOMAIN Named : promises["void"][Named[k]] # n
          BY <1>void, <1>ids, <2>4, <4>1 DEF HeapInv, Single
        <5>2. QED
          BY <5>1 DEF Unders
      <4>3. QED
        BY <2>3, <4>1, <4>2
    <3>3. QED
      BY <2>8, <3>1, <3>2 DEF Roots
  <2>13. RetiredIsGone'
    BY <1>void, <1>ids, <2>1, <2>7 DEF HeapInv, HeapTypeOK, RetiredIsGone
  <2>14. EveryHandleGranted => EveryHandleGranted'
    <3>1. \A uy \in PromiseTypes : \A j \in Ids :
             promises'[uy][j] # 0 => promises[uy][j] # 0 \/ <<uy, j>> \in Granted'
      BY <2>6, <2>7
    <3>2. QED
      BY <2>1, <2>6, <3>1, StillGranted
  <2>15. QED
    BY <2>6, <2>10, <2>11, <2>12, <2>13, <2>14 DEF Kept, HeapInv
<1>missing. CASE \E k \in DOMAIN Named : Missing(k)
  <2>1. /\ promises' = [promises EXCEPT !["void"] = WithoutTaken]
        /\ retired' = retired \cup Taken
        /\ Fails
        /\ UNCHANGED <<nodes, objects, sets, nextId, wait>>
    BY <1>missing DEF Combine
  <2>2. LoopStep /\ cur' = 0 /\ Granted' = Granted
    BY <2>1, AnswerIsStep, FailsAdds
  <2>3. Grown /\ Nodes' = Nodes
    BY <2>1, SameNodes DEF HeapInv
  <2>4. \A uy \in PromiseTypes : \A j \in Ids :
           promises'[uy][j] = IF uy = "void" /\ j \in Taken THEN 0 ELSE promises[uy][j]
    BY <1>take, <2>1 DEF HeapInv, HeapTypeOK
  <2>5. promises' \in [PromiseTypes -> [Ids -> {0} \cup Nodes]]
    BY <1>take, <2>1 DEF HeapInv, HeapTypeOK
  <2>6. wait'.node = 0 /\ wait' \in [node : {0} \cup Nodes, how : Hows]
    BY <2>1 DEF NoWait, Hows
  <2>7. HeapTypeOK'
    BY <1>ids, <2>1, <2>3, <2>5, <2>6 DEF HeapInv, HeapTypeOK, Grown
  <2>8. Single' /\ Roots'
    <3>1. \A uy \in PromiseTypes : \A j \in Ids : promises'[uy][j] \in {0, promises[uy][j]}
      BY <2>4
    <3>2. \A s \in Ids : sets'[s].tasks \subseteq sets[s].tasks
      BY <2>1
    <3>3. QED
      BY <2>3, <2>6, <3>1, <3>2, LessIsSingle
  <2>9. RetiredIsGone'
    BY <1>void, <1>ids, <2>1, <2>4 DEF HeapInv, HeapTypeOK, RetiredIsGone
  <2>10. EveryHandleGranted => EveryHandleGranted'
    <3>1. \A uy \in PromiseTypes : \A j \in Ids : promises'[uy][j] # 0 => promises[uy][j] # 0
      BY <2>4
    <3>2. QED
      BY <2>1, <2>2, <3>1, StillGranted
  <2>11. QED
    BY <2>2, <2>7, <2>8, <2>9, <2>10 DEF Kept, HeapInv
<1>1. QED
  BY <1>all, <1>missing

-----------------------------------------------------------------------------
(* Task sets.                                                              *)

SetRecords == [tasks : SUBSET Nodes, errors : Nat, last : BOOLEAN, empty : {0} \cup Nodes]

LEMMA NoTasksIsRecord == NoTasks \in SetRecords
BY DEF NoTasks, SetRecords

\* The sets change without gaining a task, a promise may be settled.
LEMMA SetsKeep ==
    ASSUME Attending, Grown, Nodes' = Nodes, UNCHANGED <<promises, retired, wait>>,
           objects' \in [ObjectTypes -> SUBSET Ids],
           \A ty \in ObjectTypes : objects'[ty] \subseteq objects[ty],
           UNCHANGED nextId, sets' \in [Ids -> SetRecords],
           \A s \in Ids : sets'[s].tasks \subseteq sets[s].tasks,
           Succeeds
    PROVE  Kept
<1>1. LoopStep /\ cur' = 0 /\ Granted' = Granted
  BY AnswerIsStep, SucceedsGrants, GrantsAdds DEF Attending
<1>2. wait'.node = 0
  BY DEF Attending, NoWait
<1>3. nextId' \in [PromiseTypes \cup ObjectTypes -> Ids]
  BY DEF Attending, HeapInv, HeapTypeOK
<1>4. HeapInv'
  BY <1>2, <1>3, StatusOnly DEF Attending, SetRecords
<1>5. EveryHandleGranted => EveryHandleGranted'
  BY <1>1, StillGranted
<1>6. QED
  BY <1>1, <1>4, <1>5 DEF Kept

LEMMA SetIsRecord ==
    ASSUME HeapInv, NEW s \in Ids
    PROVE  /\ sets[s] \in SetRecords /\ sets[s].tasks \subseteq Nodes
           /\ sets[s].empty \in {0} \cup Nodes
BY DEF HeapInv, HeapTypeOK, SetRecords

LEMMA KnownSet == ASSUME HeapInv, Has("taskSet", Arg(1)) PROVE Arg(1) \in Ids
<1>1. "taskSet" \in ObjectTypes
  BY DEF ObjectTypes
<1>2. QED
  BY <1>1 DEF Has, HeapInv, HeapTypeOK

LEMMA SetsTyped == HeapInv => sets \in [Ids -> SetRecords]
BY DEF HeapInv, HeapTypeOK, SetRecords

LEMMA ObjectsTyped ==
    HeapInv => /\ objects \in [ObjectTypes -> SUBSET Ids]
               /\ nextId \in [PromiseTypes \cup ObjectTypes -> Ids]
BY DEF HeapInv, HeapTypeOK

LEMMA TaskSetNewKeeps == ASSUME Attending, TaskSetNew PROVE Kept
<1> USE DEF Attending
<1> DEFINE i == FreshFrom(nextId["taskSet"], objects["taskSet"])
<1>1. "taskSet" \in ObjectTypes
  BY DEF ObjectTypes
<1>2. /\ Room("taskSet")
      /\ objects' = [objects EXCEPT !["taskSet"] = @ \cup {i}]
      /\ Bump("taskSet", i) /\ Grants({<<"taskSet", i>>})
      /\ sets' = [sets EXCEPT ![i] = NoTasks]
      /\ UNCHANGED <<nodes, promises, retired, wait>>
  BY DEF TaskSetNew, AddObject
<1>3. i \in Ids
  BY <1>1, <1>2, FreeObject DEF HeapInv
<1> HIDE DEF i
<1>4. {<<"taskSet", i>>} \in Handles
  BY <1>1, <1>3, HandleIsHandle
<1>5. LoopStep /\ cur' = 0 /\ Granted' = Granted \cup {<<"taskSet", i>>}
  BY <1>2, <1>4, AnswerIsStep, GrantsAdds
<1>6. nextId' \in [PromiseTypes \cup ObjectTypes -> Ids]
  BY <1>1, <1>2, <1>3, BumpKeeps DEF HeapInv
<1>7. objects' \in [ObjectTypes -> SUBSET Ids]
  BY <1>2, <1>3, ObjectsTyped
<1>8. Grown /\ Nodes' = Nodes
  BY <1>2, SameNodes DEF HeapInv
<1>9. /\ sets' \in [Ids -> SetRecords]
      /\ \A s \in Ids : sets'[s].tasks \subseteq sets[s].tasks
  <2>1. NoTasks.tasks = {}
    BY DEF NoTasks
  <2>2. QED
    BY <1>2, <1>3, <2>1, NoTasksIsRecord, SetsTyped
<1>10. wait'.node = 0
  BY <1>2 DEF NoWait
<1>11. HeapInv'
  BY <1>2, <1>6, <1>7, <1>8, <1>9, <1>10, StatusOnly DEF SetRecords
<1>12. \A uy \in ObjectTypes : \A j \in objects'[uy] : j \in objects[uy] \/ <<uy, j>> \in Granted'
  BY <1>2, <1>5, ObjectsTyped
<1>13. EveryHandleGranted => EveryHandleGranted'
  BY <1>2, <1>5, <1>12, StillGranted
<1>14. QED
  BY <1>5, <1>11, <1>13 DEF Kept

LEMMA TaskSetReleaseKeeps == ASSUME Attending, TaskSetRelease PROVE Kept
<1> USE DEF Attending
<1>known. CASE Has("taskSet", Arg(1))
  <2>1. PICK s \in Ids : s = Arg(1)
    BY <1>known, KnownSet
  <2>2. /\ objects' = [objects EXCEPT !["taskSet"] = @ \ {s}]
        /\ sets' = [sets EXCEPT ![s] = NoTasks]
        /\ nodes' = nodes \/ (sets[s].empty # 0 /\ nodes' = [nodes EXCEPT ![sets[s].empty].st = "err"])
        /\ Succeeds
        /\ UNCHANGED <<promises, retired, nextId, wait>>
    BY <1>known, <2>1 DEF TaskSetRelease, Needs
  <2>3. Grown /\ Nodes' = Nodes
    BY <2>2, SetIsRecord, MaybeSettled DEF HeapInv
  <2>4. /\ objects' \in [ObjectTypes -> SUBSET Ids]
        /\ \A ty \in ObjectTypes : objects'[ty] \subseteq objects[ty]
    BY <2>2, ObjectsTyped
  <2>5. /\ sets' \in [Ids -> SetRecords]
        /\ \A t \in Ids : sets'[t].tasks \subseteq sets[t].tasks
    <3>1. NoTasks.tasks = {}
      BY DEF NoTasks
    <3>2. QED
      BY <2>2, <3>1, NoTasksIsRecord, SetsTyped
  <2>6. QED
    BY <2>2, <2>3, <2>4, <2>5, SetsKeep
<1>unknown. CASE ~Has("taskSet", Arg(1))
  BY <1>unknown, RejectsKeeps DEF TaskSetRelease, Needs
<1>1. QED
  BY <1>known, <1>unknown

LEMMA TaskSetClearKeeps == ASSUME Attending, TaskSetClear PROVE Kept
<1> USE DEF Attending
<1>known. CASE Has("taskSet", Arg(1))
  <2>1. PICK s \in Ids : s = Arg(1)
    BY <1>known, KnownSet
  <2>2. /\ sets' = [sets EXCEPT ![s].tasks = {}, ![s].empty = 0]
        /\ nodes' = nodes \/ (sets[s].empty # 0 /\ nodes' = [nodes EXCEPT ![sets[s].empty].st = "ok"])
        /\ Succeeds
        /\ UNCHANGED <<promises, retired, objects, nextId, wait>>
    BY <1>known, <2>1 DEF TaskSetClear, Needs, Fulfill
  <2>3. Grown /\ Nodes' = Nodes
    BY <2>2, SetIsRecord, MaybeSettled DEF HeapInv
  <2>4. /\ objects' \in [ObjectTypes -> SUBSET Ids]
        /\ \A ty \in ObjectTypes : objects'[ty] \subseteq objects[ty]
    BY <2>2, ObjectsTyped
  <2>5. /\ sets' \in [Ids -> SetRecords]
        /\ \A t \in Ids : sets'[t].tasks \subseteq sets[t].tasks
    <3>1. PICK old \in SetRecords : old = sets[s]
      BY SetsTyped
    <3> DEFINE new == [old EXCEPT !.tasks = {}, !.empty = 0]
    <3>2. new \in SetRecords /\ new.tasks = {}
      BY DEF SetRecords
    <3>3. sets' = [sets EXCEPT ![s] = new]
      BY <2>2, <3>1, SetsTyped
    <3> HIDE DEF new
    <3>4. QED
      BY <3>2, <3>3, SetsTyped
  <2>6. QED
    BY <2>2, <2>3, <2>4, <2>5, SetsKeep
<1>unknown. CASE ~Has("taskSet", Arg(1))
  BY <1>unknown, RejectsKeeps DEF TaskSetClear, Needs
<1>1. QED
  BY <1>known, <1>unknown

LEMMA TaskSetTakeLastErrorKeeps == ASSUME Attending, TaskSetTakeLastError PROVE Kept
<1> USE DEF Attending
<1>known. CASE Has("taskSet", Arg(1))
  <2>1. PICK s \in Ids : s = Arg(1)
    BY <1>known, KnownSet
  <2>2. /\ sets' = [sets EXCEPT ![s].last = FALSE]
        /\ Succeeds
        /\ UNCHANGED <<nodes, promises, retired, objects, nextId, wait>>
    BY <1>known, <2>1 DEF TaskSetTakeLastError, Needs
  <2>3. Grown /\ Nodes' = Nodes
    BY <2>2, SameNodes DEF HeapInv
  <2>4. /\ objects' \in [ObjectTypes -> SUBSET Ids]
        /\ \A ty \in ObjectTypes : objects'[ty] \subseteq objects[ty]
    BY <2>2, ObjectsTyped
  <2>5. /\ sets' \in [Ids -> SetRecords]
        /\ \A t \in Ids : sets'[t].tasks \subseteq sets[t].tasks
    BY <2>2, SetsTyped DEF SetRecords
  <2>6. QED
    BY <2>2, <2>3, <2>4, <2>5, SetsKeep
<1>unknown. CASE ~Has("taskSet", Arg(1))
  BY <1>unknown, RejectsKeeps DEF TaskSetTakeLastError, Needs
<1>1. QED
  BY <1>known, <1>unknown

LEMMA TaskSetOnEmptyStartKeeps == ASSUME Attending, TaskSetOnEmptyStart PROVE Kept
<1> USE DEF Attending
<1>void. "void" \in PromiseTypes /\ "sure" \in Kinds /\ "empty" \in Kinds /\ Nothing \in Abouts
  BY DEF PromiseTypes, Kinds, Abouts
<1>1. CASE Rejects
  BY <1>1, RejectsKeeps
<1>2. CASE Start("void", "sure", Nothing)
  BY <1>2, <1>void, StartKeeps
<1>3. CASE /\ Has("taskSet", Arg(1)) /\ Room("void")
           /\ NewLeaf("empty", <<"taskSet", Arg(1)>>)
           /\ AddPromise("void", NewNode)
           /\ sets' = [sets EXCEPT ![Arg(1)].empty = NewNode]
           /\ UNCHANGED <<objects, wait>>
  <2>1. PICK s \in Ids : s = Arg(1)
    BY <1>3, KnownSet
  <2>2. <<"taskSet", s>> \in Abouts
    BY IdSpaceAssumption DEF Abouts, ObjectTypes, Ids
  <2>3. Grown /\ NewIsNew
    BY <1>3, <1>void, <2>1, <2>2, LeafIsNew DEF HeapInv
  <2>4. sets' = [sets EXCEPT ![s].empty = NewNode]
    BY <1>3, <2>1
  <2> HIDE DEF NewNode
  <2>5. NewNode \in Nodes'
    BY <2>3 DEF NewIsNew
  <2>6. /\ sets' \in [Ids -> [tasks : SUBSET Nodes', errors : Nat, last : BOOLEAN,
                              empty : {0} \cup Nodes']]
        /\ \A t \in Ids : sets'[t].tasks = sets[t].tasks
    BY <2>3, <2>4, <2>5, StillTyped DEF HeapInv
  <2>7. wait' = NoWait
    BY <1>3
  <2>8. QED
    BY <1>3, <1>void, <2>3, <2>6, <2>7, AddPromiseKeeps
<1>4. QED
  BY <1>1, <1>2, <1>3 DEF TaskSetOnEmptyStart, Needs, NewNode

LEMMA TaskSetAddPromiseKeeps == ASSUME Attending, TaskSetAddPromise PROVE Kept
<1> USE DEF Attending
<1>void. "void" \in PromiseTypes
  BY DEF PromiseTypes
<1>known. CASE Has("taskSet", Arg(1)) /\ Arg(2) \in Busy("void")
  <2>1. PICK s \in Ids : s = Arg(1)
    BY <1>known, KnownSet
  <2>2. PICK i \in Ids : i = Arg(2) /\ promises["void"][i] \in Nodes
    BY <1>void, <1>known DEF Busy, HeapInv, HeapTypeOK
  <2> DEFINE n == promises["void"][i]
  <2>3. /\ promises' = [promises EXCEPT !["void"][i] = 0]
        /\ retired' = retired \cup {i}
        /\ sets' = [sets EXCEPT ![s].tasks = @ \cup {n}]
        /\ Succeeds
        /\ UNCHANGED <<nodes, objects, nextId, wait>>
    BY <1>known, <2>1, <2>2 DEF TaskSetAddPromise, Needs
  <2>4. n \in Nodes
    BY <2>2
  <2>5. LoopStep /\ cur' = 0 /\ Granted' = Granted
    BY <2>3, AnswerIsStep, SucceedsGrants, GrantsAdds
  <2>6. Grown /\ Nodes' = Nodes /\ 0 \notin Nodes
    BY <2>3, SameNodes, ZeroIsNoNode DEF HeapInv
  <2>7. \A uy \in PromiseTypes : \A j \in Ids :
           promises'[uy][j] = IF uy = "void" /\ j = i THEN 0 ELSE promises[uy][j]
    BY <2>3 DEF HeapInv, HeapTypeOK
  <2>8. /\ \A t \in Ids : sets'[t].tasks = IF t = s THEN sets[t].tasks \cup {n} ELSE sets[t].tasks
        /\ sets' \in [Ids -> SetRecords]
    BY <2>3, <2>4, SetsTyped DEF SetRecords
  <2>9. wait'.node = 0 /\ wait' \in [node : {0} \cup Nodes, how : Hows]
    BY <2>3 DEF NoWait, Hows
  <2>10. HeapTypeOK'
    <3>1. promises' \in [PromiseTypes -> [Ids -> {0} \cup Nodes]]
      BY <2>3 DEF HeapInv, HeapTypeOK
    <3>2. QED
      BY <2>3, <2>6, <2>8, <2>9, <3>1 DEF HeapInv, HeapTypeOK, Grown, SetRecords
  <2>11. /\ \A t \in Ids : n \notin sets[t].tasks
         /\ \A uy \in PromiseTypes : \A j \in Ids : promises'[uy][j] # n
    <3>1. \A t \in Ids : n \notin sets[t].tasks
      BY <1>void DEF HeapInv, Single
    <3>2. \A uy \in PromiseTypes : \A j \in Ids : promises'[uy][j] # n
      BY <1>void, <2>4, <2>6, <2>7 DEF HeapInv, Single
    <3>3. QED
      BY <3>1, <3>2
  <2>12. Single'
    <3>1. \A uy, vy \in PromiseTypes : \A j, k \in Ids :
             promises'[uy][j] = promises'[vy][k] /\ promises'[uy][j] # 0 => uy = vy /\ j = k
      BY <2>7 DEF HeapInv, Single
    <3>2. ASSUME NEW t \in Ids, NEW u \in Ids, NEW m \in sets'[t].tasks, m \in sets'[u].tasks
          PROVE  t = u
      <4> HIDE DEF n
      <4>1. CASE m = n
        BY <2>8, <2>11, <3>2, <4>1
      <4>2. CASE m # n
        <5>1. m \in sets[t].tasks /\ m \in sets[u].tasks
          BY <2>8, <3>2, <4>2
        <5>2. QED
          BY <5>1 DEF HeapInv, Single
      <4>3. QED
        BY <4>1, <4>2
    <3>3. \A uy \in PromiseTypes : \A j, t \in Ids : promises'[uy][j] \notin sets'[t].tasks
      <4>1. \A t \in Ids : 0 \notin sets[t].tasks
        BY <2>6, SetIsRecord
      <4>2. ASSUME NEW uy \in PromiseTypes, NEW j \in Ids, NEW t \in Ids,
                   promises'[uy][j] \in sets'[t].tasks
            PROVE  FALSE
        <5>1. promises'[uy][j] \in sets[t].tasks
          BY <2>8, <2>11, <4>2
        <5>2. promises'[uy][j] = promises[uy][j]
          BY <2>7, <4>1, <5>1
        <5>3. QED
          BY <5>1, <5>2 DEF HeapInv, Single
      <4>3. QED
        BY <4>2
    <3>4. \A t \in Ids : wait'.node \notin sets'[t].tasks
      BY <2>6, <2>8, <2>9 DEF SetRecords
    <3>5. QED
      BY <2>9, <3>1, <3>2, <3>3, <3>4 DEF Single
  <2>13. Roots'
    BY <1>void, <2>3, <2>4, <2>6, <2>7, <2>8, <2>9 DEF HeapInv, Roots
  <2>14. RetiredIsGone'
    BY <1>void, <2>3, <2>7 DEF HeapInv, HeapTypeOK, RetiredIsGone
  <2>15. EveryHandleGranted => EveryHandleGranted'
    <3>1. \A uy \in PromiseTypes : \A j \in Ids : promises'[uy][j] # 0 => promises[uy][j] # 0
      BY <2>7
    <3>2. QED
      BY <2>3, <2>5, <3>1, StillGranted
  <2>16. QED
    BY <2>5, <2>10, <2>12, <2>13, <2>14, <2>15 DEF Kept, HeapInv
<1>unknown. CASE ~(Has("taskSet", Arg(1)) /\ Arg(2) \in Busy("void"))
  BY <1>unknown, RejectsKeeps DEF TaskSetAddPromise, Needs
<1>1. QED
  BY <1>known, <1>unknown

-----------------------------------------------------------------------------
(* The event loop and the end of a wait.                                   *)

\* A promise settles with a value or an error.
LEMMA OutcomeIsFinal ==
    ASSUME HeapInv, NEW n \in Nodes, NEW o \in Outcomes(n)
    PROVE  o \in {"ok", "err"}
<1> DEFINE part == PartSts(n)
<1> DEFINE settled == {part[k] : k \in DOMAIN part} \ {"pending"}
<1>1. nodes \in Seq(NodeRecords) /\ Len(nodes) \in Nat /\ Nodes = 1..Len(nodes)
  BY DEF HeapInv, HeapTypeOK, NodesTypeOK, Nodes
<1>2. \A m \in Nodes : nodes[m].st \in {"pending", "ok", "err"}
  <2>1. \A m \in 1..Len(nodes) : nodes[m] \in NodeRecords
    BY <1>1
  <2>2. \A r \in NodeRecords : r.st \in {"pending", "ok", "err"}
    BY DEF NodeRecords
  <2>3. QED
    BY <1>1, <2>1, <2>2
<1>3. \A k \in DOMAIN nodes[n].parts : nodes[n].parts[k] \in Nodes
  BY <1>1 DEF HeapInv, HeapTypeOK, NodesTypeOK
<1>4. settled \subseteq {"ok", "err"}
  BY <1>2, <1>3 DEF PartSts
<1>5. \/ o \in {"ok", "err"}
      \/ o \in settled
  <2> HIDE DEF part
  <2>1. Outcomes(n) \subseteq {"ok", "err"} \cup settled
    BY DEF Outcomes, part
  <2>2. QED
    BY <2>1
<1>6. QED
  BY <1>4, <1>5

\* While the event loop turns, the callers see nothing.
LEMMA TurnKeeps ==
    ASSUME HeapInv, Grown, Nodes' = Nodes,
           UNCHANGED <<promises, retired, objects, nextId, wait, loopVars>>,
           sets' \in [Ids -> SetRecords],
           \A s \in Ids : sets'[s].tasks \subseteq sets[s].tasks
    PROVE  Kept
<1>1. Granted' = Granted /\ LoopStep /\ cur' = cur
  BY SilenceAdds
<1>2. wait'.node # 0 => cur' # 0
  BY <1>1 DEF HeapInv, HeapTypeOK
<1>3. HeapInv'
  BY <1>2, ObjectsTyped, StatusOnly DEF SetRecords
<1>4. EveryHandleGranted => EveryHandleGranted'
  BY <1>1, StillGranted
<1>5. QED
  BY <1>1, <1>3, <1>4 DEF Kept

LEMMA SettleKeeps ==
    ASSUME HeapInv, NEW n \in Nodes, NEW o \in {"ok", "err"}, SettleAs(n, o)
    PROVE  Kept
<1>1. Grown /\ Nodes' = Nodes
  BY StatusChanged DEF SettleAs, HeapInv
<1>2. sets' = sets /\ UNCHANGED <<promises, retired, objects, nextId, wait, loopVars>>
  BY DEF SettleAs
<1>3. sets' \in [Ids -> SetRecords] /\ \A s \in Ids : sets'[s].tasks \subseteq sets[s].tasks
  BY <1>2, SetsTyped
<1>4. QED
  BY <1>1, <1>2, <1>3, TurnKeeps

LEMMA ReapTaskKeeps == ASSUME HeapInv, ReapTask PROVE Kept
<1>set. PICK s \in Ids : \E n \in sets[s].tasks :
           /\ sets' = [sets EXCEPT ![s] = TaskDone(s, n)]
           /\ nodes' = nodes \/ (sets[s].empty # 0 /\ nodes' = [nodes EXCEPT ![sets[s].empty].st = "ok"])
  BY DEF ReapTask, Fulfill
<1>1. PICK n \in sets[s].tasks :
         /\ sets' = [sets EXCEPT ![s] = TaskDone(s, n)]
         /\ nodes' = nodes \/ (sets[s].empty # 0 /\ nodes' = [nodes EXCEPT ![sets[s].empty].st = "ok"])
  BY <1>set
<1>2. Grown /\ Nodes' = Nodes
  BY <1>1, SetIsRecord, MaybeSettled DEF HeapInv
<1>3. TaskDone(s, n) \in SetRecords /\ TaskDone(s, n).tasks \subseteq sets[s].tasks
  <2>1. sets[s] \in SetRecords
    BY SetIsRecord
  <2>2. (sets[s].last \/ nodes[n].st = "err") \in BOOLEAN
    OBVIOUS
  <2>3. sets[s].errors + (IF nodes[n].st = "err" THEN 1 ELSE 0) \in Nat
    BY <2>1 DEF SetRecords
  <2>4. (IF sets[s].tasks \ {n} = {} THEN 0 ELSE sets[s].empty) \in {0} \cup Nodes
    BY <2>1 DEF SetRecords
  <2>5. sets[s].tasks \ {n} \in SUBSET Nodes
    BY <2>1 DEF SetRecords
  <2>6. QED
    BY <2>2, <2>3, <2>4, <2>5 DEF SetRecords, TaskDone
<1>4. sets' \in [Ids -> SetRecords] /\ \A t \in Ids : sets'[t].tasks \subseteq sets[t].tasks
  BY <1>1, <1>3, SetsTyped
<1>5. UNCHANGED <<promises, retired, objects, nextId, wait, loopVars>>
  BY DEF ReapTask
<1>6. QED
  BY <1>2, <1>4, <1>5, TurnKeeps

LEMMA EventsKeep == ASSUME HeapInv, SettleSure \/ SettlePeer \/ ReapTask PROVE Kept
<1>1. CASE SettleSure \/ SettlePeer
  <2>1. PICK n \in Nodes : \E o \in Outcomes(n) : SettleAs(n, o)
    BY <1>1 DEF SettleSure, SettlePeer, Nodes
  <2>2. PICK o \in Outcomes(n) : SettleAs(n, o)
    BY <2>1
  <2>3. QED
    BY <2>2, OutcomeIsFinal, SettleKeeps
<1>2. QED
  BY <1>1, ReapTaskKeeps

LEMMA ResumeKeeps == ASSUME LoopInv, HeapInv, Resume PROVE Kept
<1>1. CASE ResumeError \/ ResumeValue
  <2>1. cur # 0 /\ (Fails \/ Succeeds) /\ UNCHANGED heapVars /\ wait' = NoWait
    BY <1>1 DEF ResumeError, ResumeValue, Settled
  <2>2. QED
    BY <2>1, AnswerOnly
<1>2. CASE ResumeObject
  <2>1. PICK ty \in ObjectTypes : ty = Becomes
    BY <1>2 DEF ResumeObject
  <2>2. /\ cur # 0 /\ AddObject(ty) /\ wait' = NoWait
        /\ UNCHANGED <<nodes, promises, retired, sets>>
    BY <1>2, <2>1 DEF ResumeObject, Settled
  <2>3. QED
    BY <2>2, AddObjectKeeps
<1>3. QED
  BY <1>1, <1>2 DEF Resume

LEMMA TimingOutKeeps == ASSUME LoopInv, HeapInv, TimeOut PROVE Kept
<1>1. cur # 0
  BY DEF TimeOut, Turning, HeapInv, HeapTypeOK
<1>2. QED
  BY <1>1, AnswerOnly DEF TimeOut

\* The end of run().
LEMMA TeardownKeeps == ASSUME LoopInv, HeapInv, Leave, ClearTables PROVE Kept
<1>1. LoopStep /\ cur' = 0 /\ UNCHANGED reply /\ wait' = wait /\ wait.node = 0
  BY DEF LoopStep, Leave, ClearTables, HeapInv, HeapTypeOK, callVars
<1>2. Grown /\ Nodes' = Nodes /\ nextId' = nextId
  BY SameNodes DEF ClearTables, HeapInv
<1>3. \A ty \in PromiseTypes : \A i \in Ids : promises'[ty][i] = 0
  BY DEF ClearTables
<1>4. promises' \in [PromiseTypes -> [Ids -> {0} \cup Nodes]]
  BY DEF ClearTables
<1>5. /\ sets' \in [Ids -> SetRecords]
      /\ \A s \in Ids : sets'[s].tasks = {}
  <2>1. NoTasks.tasks = {}
    BY DEF NoTasks
  <2>2. QED
    BY <2>1, NoTasksIsRecord DEF ClearTables
<1>6. retired' = {} /\ objects' \in [ObjectTypes -> SUBSET Ids]
      /\ \A ty \in ObjectTypes : objects'[ty] = {}
  BY DEF ClearTables
<1>7. HeapTypeOK'
  BY <1>1, <1>2, <1>4, <1>5, <1>6 DEF HeapInv, HeapTypeOK, Grown, SetRecords
<1>8. Single' /\ Roots'
  <2>1. \A ty \in PromiseTypes : \A i \in Ids : promises'[ty][i] \in {0, promises[ty][i]}
    BY <1>3
  <2>2. \A s \in Ids : sets'[s].tasks \subseteq sets[s].tasks
    BY <1>5
  <2>3. wait'.node \in {0, wait.node}
    BY <1>1
  <2>4. QED
    BY <1>2, <2>1, <2>2, <2>3, LessIsSingle
<1>9. RetiredIsGone'
  BY <1>6 DEF RetiredIsGone
<1>10. EveryHandleGranted => EveryHandleGranted'
  <2>1. Granted' = Granted
    BY <1>1 DEF Granted
  <2>2. QED
    BY <1>3, <1>6, <2>1, StillGranted
<1>11. QED
  BY <1>1, <1>7, <1>8, <1>9, <1>10 DEF Kept, HeapInv

\* Callers and the release leave the tables alone.
LEMMA OutsideKeeps ==
    ASSUME LoopInv, HeapInv, UNCHANGED <<heapVars, wait>>,
           \/ \E c \in Calls : Begin(c) \/ \E requests : Enqueue(c, requests)
           \/ Unregister \/ Shutdown \/ Join \/ Pop
           \/ UNCHANGED loopVars
    PROVE  Kept
<1>1. LoopStep
  BY DEF LoopStep
<1>2. UNCHANGED <<nodes, promises, retired, objects, sets, nextId, wait>>
  BY DEF heapVars
<1>3. cur # 0 => cur' # 0
  <2>1. CASE Pop
    BY <2>1 DEF Pop
  <2>2. CASE ~Pop
    <3>1. cur' = cur
      BY <2>2 DEF Begin, Enqueue, Unregister, Shutdown, Join, loopVars
    <3>2. QED
      BY <3>1
  <2>3. QED
    BY <2>1, <2>2
<1>4. wait'.node # 0 => cur' # 0
  BY <1>2, <1>3 DEF HeapInv, HeapTypeOK
<1>5. HeapInv'
  BY <1>2, <1>4, ObjectsTyped, QuietHeap
<1>6. Granted \subseteq Granted'
  <2>1. CASE \E c \in Calls : Begin(c) \/ \E requests : Enqueue(c, requests)
    <3>1. PICK c \in Calls : Begin(c) \/ \E requests : Enqueue(c, requests)
      BY <2>1
    <3>2. reply[c].got = {}
      <4>1. pc[c] # "done"
        BY <3>1 DEF Begin, Enqueue
      <4>2. QED
        BY <4>1 DEF LoopInv, CallsInOrder, NoReply
    <3>3. \A d \in Calls \ {c} : reply'[d] = reply[d]
      BY <3>1 DEF Begin, Enqueue, Complete, Goto, LoopInv, LoopTypeOK
    <3>4. QED
      BY <3>2, <3>3 DEF Granted
  <2>2. CASE Unregister \/ Shutdown \/ Join \/ Pop \/ UNCHANGED loopVars
    BY <2>2 DEF Unregister, Shutdown, Join, Pop, loopVars, callVars, Granted
  <2>3. QED
    BY <2>1, <2>2
<1>7. EveryHandleGranted => EveryHandleGranted'
  BY <1>2, <1>6, StillGranted
<1>8. QED
  BY <1>1, <1>5, <1>7 DEF Kept

-----------------------------------------------------------------------------
(* Part 4.  The branches of run(), family by family.                       *)

LEMMA ServingAttends == ASSUME LoopInv, HeapInv, NEW op, Serving(op) PROVE Attending
BY DEF Serving, Asked, Attending

\* A handle that names an object is one a promise can be about.
LEMMA KnownIsAbout ==
    ASSUME HeapInv, NEW ty \in ObjectTypes, Has(ty, Arg(1))
    PROVE  <<ty, Arg(1)>> \in Abouts
<1>1. Arg(1) \in Ids
  BY DEF Has, HeapInv, HeapTypeOK
<1>2. Arg(1) \in Nat
  BY <1>1, IdSpaceAssumption DEF Ids
<1>3. QED
  BY <1>2 DEF Abouts

LEMMA NothingIsAbout == Nothing \in Abouts
BY DEF Abouts

LEMMA Words ==
    /\ {"void", "conn", "bytes", "uint32", "dgram", "resp", "ws", "msg"} \subseteq PromiseTypes
    /\ {"listener", "address", "connection", "taskSet", "port", "webSocket", "requestBody",
        "responseBody", "server", "serverRequestBody", "serverResponseBody"} \subseteq ObjectTypes
    /\ {"sure", "io", "send", "empty", "then", "catch", "all", "race", "stream", "listen",
        "drain", "completion"} \subseteq Kinds
    /\ {"value", "timed", "listener", "address", "connection", "port", "webSocket",
        "response", "httpServer", "pump"} \subseteq Hows
BY DEF PromiseTypes, ObjectTypes, Kinds, Hows

LEMMA RunPromisesKeeps == ASSUME LoopInv, HeapInv, RunPromises PROVE Kept
<1>0. Attending
  BY ServingAttends DEF RunPromises, SleepNanos, AwaitPromise, CancelPromise, ReleasePromise,
     PromiseThenStart, PromiseCatchStart
<1>1. CASE SleepNanos
  BY <1>0, <1>1, StartKeeps, Words, NothingIsAbout DEF SleepNanos
<1>2. CASE AwaitPromise \/ CancelPromise \/ ReleasePromise
  BY <1>0, <1>2, AwaitIdKeeps, CancelIdKeeps, ReleaseIdKeeps, Words
     DEF AwaitPromise, CancelPromise, ReleasePromise
<1>3. CASE PromiseThenStart \/ PromiseCatchStart
  BY <1>0, <1>3, CombineKeeps, Words DEF PromiseThenStart, PromiseCatchStart
<1>4. QED
  BY <1>1, <1>2, <1>3 DEF RunPromises

LEMMA RunArraysKeeps == ASSUME LoopInv, HeapInv, RunArrays PROVE Kept
<1>0. Attending
  BY ServingAttends DEF RunArrays, PromiseAllStart, PromiseRaceStart
<1>1. QED
  BY <1>0, CombineKeeps, RejectsKeeps, Words DEF RunArrays, PromiseAllStart, PromiseRaceStart

LEMMA RunTaskSetsKeeps == ASSUME LoopInv, HeapInv, RunTaskSets PROVE Kept
<1>0. Attending
  BY ServingAttends DEF RunTaskSets, TaskSetNew, TaskSetRelease, TaskSetAddPromise, TaskSetClear,
     TaskSetIsEmpty, TaskSetOnEmptyStart, TaskSetErrorCount, TaskSetTakeLastError
<1>1. CASE TaskSetIsEmpty \/ TaskSetErrorCount
  BY <1>0, <1>1, ReturnsKeeps, RejectsKeeps DEF TaskSetIsEmpty, TaskSetErrorCount, Needs
<1>2. QED
  BY <1>0, <1>1, TaskSetNewKeeps, TaskSetReleaseKeeps, TaskSetAddPromiseKeeps, TaskSetClearKeeps,
     TaskSetOnEmptyStartKeeps, TaskSetTakeLastErrorKeeps DEF RunTaskSets

LEMMA RunListenersKeeps == ASSUME LoopInv, HeapInv, RunListeners PROVE Kept
<1>0. Attending
  BY ServingAttends DEF RunListeners, Listen, ReleaseListener, Accept, AcceptStart, Connect,
     ConnectStart
<1>1. CASE Listen \/ Connect
  BY <1>0, <1>1, WaitForKeeps, Words, NothingIsAbout DEF Listen, Connect
<1>2. CASE ConnectStart
  BY <1>0, <1>2, StartKeeps, Words, NothingIsAbout DEF ConnectStart
<1>3. CASE ReleaseListener
  BY <1>0, <1>3, EraseKeeps, Words DEF ReleaseListener
<1>4. CASE Accept \/ AcceptStart
  <2>1. CASE Has("listener", Arg(1))
    <3>1. <<"listener", Arg(1)>> \in Abouts
      BY <2>1, KnownIsAbout, Words
    <3>2. QED
      BY <1>0, <1>4, <2>1, <3>1, WaitForKeeps, StartKeeps, Words DEF Accept, AcceptStart, Needs
  <2>2. CASE ~Has("listener", Arg(1))
    BY <1>0, <1>4, <2>2, RejectsKeeps DEF Accept, AcceptStart, Needs
  <2>3. QED
    BY <2>1, <2>2
<1>5. QED
  BY <1>1, <1>2, <1>3, <1>4 DEF RunListeners

LEMMA RunAddressesKeeps == ASSUME LoopInv, HeapInv, RunAddresses PROVE Kept
<1>0. Attending
  BY ServingAttends DEF RunAddresses, ParseAddress, ReleaseNetworkAddress, NetworkAddressToString,
     NetworkAddressClone, NetworkAddressConnect, NetworkAddressConnectStart,
     NetworkAddressListen, NetworkAddressBindDatagramPort
<1>1. CASE ParseAddress
  BY <1>0, <1>1, WaitForKeeps, Words, NothingIsAbout DEF ParseAddress
<1>2. CASE ReleaseNetworkAddress
  BY <1>0, <1>2, EraseKeeps, Words DEF ReleaseNetworkAddress
<1>3. CASE \/ NetworkAddressToString \/ NetworkAddressClone \/ NetworkAddressListen
           \/ NetworkAddressBindDatagramPort
  BY <1>0, <1>3, ReturnsKeeps, MakesKeeps, RejectsKeeps, Words
     DEF NetworkAddressToString, NetworkAddressClone, NetworkAddressListen,
         NetworkAddressBindDatagramPort, Needs
<1>4. CASE NetworkAddressConnect
  <2>1. CASE Has("address", Arg(1))
    <3>1. <<"address", Arg(1)>> \in Abouts
      BY <2>1, KnownIsAbout, Words
    <3>2. QED
      BY <1>0, <1>4, <2>1, <3>1, WaitForKeeps, Words DEF NetworkAddressConnect, Needs
  <2>2. QED
    BY <1>0, <1>4, <2>1, RejectsKeeps DEF NetworkAddressConnect, Needs
<1>5. CASE NetworkAddressConnectStart
  BY <1>0, <1>5, StartKeeps, RejectsKeeps, Words, NothingIsAbout
     DEF NetworkAddressConnectStart, Needs
<1>6. QED
  BY <1>1, <1>2, <1>3, <1>4, <1>5 DEF RunAddresses

LEMMA RunConnectionPromisesKeeps == ASSUME LoopInv, HeapInv, RunConnectionPromises PROVE Kept
<1>0. Attending
  BY ServingAttends DEF RunConnectionPromises, AwaitConnectionPromise,
     AwaitConnectionPromiseWithTimeout, CancelConnectionPromise, ReleaseConnectionPromise,
     ReleaseConnection
<1>1. CASE AwaitConnectionPromise
  BY <1>0, <1>1, AwaitIdKeeps, Words DEF AwaitConnectionPromise
<1>2. CASE AwaitConnectionPromiseWithTimeout
  <2>1. \/ AwaitId("conn", "connection") \/ AwaitId("conn", "timed")
        \/ Take("conn") /\ Fails /\ UNCHANGED wait
        \/ UnknownPromise("conn")
    BY <1>2 DEF AwaitConnectionPromiseWithTimeout
  <2>2. QED
    BY <1>0, <2>1, AwaitIdKeeps, TakeAndAnswer, UnknownKeeps, Words
<1>3. CASE CancelConnectionPromise
  BY <1>0, <1>3, CancelIdKeeps, Words DEF CancelConnectionPromise
<1>4. CASE ReleaseConnectionPromise
  BY <1>0, <1>4, ReleaseIdKeeps, Words DEF ReleaseConnectionPromise
<1>5. CASE ReleaseConnection
  BY <1>0, <1>5, EraseKeeps, Words DEF ReleaseConnection
<1>6. QED
  BY <1>1, <1>2, <1>3, <1>4, <1>5 DEF RunConnectionPromises

LEMMA RunConnectionsKeeps == ASSUME LoopInv, HeapInv, RunConnections PROVE Kept
<1>0. Attending
  BY ServingAttends DEF RunConnections, ConnectionWrite, ConnectionWriteStart, ConnectionRead,
     ConnectionReadStart, AwaitBytesPromise, CancelBytesPromise, ReleaseBytesPromise,
     ConnectionShutdownWrite, ConnectionShutdownWriteStart
<1>1. CASE AwaitBytesPromise \/ CancelBytesPromise \/ ReleaseBytesPromise
  BY <1>0, <1>1, AwaitIdKeeps, CancelIdKeeps, ReleaseIdKeeps, Words
     DEF AwaitBytesPromise, CancelBytesPromise, ReleaseBytesPromise
<1>2. CASE ~(AwaitBytesPromise \/ CancelBytesPromise \/ ReleaseBytesPromise)
  <2>0. PICK kind \in Kinds : kind = Kind
    BY Words DEF Kind
  <2>1. CASE Rejects \/ Returns
    BY <1>0, <2>1, RejectsKeeps, ReturnsKeeps
  <2>2. CASE ~(Rejects \/ Returns)
    <3>1. /\ Has("connection", Arg(1))
          /\ \/ Start("void", kind, Here) \/ StartAndAwait("void", kind, Here, "value")
             \/ Start("bytes", kind, Here) \/ StartAndAwait("bytes", kind, Here, "value")
             \/ Start("void", "sure", Here)
      BY <1>2, <2>0, <2>2 DEF RunConnections, ConnectionWrite, ConnectionWriteStart,
         ConnectionRead, ConnectionReadStart, ConnectionShutdownWrite,
         ConnectionShutdownWriteStart, Needs
    <3>2. Here \in Abouts
      BY <3>1, KnownIsAbout, Words DEF Here
    <3>3. QED
      BY <1>0, <3>1, <3>2, StartKeeps, StartAndAwaitKeeps, Words
  <2>3. QED
    BY <2>1, <2>2
<1>3. QED
  BY <1>1, <1>2

LEMMA RunConnectionEndsKeeps == ASSUME LoopInv, HeapInv, RunConnectionEnds PROVE Kept
<1>0. Attending
  BY ServingAttends DEF RunConnectionEnds, ConnectionWhenWriteDisconnectedStart,
     ConnectionAbortRead, ConnectionAbortWrite, ConnectionDupFd
<1>1. \/ Has("connection", Arg(1)) /\ Start("void", "io", Here)
      \/ Returns \/ Rejects
  BY DEF RunConnectionEnds, ConnectionWhenWriteDisconnectedStart, ConnectionAbortRead,
     ConnectionAbortWrite, ConnectionDupFd, Needs
<1>2. CASE Has("connection", Arg(1)) /\ Start("void", "io", Here)
  <2>1. Here \in Abouts
    BY <1>2, KnownIsAbout, Words DEF Here
  <2>2. QED
    BY <1>0, <1>2, <2>1, StartKeeps, Words
<1>3. QED
  BY <1>0, <1>1, <1>2, RejectsKeeps, ReturnsKeeps

LEMMA RunWrapsKeeps == ASSUME LoopInv, HeapInv, RunWraps PROVE Kept
<1>0. Attending
  BY ServingAttends DEF RunWraps, WrapSocketFd, WrapSocketFdTake, WrapListenSocketFd,
     WrapListenSocketFdTake, WrapDatagramSocketFd, WrapDatagramSocketFdTake, NewTwoWayPipe,
     NewCapabilityPipe
<1>1. \/ Makes("connection") \/ Makes("listener") \/ Makes("port") \/ AddPair("connection")
  BY DEF RunWraps, WrapSocketFd, WrapSocketFdTake, WrapListenSocketFd,
     WrapListenSocketFdTake, WrapDatagramSocketFd, WrapDatagramSocketFdTake, NewTwoWayPipe,
     NewCapabilityPipe
<1>2. QED
  BY <1>0, <1>1, MakesKeeps, AddPairKeeps, Words

LEMMA RunDatagramsKeeps == ASSUME LoopInv, HeapInv, RunDatagrams PROVE Kept
<1>0. Attending
  BY ServingAttends DEF RunDatagrams, DatagramBind, DatagramReleasePort, DatagramGetPort,
     DatagramSend, DatagramSendStart, AwaitUInt32Promise, CancelUInt32Promise,
     ReleaseUInt32Promise
<1>1. CASE AwaitUInt32Promise \/ CancelUInt32Promise \/ ReleaseUInt32Promise
  BY <1>0, <1>1, AwaitIdKeeps, CancelIdKeeps, ReleaseIdKeeps, Words
     DEF AwaitUInt32Promise, CancelUInt32Promise, ReleaseUInt32Promise
<1>2. CASE DatagramBind \/ DatagramReleasePort
  BY <1>0, <1>2, WaitForKeeps, EraseKeeps, Words, NothingIsAbout
     DEF DatagramBind, DatagramReleasePort
<1>3. CASE DatagramGetPort \/ DatagramSend \/ DatagramSendStart
  <2>1. CASE Has("port", Arg(1))
    <3>1. Port \in Abouts
      BY <2>1, KnownIsAbout, Words DEF Port
    <3>2. QED
      BY <1>0, <1>3, <2>1, <3>1, StartKeeps, StartAndAwaitKeeps, ReturnsKeeps, Words
         DEF DatagramGetPort, DatagramSend, DatagramSendStart, Needs
  <2>2. CASE ~Has("port", Arg(1))
    BY <1>0, <1>3, <2>2, RejectsKeeps DEF DatagramGetPort, DatagramSend, DatagramSendStart, Needs
  <2>3. QED
    BY <2>1, <2>2
<1>4. QED
  BY <1>1, <1>2, <1>3 DEF RunDatagrams

LEMMA RunDatagramReceivesKeeps == ASSUME LoopInv, HeapInv, RunDatagramReceives PROVE Kept
<1>0. Attending
  BY ServingAttends DEF RunDatagramReceives, DatagramReceive, DatagramReceiveStart,
     AwaitDatagramReceivePromise, CancelDatagramReceivePromise, ReleaseDatagramReceivePromise
<1>1. CASE AwaitDatagramReceivePromise \/ CancelDatagramReceivePromise
           \/ ReleaseDatagramReceivePromise
  BY <1>0, <1>1, AwaitIdKeeps, CancelIdKeeps, ReleaseIdKeeps, Words
     DEF AwaitDatagramReceivePromise, CancelDatagramReceivePromise,
         ReleaseDatagramReceivePromise
<1>2. CASE DatagramReceive \/ DatagramReceiveStart
  <2>1. \/ Rejects
        \/ /\ Has("port", Arg(1))
           /\ Start("dgram", "io", Port) \/ StartAndAwait("dgram", "io", Port, "value")
    BY <1>2 DEF DatagramReceive, DatagramReceiveStart, Needs
  <2>2. CASE Has("port", Arg(1))
    <3>1. Port \in Abouts
      BY <2>2, KnownIsAbout, Words DEF Port
    <3>2. QED
      BY <1>0, <2>1, <3>1, StartKeeps, StartAndAwaitKeeps, RejectsKeeps, Words
  <2>3. QED
    BY <1>0, <2>1, <2>2, RejectsKeeps
<1>3. QED
  BY <1>1, <1>2 DEF RunDatagramReceives
=============================================================================
