----------------------------- MODULE CallService -----------------------------
(***************************************************************************)
(* What the RPC runtime promises to the threads that call it: a call is    *)
(* either turned away, and that only once a release has begun, or taken on *)
(* and answered exactly once; calls taken on are started in the order they *)
(* were taken on; and the service stops only when it owes no answer.       *)
(***************************************************************************)
EXTENDS Sequences

CONSTANT Calls

VARIABLES phase,   \* "new", "waiting", "started", "answered" or "away"
          line,    \* the waiting calls, in the order they were taken on
          gate     \* "open", "closing", "closed" or "stopped"

vars == <<phase, line, gate>>

Init == /\ phase = [c \in Calls |-> "new"]
        /\ line = <<>>
        /\ gate = "open"

Move(c, p) == phase' = [phase EXCEPT ![c] = p]

\* Lookups made before the release began still get in while it is closing.
TakeOn(c) == /\ phase[c] = "new"
             /\ gate \in {"open", "closing"}
             /\ Move(c, "waiting")
             /\ line' = Append(line, c)
             /\ UNCHANGED gate

TurnAway(c) == /\ phase[c] = "new"
               /\ gate # "open"
               /\ Move(c, "away")
               /\ UNCHANGED <<line, gate>>

\* A call from inside the service, answered without waiting in line.
AnswerInline(c) == /\ phase[c] = "new"
                   /\ gate = "open"
                   /\ Move(c, "answered")
                   /\ UNCHANGED <<line, gate>>

Start == /\ line # <<>>
         /\ Move(Head(line), "started")
         /\ line' = Tail(line)
         /\ UNCHANGED gate

Finish(c) == /\ phase[c] = "started"
             /\ Move(c, "answered")
             /\ UNCHANGED <<line, gate>>

Close == /\ \/ gate = "open" /\ gate' = "closing"
            \/ gate = "closing" /\ gate' = "closed"
         /\ UNCHANGED <<phase, line>>

Stop == /\ gate = "closed"
        /\ line = <<>>
        /\ \A c \in Calls : phase[c] # "started"
        /\ gate' = "stopped"
        /\ UNCHANGED <<phase, line>>

Next == \/ \E c \in Calls : TakeOn(c) \/ TurnAway(c) \/ AnswerInline(c) \/ Finish(c)
        \/ Start \/ Close \/ Stop

Spec == Init /\ [][Next]_vars
=============================================================================
