----------------------------- MODULE PeerSharing -----------------------------
(***************************************************************************)
(* What the target table promises about connections: a connection is kept  *)
(* as long as one capability id holds it, and closed when the last of them *)
(* is released.                                                            *)
(***************************************************************************)
CONSTANTS Ids, Peers

VARIABLES holders,  \* the ids that hold each connection
          up        \* the connections that are open

vars == <<holders, up>>

Init == /\ holders = [p \in Peers |-> {}]
        /\ up = {}

Connect(p, t) == /\ holders[p] = {} /\ p \notin up
                 /\ holders' = [holders EXCEPT ![p] = {t}]
                 /\ up' = up \cup {p}

Share(p, t) == /\ holders[p] # {}
               /\ t \notin holders[p]
               /\ holders' = [holders EXCEPT ![p] = @ \cup {t}]
               /\ UNCHANGED up

Leave(p, t) == /\ t \in holders[p]
               /\ holders' = [holders EXCEPT ![p] = @ \ {t}]
               /\ up' = IF holders[p] = {t} THEN up \ {p} ELSE up

Next == \E p \in Peers, t \in Ids : Connect(p, t) \/ Share(p, t) \/ Leave(p, t)

Spec == Init /\ [][Next]_vars
=============================================================================
