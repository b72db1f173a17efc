---------------------------- MODULE ResponseStore ----------------------------
(***************************************************************************)
(* What the cache promises to the handlers: for each key a response that   *)
(* one user, the first to ask, fills while the others may already use it,  *)
(* that is settled once as complete or failed, and that is forgotten only  *)
(* if it failed, when its last user leaves.                                *)
(***************************************************************************)
EXTENDS Naturals

CONSTANTS Users, Keys

VARIABLES
    state,   \* state[k]: absent, filling, complete or failed
    size,    \* size[k]: how long the response for k is so far
    users,   \* users[k]: those who have asked for k and not left
    writers  \* writers[k]: the one of them who is filling the response

vars == <<state, size, users, writers>>

Init ==
    /\ state = [k \in Keys |-> "absent"]
    /\ size = [k \in Keys |-> 0]
    /\ users = [k \in Keys |-> {}]
    /\ writers = [k \in Keys |-> {}]

Elsewhere(u) == \E k \in Keys : u \in users[k]

Begin(u, k) ==
    /\ ~Elsewhere(u)
    /\ state[k] = "absent"
    /\ state' = [state EXCEPT ![k] = "filling"]
    /\ users' = [users EXCEPT ![k] = {u}]
    /\ writers' = [writers EXCEPT ![k] = {u}]
    /\ UNCHANGED size

Join(u, k) ==
    /\ ~Elsewhere(u)
    /\ state[k] # "absent"
    /\ users' = [users EXCEPT ![k] = @ \cup {u}]
    /\ UNCHANGED <<state, size, writers>>

Extend(u, k) ==
    /\ writers[k] = {u}
    /\ size'[k] > size[k]
    /\ size' = [size EXCEPT ![k] = size'[k]]
    /\ UNCHANGED <<state, users, writers>>

Settle(u, k) ==
    /\ writers[k] = {u}
    /\ writers' = [writers EXCEPT ![k] = {}]
    /\ \E verdict \in {"complete", "failed"} :
        state' = [state EXCEPT ![k] = verdict]
    /\ UNCHANGED <<size, users>>

\* What failed is asked for anew once all that saw it fail have left.
Leave(u, k) ==
    /\ u \in users[k] \ writers[k]
    /\ users' = [users EXCEPT ![k] = @ \ {u}]
    /\ IF users[k] = {u} /\ state[k] = "failed"
       THEN /\ state' = [state EXCEPT ![k] = "absent"]
            /\ size' = [size EXCEPT ![k] = 0]
       ELSE UNCHANGED <<state, size>>
    /\ UNCHANGED writers

\* Everything is given up, when nobody uses it any more.
Close ==
    /\ \A k \in Keys : users[k] = {}
    /\ state' = [k \in Keys |-> "absent"]
    /\ size' = [k \in Keys |-> 0]
    /\ UNCHANGED <<users, writers>>

Next ==
    \/ \E u \in Users, k \in Keys :
        Begin(u, k) \/ Join(u, k) \/ Extend(u, k) \/ Settle(u, k) \/ Leave(u, k)
    \/ Close

Spec == Init /\ [][Next]_vars
=============================================================================
