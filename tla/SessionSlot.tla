----------------------------- MODULE SessionSlot -----------------------------
(***************************************************************************)
(* What a node of the NAT traversal service, server or client, promises    *)
(* the streams it carries: there is at most one session at a time, a new   *)
(* one is created only after the previous one ended, and a stream begins   *)
(* on the session there is.                                                *)
(***************************************************************************)
CONSTANTS Users, Sessions, Nil

VARIABLES live,   \* the sessions that have not been closed
          user    \* user[u]: the session that carries the stream of u, or Nil

vars == <<live, user>>

Init ==
    /\ live = {}
    /\ user = [u \in Users |-> Nil]

(* A session is created when there is none, under a name no stream uses.   *)
Establish(s) ==
    /\ live = {}
    /\ \A u \in Users : user[u] # s
    /\ live' = {s}
    /\ UNCHANGED user

(* The session ends; streams on it may remain to be closed.                *)
Lose ==
    /\ live' = {}
    /\ UNCHANGED user

Join(u) ==
    /\ user[u] = Nil
    /\ \E s \in live : user' = [user EXCEPT ![u] = s]
    /\ UNCHANGED live

Leave(u) ==
    /\ user' = [user EXCEPT ![u] = Nil]
    /\ UNCHANGED live

(* The node ends, and with it its streams.                                 *)
End ==
    /\ live' = {}
    /\ user' = [u \in Users |-> Nil]

Next ==
    \/ \E s \in Sessions : Establish(s)
    \/ Lose \/ End
    \/ \E u \in Users : Join(u) \/ Leave(u)

Spec == Init /\ [][Next]_vars

=============================================================================
