----------------------------- MODULE FlowTable -----------------------------
(***************************************************************************)
(* What a relay of datagrams promises the sources it serves: a connection  *)
(* is created for a source only while it has none, by one at a time, no    *)
(* two sources share one, and an entry leaves the table as it is, never    *)
(* replaced by another.                                                    *)
(***************************************************************************)
CONSTANTS Srcs, Conns, Nil

VARIABLES entry,      \* entry[s]: the connection of source s, or Nil
          creating    \* the sources for which one is being created

vars == <<entry, creating>>

Init ==
    /\ entry = [s \in Srcs |-> Nil]
    /\ creating = {}

Begin(s) ==
    /\ entry[s] = Nil
    /\ s \notin creating
    /\ creating' = creating \cup {s}
    /\ UNCHANGED entry

Abort(s) ==
    /\ creating' = creating \ {s}
    /\ UNCHANGED entry

(* The new connection is nobody's.                                         *)
Finish(s, c) ==
    /\ s \in creating
    /\ entry[s] = Nil
    /\ \A r \in Srcs : entry[r] # c
    /\ entry' = [entry EXCEPT ![s] = c]
    /\ creating' = creating \ {s}

Forget(s) ==
    /\ entry' = [entry EXCEPT ![s] = Nil]
    /\ UNCHANGED creating

Next ==
    \E s \in Srcs :
        \/ Begin(s) \/ Abort(s) \/ Forget(s)
        \/ \E c \in Conns : Finish(s, c)

Spec == Init /\ [][Next]_vars

=============================================================================
