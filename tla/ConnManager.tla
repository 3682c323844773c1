---------------------------- MODULE ConnManager ----------------------------
(***************************************************************************)
(* connection.Manager (connection/manager.go): a concurrent map from keys  *)
(* to connections or sessions, and the Watch goroutine that, at every tick *)
(* of a timer, asks a callback about each pair of a snapshot of the map    *)
(* and removes the keys for which the callback answers true.               *)
(*                                                                         *)
(* The map operations (Get, Set, Upsert, Remove) are atomic: the library   *)
(* locks the shard of the key.  A round of Watch is not: the snapshot, the *)
(* callback and the removal are separate steps.  Items() copies the map    *)
(* shard by shard; a single copy is used here because no property compares *)
(* two keys.                                                               *)
(*                                                                         *)
(* The operators take the callback's verdict as a parameter, so that the   *)
(* services that own a manager instantiate this module with their own      *)
(* table and their own callback.                                           *)
(***************************************************************************)
EXTENDS FiniteSets

CONSTANTS Keys,     \* the keys (secret keys, source addresses)
          Values,   \* the identities of the values stored
          Nil       \* no value, neither a key nor a value

VARIABLES table,    \* the concurrent map: table[k] = Nil when k is absent
          scan,     \* the pairs of Items() that the round has not visited
          doomed    \* the pair whose callback answered true, not yet removed

Empty == [k \in Keys |-> Nil]

MgrTypeOK ==
    /\ table \in [Keys -> Values \cup {Nil}]
    /\ scan \in [Keys -> Values \cup {Nil}]
    /\ doomed \in (Keys \X Values) \cup {Nil}

MgrInit ==
    /\ table = Empty
    /\ scan = Empty
    /\ doomed = Nil

-----------------------------------------------------------------------------
(* The map, as its users call it. *)

Set(k, v) == table' = [table EXCEPT ![k] = v]

Remove(k) == table' = [table EXCEPT ![k] = Nil]

-----------------------------------------------------------------------------
(* One round of Watch. *)

(* A tick: Items() copies the map. *)
Tick ==
    /\ doomed = Nil
    /\ scan = Empty
    /\ table # Empty
    /\ scan' = table
    /\ UNCHANGED <<table, doomed>>

(* The callback is asked about one pair; a round has no order. *)
Visit(k, verdict) ==
    /\ doomed = Nil
    /\ scan[k] # Nil
    /\ scan' = [scan EXCEPT ![k] = Nil]
    /\ doomed' = IF verdict THEN <<k, scan[k]>> ELSE Nil
    /\ UNCHANGED table

(* Remove(k): whatever the map holds under the key by now goes. *)
Delete ==
    /\ doomed # Nil
    /\ Remove(doomed[1])
    /\ doomed' = Nil
    /\ UNCHANGED scan

=============================================================================
