--------------------------------- MODULE JMap ---------------------------------
(***************************************************************************)
(* What a JSON object promises the code that builds and reads it: a map    *)
(* from keys to values with insert/replace semantics (jobject.h, "JSON     *)
(* Object operations"), usable until it is released, whose iteration goes  *)
(* through the keys in the order they were first put.  JObject implements  *)
(* it with a chained hash table threaded by a linked list.                 *)
(***************************************************************************)
CONSTANTS
  Keys,    (* the names a client uses                                      *)
  Values,  (* the values it associates with them                           *)
  Start,   (* where an iteration starts and ends; not a key                *)
  Absent   (* what a name without a pair has for value and successor       *)

VARIABLES
  map,    (* the value each key is associated with, or Absent              *)
  after,  (* the key an iteration meets next, after Start and each key     *)
  alive   (* the last reference has not been released                      *)

vars == <<map, after, alive>>

Places == Keys \cup {Start}

Empty    == [k \in Keys |-> Absent]
Unlinked == [p \in Places |-> IF p = Start THEN Start ELSE Absent]

Init == map = Empty /\ after = Unlinked /\ alive = TRUE

(* jobject_put and jobject_set: "existing key/value pairs are replaced".  The
   key keeps its place in the iteration. *)
Replace(k, v) ==
  /\ alive
  /\ map[k] # Absent
  /\ map' = [map EXCEPT ![k] = v]
  /\ UNCHANGED <<after, alive>>

(* A new key comes last. *)
Add(k, v) ==
  /\ alive
  /\ map[k] = Absent
  /\ map' = [map EXCEPT ![k] = v]
  /\ after' = [p \in Places |-> IF p = k THEN Start
                                ELSE IF after[p] = Start THEN k ELSE after[p]]
  /\ UNCHANGED alive

(* The j_release that drops the last reference. *)
Release ==
  /\ alive
  /\ map' = Empty
  /\ after' = Unlinked
  /\ alive' = FALSE

Next ==
  \/ \E k \in Keys, v \in Values : Replace(k, v) \/ Add(k, v)
  \/ Release

Spec == Init /\ [][Next]_vars
===============================================================================
