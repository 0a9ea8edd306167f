-------------------------------- MODULE JObject --------------------------------
(***************************************************************************)
(* A JSON object (jobject.c, "JSON OBJECT API"): a chain of bucket tables, *)
(* where a key may only sit in its own bucket of some table, with the      *)
(* occupied slots threaded on an intrusive doubly linked ring whose head   *)
(* is m_start (linked_list.h).  Lookups walk the chain, everything else    *)
(* (size, printing, destruction) walks the ring.                           *)
(*                                                                         *)
(* The module models the Release build: assert() is compiled out, so an    *)
(* operation does what its statements do.  One object and one client are   *)
(* modelled; the library is single-threaded.  References to keys and       *)
(* values are model values, and "refs" counts how many of each the object  *)
(* owns.  The empty string is not among the keys: jobject_put refuses it   *)
(* and leaves its ownership with the caller (jobject_create_var, which     *)
(* inserts its pairs without that check, would store it like any other).   *)
(***************************************************************************)
EXTENDS Integers, Sequences, FiniteSets

CONSTANTS
  Keys,       (* non-empty key strings                                      *)
  Values,     (* values put into the object                                 *)
  Buckets,    (* the slots of one table (OBJECT_BUCKET_SIZE of them)        *)
  Hash,       (* key_hash: the bucket of a key                              *)
  MaxTables,  (* how many tables the chain may have before calloc fails     *)
  MaxLost,    (* bound: pairs whose insertion an allocation failure aborts  *)
  Start,      (* the ring's head, &m_start                                  *)
  NULL        (* the C null pointer                                         *)

Tables == 1 .. MaxTables
Slots  == Tables \X Buckets
Ring   == Slots \cup {Start}

ASSUME ObjectConstants ==
  /\ MaxTables \in Nat \ {0}
  /\ MaxLost \in Nat
  /\ IsFiniteSet(Buckets)
  /\ Hash \in [Keys -> Buckets]
  /\ Start \notin Slots \cup Keys
  /\ NULL \notin Ring \cup Keys \cup Values
  /\ Keys \cap Values = {}

VARIABLES
  phase,   (* what is being done with the object                            *)
  ntab,    (* number of tables in the chain                                 *)
  key,     (* entry.key of every slot                                       *)
  val,     (* entry.value of every slot                                     *)
  next,    (* list.next of every slot and of Start                          *)
  prev,    (* list.prev of every slot and of Start                          *)
  cursor,  (* the iterator of the loop in progress, or NULL                 *)
  freed,   (* slots whose entry points to a key and value already released  *)
  refs,    (* references to each key and value that the object owns         *)
  (* History, read by no action: *)
  order,    (* the slots on the ring, in the order they were linked, until  *)
            (* one is linked twice                                          *)
  seen,     (* the slots the loop in progress has visited                   *)
  assoc,    (* the value the client last associated with each key, or NULL  *)
  lost,     (* references accepted by jobject_put but never stored          *)
  refilled  (* a slot that was still on the ring was linked again           *)

table == <<ntab, key, val>>
ring  == <<next, prev, order, refilled>>
loop  == <<cursor, seen>>
vars  == <<phase, table, ring, loop, freed, refs, lost, assoc>>

Phases == {"live", "iterating", "destroying", "destroyed", "undefined"}
References == Keys \cup Values

-------------------------------------------------------------------------------
(* Searching the chain. *)

Slot(t, k) == <<t, Hash[k]>>

(* Variant of Stops: the keys are not compared. *)
StopsUncompared(k) == 1 .. ntab

(* Where the walk for k can stop: at a slot without a key, or with this key. *)
Stops(k) == {t \in 1 .. ntab : key[Slot(t, k)] \in {NULL, k}}

IsFirstStop(t, k) == t \in Stops(k) /\ \A s \in Stops(k) : t <= s

(* The slots whose key the walk for k compares with k. *)
Compared(k) ==
  {n \in Slots : \E t \in 1 .. ntab : /\ n = Slot(t, k)
                                      /\ key[n] # NULL
                                      /\ \A s \in Stops(k) : t <= s}

(* Variant of Find: the chain is not followed past the first table. *)
FindInFirstTable(k) == IF key[Slot(1, k)] = k THEN Slot(1, k) ELSE NULL

(* jobject_find: the slot that holds k, or NULL. *)
Find(k) ==
  IF \E t \in 1 .. ntab : IsFirstStop(t, k) /\ key[Slot(t, k)] # NULL
  THEN Slot(CHOOSE t \in 1 .. ntab : IsFirstStop(t, k), k)
  ELSE NULL

(* jobject_get_exists and jobject_get: the value found, NULL without one. *)
Lookup(k) == IF Find(k) = NULL THEN NULL ELSE val[Find(k)]

(* Every comparison on the way to k reads a key that still exists. *)
Safe(k) == Compared(k) \cap freed = {}

-------------------------------------------------------------------------------
(* The ring. *)

OnRing == {order[i] : i \in DOMAIN order}

(* Slots on the ring that jobject_remove has emptied. *)
Holes == {n \in OnRing : key[n] = NULL}

(* Variants of Ladd and Ldel: a store is missing. *)
LaddNoPrev(n, p) == /\ prev' = [prev EXCEPT ![n] = p]
                    /\ next' = [next EXCEPT ![n] = next[p], ![p] = n]

LaddNoNext(n, p) == /\ prev' = [prev EXCEPT ![next[p]] = n, ![n] = p]
                    /\ next' = [next EXCEPT ![n] = next[p]]

LdelOneWay(n) == /\ next' = [next EXCEPT ![prev[n]] = next[n], ![n] = n]
                 /\ prev' = [prev EXCEPT ![n] = n]

(* ladd(n, p): n joins the ring after p, by the stores of __ladd in order. *)
Ladd(n, p) == /\ prev' = [prev EXCEPT ![next[p]] = n, ![n] = p]
              /\ next' = [next EXCEPT ![n] = next[p], ![p] = n]

(* ldel(n): n leaves the ring and points to itself. *)
Ldel(n) == /\ next' = [next EXCEPT ![prev[n]] = next[n], ![n] = n]
           /\ prev' = [prev EXCEPT ![next[n]] = prev[n], ![n] = n]

(* Variant of LinkLast: ladd(n, start) instead of ladd(n, start.prev). *)
LinkFirst(n) ==
  /\ Ladd(n, Start)
  /\ refilled' = (refilled \/ n \in Holes)
  /\ order' = IF refilled' THEN <<>> ELSE <<n>> \o order

LinkLast(n) ==
  /\ Ladd(n, prev[Start])
  /\ refilled' = (refilled \/ n \in Holes)
  /\ order' = IF refilled' THEN <<>> ELSE Append(order, n)

(* The history without n. *)
Without(n) ==
  LET i == CHOOSE i \in DOMAIN order : order[i] = n
  IN  [j \in 1 .. Len(order) - 1 |-> IF j < i THEN order[j] ELSE order[j + 1]]

Unlink(n) ==
  /\ Ldel(n)
  /\ order' = IF n \in OnRing THEN Without(n) ELSE order
  /\ UNCHANGED refilled

(* Variants of Following: read after ldel(n), and advanced once too often. *)
FollowingUnlinked(n) == n
FollowingTwice(n) == next[next[n]]

(* jobj_iter_next_internal *)
Following(n) == next[n]

(* jobj_iter_is_valid: m_start.entry.key is always NULL. *)
Valid(n) == n # Start /\ key[n] # NULL

-------------------------------------------------------------------------------
(* Ownership. *)

(* Variant of Take: jobject_set without its jvalue_copy of the value. *)
TakeKeyOnly(k, v) == refs' = [refs EXCEPT ![k] = @ + 1]

Take(k, v)    == refs' = [refs EXCEPT ![k] = @ + 1, ![v] = @ + 1]
Release(k, v) == refs' = [refs EXCEPT ![k] = @ - 1, ![v] = @ - 1]

(* Variant of Swap: the old pair is not released. *)
SwapKeepsOld(old, new) == refs' = [refs EXCEPT ![new] = @ + 1]

(* The new pair's references come in and the old pair's go: the keys are
   equal strings, so their counts cancel. *)
Swap(old, new) == refs' = [[refs EXCEPT ![new] = @ + 1] EXCEPT ![old] = @ - 1]

-------------------------------------------------------------------------------
(* jobject_put and jobject_set, through jobject_insert_internal. *)

(* Variant of Store: a value pointer left in the slot is kept. *)
StoreIfAbsent(n, k, v) ==
  /\ key' = [key EXCEPT ![n] = k]
  /\ val' = [val EXCEPT ![n] = IF @ = NULL THEN v ELSE @]

Store(n, k, v) ==
  /\ key' = [key EXCEPT ![n] = k]
  /\ val' = [val EXCEPT ![n] = v]

(* An equal key is met first: its pair is released and overwritten in place. *)
Replace(k, v) ==
  /\ phase = "live" /\ Safe(k)
  /\ \E t \in 1 .. ntab :
       /\ IsFirstStop(t, k)
       /\ key[Slot(t, k)] # NULL
       /\ Store(Slot(t, k), k, v)
       /\ Swap(val[Slot(t, k)], v)
  /\ assoc' = [assoc EXCEPT ![k] = v]
  /\ UNCHANGED <<phase, ntab, ring, loop, freed, lost>>

(* A slot without a key is met first: it takes the pair and joins the ring. *)
Fill(k, v) ==
  /\ phase = "live" /\ Safe(k)
  /\ \E t \in 1 .. ntab :
       /\ IsFirstStop(t, k)
       /\ key[Slot(t, k)] = NULL
       /\ Store(Slot(t, k), k, v)
       /\ LinkLast(Slot(t, k))
  /\ Take(k, v)
  /\ assoc' = [assoc EXCEPT ![k] = v]
  /\ UNCHANGED <<phase, ntab, loop, freed, lost>>

(* Every table of the chain has another key there: a table is added. *)
Extend(k, v) ==
  /\ phase = "live" /\ Safe(k)
  /\ Stops(k) = {}
  /\ ntab < MaxTables
  /\ ntab' = ntab + 1
  /\ Store(Slot(ntab + 1, k), k, v)
  /\ LinkLast(Slot(ntab + 1, k))
  /\ Take(k, v)
  /\ assoc' = [assoc EXCEPT ![k] = v]
  /\ UNCHANGED <<phase, loop, freed, lost>>

(* ... or calloc fails.  jobject_put ignores that jobject_insert_internal
   returned false and returns true, so the caller has given its references
   away and nobody holds them (jobject.h:280-281: "True if the
   association was made"). *)
ExtendFails(k, v) ==
  /\ phase = "live" /\ Safe(k)
  /\ Stops(k) = {}
  /\ lost[k] < MaxLost /\ lost[v] < MaxLost
  /\ Take(k, v)
  /\ lost' = [lost EXCEPT ![k] = @ + 1, ![v] = @ + 1]
  /\ UNCHANGED <<phase, table, ring, loop, freed, assoc>>

Put(k, v) == Replace(k, v) \/ Fill(k, v) \/ Extend(k, v) \/ ExtendFails(k, v)

(* jobject_remove: the pair is released and the slot loses its key, but the
   slot stays on the ring, and so does its stale value pointer. *)
Remove(k) ==
  /\ phase = "live" /\ Safe(k)
  /\ Find(k) # NULL
  /\ key' = [key EXCEPT ![Find(k)] = NULL]
  /\ Release(k, val[Find(k)])
  /\ assoc' = [assoc EXCEPT ![k] = NULL]
  /\ UNCHANGED <<phase, ntab, val, ring, loop, freed, lost>>

-------------------------------------------------------------------------------
(* Iteration.  jobject.h leaves changing the object during an iteration
   undefined, so only iterator calls are made between IterInit and IterEnd. *)

IterInit ==
  /\ phase = "live"
  /\ phase' = "iterating"
  /\ cursor' = next[Start]
  /\ seen' = {}
  /\ UNCHANGED <<table, ring, freed, refs, lost, assoc>>

IterNext ==
  /\ phase = "iterating"
  /\ Valid(cursor) /\ cursor \notin freed
  /\ cursor' = Following(cursor)
  /\ seen' = seen \cup {cursor}
  /\ UNCHANGED <<phase, table, ring, freed, refs, lost, assoc>>

(* What jobj_iter_remove does: unlink the slot and release its pair.  The
   entry keeps both pointers. *)
DropPair ==
  /\ Valid(cursor) /\ cursor \notin freed
  /\ cursor' = Following(cursor)
  /\ Unlink(cursor)
  /\ Release(key[cursor], val[cursor])
  /\ freed' = freed \cup {cursor}
  /\ assoc' = [assoc EXCEPT ![key[cursor]] = NULL]
  /\ UNCHANGED <<table, seen, lost>>

IterRemove == phase = "iterating" /\ DropPair /\ UNCHANGED phase

(* The client's loop is over, or it leaves the loop early. *)
IterEnd ==
  /\ phase = "iterating"
  /\ phase' = "live"
  /\ cursor' = NULL
  /\ seen' = {}
  /\ UNCHANGED <<table, ring, freed, refs, lost, assoc>>

-------------------------------------------------------------------------------
(* The last j_release: j_destroy_object. *)

Destroy ==
  /\ phase = "live"
  /\ phase' = "destroying"
  /\ cursor' = next[Start]
  /\ UNCHANGED <<table, ring, seen, freed, refs, lost, assoc>>

DestroyStep == phase = "destroying" /\ DropPair /\ UNCHANGED phase

(* The loop has met a slot without a key: the tables are freed. *)
DestroyEnd ==
  /\ phase = "destroying"
  /\ ~Valid(cursor)
  /\ phase' = "destroyed"
  /\ key' = [n \in Slots |-> NULL]
  /\ val' = [n \in Slots |-> NULL]
  /\ cursor' = NULL
  /\ freed' = {}
  /\ UNCHANGED <<ntab, ring, seen, refs, lost, assoc>>

(* A comparison with a released key, or a second release of a pair: undefined
   behaviour, after which the model makes no promise. *)
UseFreed ==
  /\ \/ phase = "live" /\ \E k \in Keys : ~Safe(k)
     \/ phase \in {"iterating", "destroying"} /\ cursor \in freed
  /\ phase' = "undefined"
  /\ UNCHANGED <<table, ring, loop, freed, refs, lost, assoc>>

-------------------------------------------------------------------------------
(* jobject_create, or jobject_create_hint, which allocates tables ahead. *)
Init ==
  /\ phase = "live"
  /\ ntab \in Tables
  /\ key = [n \in Slots |-> NULL]
  /\ val = [n \in Slots |-> NULL]
  /\ next = [n \in Ring |-> IF n = Start THEN Start ELSE NULL]
  /\ prev = [n \in Ring |-> IF n = Start THEN Start ELSE NULL]
  /\ cursor = NULL
  /\ freed = {}
  /\ refs = [x \in References |-> 0]
  /\ order = <<>>
  /\ seen = {}
  /\ assoc = [k \in Keys |-> NULL]
  /\ lost = [x \in References |-> 0]
  /\ refilled = FALSE

(* What the library itself, its parser and its C++ wrapper do with an object:
   none of them calls jobject_remove, or jobj_iter_remove but to destroy. *)
BuildNext ==
  \/ \E k \in Keys, v \in Values : Put(k, v)
  \/ IterInit \/ IterNext \/ IterEnd
  \/ Destroy \/ DestroyStep \/ DestroyEnd

(* Everything the C API lets a client do. *)
Next ==
  \/ BuildNext
  \/ \E k \in Keys : Remove(k)
  \/ IterRemove
  \/ UseFreed

(* j_destroy_object runs to its end once j_release has called it. *)
Fairness == WF_vars(DestroyStep) /\ WF_vars(DestroyEnd)

BuildSpec == Init /\ [][BuildNext]_vars /\ Fairness
Spec      == Init /\ [][Next]_vars /\ Fairness
-------------------------------------------------------------------------------
(* The variables have their types: no link leaves the ring's nodes, no slot
   holds a key of another bucket, and no count of references is negative. *)
TypeOK ==
  /\ phase \in Phases
  /\ ntab \in Tables
  /\ key \in [Slots -> Keys \cup {NULL}]
  /\ val \in [Slots -> Values \cup {NULL}]
  /\ next \in [Ring -> Ring \cup {NULL}]
  /\ prev \in [Ring -> Ring \cup {NULL}]
  /\ cursor \in Ring \cup {NULL}
  /\ freed \subseteq Slots
  /\ refs \in [References -> Nat]
  /\ order \in Seq(Slots)
  /\ seen \subseteq Slots
  /\ assoc \in [Keys -> Values \cup {NULL}]
  /\ lost \in [References -> Nat]
  /\ refilled \in BOOLEAN

(* The slots that hold a pair. *)
Stored == {n \in Slots : key[n] # NULL} \ freed

(* Every pair in the table is the one a lookup of its key finds: it sits in its
   key's bucket, no empty slot hides it, and no other slot has the same key
   (jobject_find stops at the first empty slot, jobject_insert_internal fills
   the first one). *)
Findable == phase # "destroyed" => \A n \in Stored : Find(key[n]) = n

(* A forward and a backward link function that thread Start and the elements
   of ord, each once, in ord's order. *)
At(ord, i) == IF i \in 1 .. Len(ord) THEN ord[i] ELSE Start

IsRing(nx, pv, ord) ==
  /\ \A i, j \in 1 .. Len(ord) : ord[i] = ord[j] => i = j
  /\ \A i \in 0 .. Len(ord) : nx[At(ord, i)] = At(ord, i + 1)
  /\ \A i \in 1 .. Len(ord) + 1 : pv[At(ord, i)] = At(ord, i - 1)

(* The links form a ring through exactly the slots linked so far, in the order
   they were linked, as long as no slot that jobject_remove left on the ring
   was linked a second time. *)
RingOK == ~refilled => IsRing(next, prev, order)

(* A loop over the object (jobject_size, printing, jvalue_duplicate, the C++
   iterators) visits no pair twice, and every pair by the time its iterator
   stops being valid, unless the ring has a slot that jobject_remove emptied. *)
IterationExact ==
  (phase = "iterating" /\ Holes = {} /\ ~refilled) =>
    /\ cursor \notin seen \cup freed
    /\ ~Valid(cursor) => Stored \subseteq seen

(* The slots whose pair holds a reference to x. *)
Holders(x) == {n \in Stored : x \in {key[n], val[n]}}

(* The object owns one reference to each key and value it stores, besides
   those an allocation failure made jobject_put drop.  Once it is destroyed
   only the latter remain: every other reference was released exactly once. *)
Ownership == \A x \in References : refs[x] = Cardinality(Holders(x)) + lost[x]

(* j_destroy_object's loop ends and the tables are freed. *)
DestroyTerminates == phase = "destroying" ~> phase = "destroyed"

(* The key an iteration meets after p, which is a key or Start, by the links of
   the ring; NULL for a key that no lookup finds. *)
KeyAt(n) == IF n = Start THEN Start ELSE key[n]

Successor(p) ==
  IF p = Start THEN KeyAt(next[Start])
  ELSE IF Find(p) = NULL THEN NULL ELSE KeyAt(next[Find(p)])

Usable == phase \in {"live", "iterating"}

Map == INSTANCE JMap WITH
  Absent <- NULL,
  map    <- [k \in Keys |-> IF Usable THEN Lookup(k) ELSE NULL],
  after  <- [p \in Keys \cup {Start} |->
               IF Usable THEN Successor(p)
               ELSE IF p = Start THEN Start ELSE NULL],
  alive  <- Usable

(* The two structures an object is kept in, the chain of tables that lookups
   walk and the ring that everything else walks, always show one map: a put of
   a new key adds it to both, last in the iteration, a put of a known key
   leaves its place, and each key a lookup finds is met by an iteration just
   once.  The parser, jvalue_duplicate and the printer rely on that order;
   jobject.h promises none.  A put that fails for want of memory leaves the map
   as it is, though the caller is told that it succeeded (ExtendFails): the
   map says nothing of results. *)
MapSpec == Map!Spec

(* A lookup finds what the client last associated with the key: jobject_put and
   jobject_set replace, nothing else changes an association, and colliding
   keys do not disturb each other. *)
LookupExact == Usable => \A k \in Keys : Lookup(k) = assoc[k]

(* A key that shares its bucket with no other is looked up exactly even under
   jobject_remove and jobj_iter_remove, up to the first use of an entry that
   jobj_iter_remove left behind: no emptied slot can hide it or be taken by
   another key. *)
LoneKeys == {k \in Keys : \A j \in Keys \ {k} : Hash[j] # Hash[k]}

LoneLookupExact ==
  Usable => \A k \in LoneKeys :
    IF Find(k) \in freed THEN assoc[k] = NULL ELSE Lookup(k) = assoc[k]
================================================================================
