----------------------------- MODULE JObject_proofs -----------------------------
(***************************************************************************)
(* Proofs about JObject, for every set of keys and values, every hash      *)
(* function, every table size and every number of tables: first for        *)
(* clients that build, read and destroy an object (BuildSpec), then for    *)
(* everything the C API lets a client do (Spec).                           *)
(*                                                                         *)
(* The inductive invariants are IInv and ApiInv.  Their parts talk about   *)
(* slots only; what a lookup finds follows from them (FindStored,          *)
(* FindMissing, LoneSearch).                                               *)
(***************************************************************************)
EXTENDS JObject, FiniteSetTheorems, TLAPS

-------------------------------------------------------------------------------
(* The inductive invariant. *)

(* A pair sits in its key's bucket, in an allocated table; in the tables before
   it that bucket is taken by other keys. *)
Chain ==
  /\ \A n \in Slots : key[n] # NULL => n[1] <= ntab /\ n[2] = Hash[key[n]]
  /\ \A s, t \in Tables, b \in Buckets :
       s < t /\ key[<<t, b>>] # NULL =>
         key[<<s, b>>] # NULL /\ key[<<s, b>>] # key[<<t, b>>]

(* A slot with a key has a value, the one associated with the key; a key
   without a slot has no association. *)
Associated ==
  /\ \A n \in Slots : key[n] # NULL => val[n] \in Values
  /\ Usable => \A n \in Slots : key[n] # NULL => val[n] = assoc[key[n]]
  /\ Usable => \A k \in Keys : assoc[k] # NULL => \E n \in Slots : key[n] = k

(* The ring goes through the slots with a pair that was not released. *)
Linked ==
  /\ refilled = FALSE
  /\ IsRing(next, prev, order)
  /\ OnRing = Stored

(* Where the iterator of the loop in progress is, and what it has visited. *)
Progress ==
  /\ phase \in {"live", "destroyed"} => cursor = NULL
  /\ phase = "iterating" =>
       \E i \in 1 .. Len(order) + 1 :
         /\ cursor = At(order, i)
         /\ seen = {order[j] : j \in 1 .. i - 1}
  /\ phase = "destroying" => cursor = At(order, 1)
  /\ phase # "destroying" => freed = {}
  /\ phase # "undefined"

IInv ==
  TypeOK /\ Chain /\ Associated /\ Linked /\ Progress /\ Ownership

-------------------------------------------------------------------------------
(* Basic facts about the constants. *)

LEMMA ConstantFacts ==
  /\ MaxTables \in Nat /\ MaxTables >= 1
  /\ Start \in Ring /\ Start \notin Slots
  /\ Slots \subseteq Ring
  /\ \A n \in Ring : n # NULL
  /\ \A k \in Keys : k # NULL /\ k \in References /\ Hash[k] \in Buckets
  /\ \A v \in Values : v # NULL /\ v \in References
  /\ \A k \in Keys, v \in Values : k # v
BY ObjectConstants DEF Ring, References

(* The slots of the chain for a key. *)
LEMMA SlotFacts ==
  \A k \in Keys : \A t \in Tables :
    /\ Slot(t, k) \in Slots
    /\ Slot(t, k)[1] = t
    /\ Slot(t, k)[2] = Hash[k]
    /\ Slot(t, k) = <<t, Hash[k]>>
BY ConstantFacts DEF Slot, Slots

LEMMA SlotParts ==
  \A n \in Slots : /\ n[1] \in Tables /\ n[2] \in Buckets
                   /\ n = <<n[1], n[2]>>
BY DEF Slots

LEMMA SlotsFinite == IsFiniteSet(Slots)
<1>1. IsFiniteSet(Tables)
  BY FS_Interval, ObjectConstants DEF Tables
<1>2. IsFiniteSet(Buckets)
  BY ObjectConstants
<1>. QED
  BY <1>1, <1>2, FS_Product DEF Slots

-------------------------------------------------------------------------------
(* Searching. *)

(* A lookup of a key that some slot holds ends at that slot. *)
LEMMA FindStored ==
  ASSUME TypeOK, Chain, NEW k \in Keys, NEW n \in Slots, key[n] = k
  PROVE  Find(k) = n
<1>. DEFINE t == n[1]
<1>1. t \in Tables /\ t <= ntab /\ n = <<t, Hash[k]>>
  BY SlotParts, ConstantFacts DEF TypeOK, Chain
<1>2. ntab \in Nat /\ t \in 1 .. ntab /\ \A s \in 1 .. ntab : s \in Tables
  BY <1>1, ConstantFacts DEF TypeOK, Tables
<1>3. Slot(t, k) = n
  BY <1>1 DEF Slot
<1>4. t \in Stops(k)
  BY <1>2, <1>3 DEF Stops
<1>5. ASSUME NEW s \in Stops(k)
      PROVE  t <= s
  <2>1. s \in 1 .. ntab /\ key[<<s, Hash[k]>>] \in {NULL, k}
    BY <1>5 DEF Stops, Slot
  <2>2. SUFFICES ASSUME s < t PROVE FALSE
    BY <2>1, <1>2
  <2>3. key[<<s, Hash[k]>>] # NULL /\ key[<<s, Hash[k]>>] # key[<<t, Hash[k]>>]
    BY <2>1, <2>2, <1>1, <1>2, ConstantFacts DEF Chain
  <2>. QED
    BY <2>1, <2>3, <1>1
<1>6. IsFirstStop(t, k)
  BY <1>4, <1>5 DEF IsFirstStop
<1>7. ASSUME NEW s \in 1 .. ntab, IsFirstStop(s, k)
      PROVE  s = t
  BY <1>2, <1>4, <1>6, <1>7 DEF IsFirstStop
<1>8. (CHOOSE s \in 1 .. ntab : IsFirstStop(s, k)) = t
  BY <1>2, <1>6, <1>7
<1>9. \E s \in 1 .. ntab : IsFirstStop(s, k) /\ key[Slot(s, k)] # NULL
  BY <1>2, <1>3, <1>6, ConstantFacts
<1>10. Find(k) = Slot(t, k)
  BY <1>8, <1>9 DEF Find
<1>. QED
  BY <1>3, <1>10

(* A lookup of a key that no slot holds finds nothing. *)
LEMMA FindMissing ==
  ASSUME TypeOK, NEW k \in Keys, \A n \in Slots : key[n] # k
  PROVE  Find(k) = NULL
<1>1. ASSUME NEW t \in 1 .. ntab, IsFirstStop(t, k), key[Slot(t, k)] # NULL
      PROVE  FALSE
  <2>1. key[Slot(t, k)] = k
    BY <1>1 DEF IsFirstStop, Stops
  <2>2. t \in Tables
    BY ConstantFacts DEF TypeOK, Tables
  <2>. QED
    BY <2>1, <2>2, SlotFacts
<1>. QED
  BY <1>1 DEF Find

(* The search structure and the associations give what a lookup finds. *)
LEMMA LookupIsAssoc ==
  ASSUME TypeOK, Chain, Associated, Usable, NEW k \in Keys
  PROVE  Lookup(k) = assoc[k]
<1>1. CASE \E n \in Slots : key[n] = k
  <2>1. PICK n \in Slots : key[n] = k
    BY <1>1
  <2>2. Find(k) = n /\ n # NULL
    BY <2>1, FindStored, ConstantFacts
  <2>. QED
    BY <2>1, <2>2, ConstantFacts DEF Lookup, Associated
<1>2. CASE \A n \in Slots : key[n] # k
  BY <1>2, FindMissing DEF Lookup, Associated
<1>. QED
  BY <1>1, <1>2

-------------------------------------------------------------------------------
(* The ring. *)

(* Linking a slot before Start, as ladd(n, start.prev) does, extends the ring. *)
LEMMA LinkRing ==
  ASSUME NEW ord \in Seq(Slots),
         NEW nx \in [Ring -> Ring \cup {NULL}],
         NEW pv \in [Ring -> Ring \cup {NULL}],
         IsRing(nx, pv, ord),
         NEW n \in Slots, \A i \in 1 .. Len(ord) : ord[i] # n
  PROVE  IsRing([nx EXCEPT ![n] = nx[pv[Start]], ![pv[Start]] = n],
                [pv EXCEPT ![nx[pv[Start]]] = n, ![n] = pv[Start]],
                Append(ord, n))
<1>. DEFINE L == Len(ord)
            last == At(ord, L)
            new == Append(ord, n)
            nx2 == [nx EXCEPT ![n] = Start, ![last] = n]
            pv2 == [pv EXCEPT ![Start] = n, ![n] = last]
<1>1. L \in Nat /\ \A i \in 1 .. L : ord[i] \in Slots
  OBVIOUS
<1>2. /\ Len(new) = L + 1
      /\ \A i \in 1 .. L : new[i] = ord[i]
      /\ new[L + 1] = n
  OBVIOUS
<1>3. pv[Start] = last /\ nx[last] = Start
  BY <1>1 DEF IsRing, At
<1>4. /\ last \in Ring /\ last # n /\ n \in Ring /\ n # Start /\ Start \in Ring
      /\ \A i \in 1 .. L : ord[i] \in Ring /\ ord[i] # Start
  BY <1>1, ConstantFacts DEF At
<1>5. /\ nx2[n] = Start /\ nx2[last] = n
      /\ \A m \in Ring : m # n /\ m # last => nx2[m] = nx[m]
      /\ pv2[Start] = n /\ pv2[n] = last
      /\ \A m \in Ring : m # n /\ m # Start => pv2[m] = pv[m]
  BY <1>4
<1>6. /\ \A i \in 0 .. L : At(new, i) = At(ord, i)
      /\ At(new, L + 1) = n
      /\ At(new, L + 2) = Start
  BY <1>1, <1>2 DEF At
<1>7. /\ \A i, j \in 1 .. L : ord[i] = ord[j] => i = j
      /\ \A i \in 0 .. L : nx[At(ord, i)] = At(ord, i + 1)
      /\ \A i \in 1 .. L + 1 : pv[At(ord, i)] = At(ord, i - 1)
  BY DEF IsRing
<1>8. \A i \in 0 .. L : At(ord, i) \in Ring /\ At(ord, i) # n
  BY <1>1, <1>4 DEF At
<1>9. \A i \in 0 .. L - 1 : At(ord, i) # last
  BY <1>1, <1>4, <1>7 DEF At
<1>10. \A i \in 1 .. L : At(ord, i) # Start
  BY <1>1, <1>4 DEF At
<1>11. /\ IsRing(nx2, pv2, new) <=>
            /\ \A i, j \in 1 .. L + 1 : new[i] = new[j] => i = j
            /\ \A i \in 0 .. L + 1 : nx2[At(new, i)] = At(new, i + 1)
            /\ \A i \in 1 .. (L + 1) + 1 : pv2[At(new, i)] = At(new, i - 1)
       /\ \A i \in 1 .. L : ord[i] # n
       /\ last = At(ord, L)
  BY <1>2 DEF IsRing
<1>. HIDE DEF L, last, new, nx2, pv2
<1>12. ASSUME NEW i \in 1 .. L + 1, NEW j \in 1 .. L + 1, new[i] = new[j]
       PROVE  i = j
  <2>1. (i \in 1 .. L \/ i = L + 1) /\ (j \in 1 .. L \/ j = L + 1)
    BY <1>1
  <2>. QED
    BY <2>1, <1>2, <1>7, <1>11, <1>12
<1>13. ASSUME NEW i \in 0 .. L + 1
       PROVE  nx2[At(new, i)] = At(new, i + 1)
  <2>1. CASE i \in 0 .. L - 1
    <3>1. i \in 0 .. L /\ i + 1 \in 0 .. L
      BY <2>1, <1>1
    <3>2. nx2[At(ord, i)] = nx[At(ord, i)]
      BY <2>1, <3>1, <1>5, <1>8, <1>9
    <3>. QED
      BY <3>1, <3>2, <1>6, <1>7
  <2>2. CASE i = L
    <3>1. L \in 0 .. L
      BY <1>1
    <3>. QED
      BY <2>2, <3>1, <1>5, <1>6, <1>11
  <2>3. CASE i = L + 1
    <3>1. i + 1 = L + 2
      BY <2>3, <1>1
    <3>. QED
      BY <2>3, <3>1, <1>5, <1>6
  <2>. QED
    BY <1>1, <2>1, <2>2, <2>3
<1>14. ASSUME NEW i \in 1 .. (L + 1) + 1
       PROVE  pv2[At(new, i)] = At(new, i - 1)
  <2>1. CASE i \in 1 .. L
    <3>1. i \in 0 .. L /\ i - 1 \in 0 .. L /\ i \in 1 .. L + 1
      BY <2>1, <1>1
    <3>2. pv2[At(ord, i)] = pv[At(ord, i)]
      BY <2>1, <3>1, <1>5, <1>8, <1>10
    <3>. QED
      BY <3>1, <3>2, <1>6, <1>7
  <2>2. CASE i = L + 1
    <3>1. i - 1 = L /\ L \in 0 .. L
      BY <2>2, <1>1
    <3>. QED
      BY <2>2, <3>1, <1>5, <1>6, <1>11
  <2>3. CASE i = L + 2
    <3>1. i - 1 = L + 1
      BY <2>3, <1>1
    <3>. QED
      BY <2>3, <3>1, <1>5, <1>6
  <2>. QED
    BY <1>1, <2>1, <2>2, <2>3
<1>15. IsRing(nx2, pv2, new)
  BY <1>11, <1>12, <1>13, <1>14
<1>. QED
  BY <1>3, <1>15 DEF nx2, pv2, new

(* The links next to Start lead to nodes of the ring. *)
LEMMA LastLinks ==
  ASSUME TypeOK, Linked
  PROVE  prev[Start] \in Ring /\ next[prev[Start]] \in Ring
<1>. DEFINE L == Len(order)
<1>1. L \in Nat /\ \A i \in 1 .. L : order[i] \in Ring
  BY ConstantFacts DEF TypeOK
<1>2. L \in 0 .. L /\ L + 1 \in 1 .. L + 1 /\ (L + 1) - 1 = L
  BY <1>1
<1>3. At(order, L + 1) = Start /\ At(order, L) \in Ring /\ Start \in Ring
  BY <1>1, ConstantFacts DEF At
<1>4. prev[At(order, L + 1)] = At(order, (L + 1) - 1)
  BY <1>2 DEF Linked, IsRing
<1>5. next[At(order, L)] = At(order, L + 1)
  BY <1>2 DEF Linked, IsRing
<1>. QED
  BY <1>2, <1>3, <1>4, <1>5

(* No node of the ring is met twice on the way from Start round to Start. *)
LEMMA NodesDiffer ==
  ASSUME NEW ord \in Seq(Slots),
         \A i, j \in 1 .. Len(ord) : ord[i] = ord[j] => i = j
  PROVE  /\ \A i \in Int : At(ord, i) \in Ring
         /\ \A i, j \in 0 .. Len(ord) : At(ord, i) = At(ord, j) => i = j
         /\ \A i, j \in 1 .. Len(ord) + 1 : At(ord, i) = At(ord, j) => i = j
<1>1. Len(ord) \in Nat
      /\ \A i \in 1 .. Len(ord) : ord[i] \in Slots /\ ord[i] \in Ring /\ ord[i] # Start
  BY ConstantFacts
<1>2. \A i \in Int : At(ord, i) \in Ring
  BY <1>1, ConstantFacts DEF At
<1>3. \A i \in 1 .. Len(ord) : At(ord, i) = ord[i] /\ At(ord, i) # Start
  BY <1>1 DEF At
<1>4. At(ord, 0) = Start /\ At(ord, Len(ord) + 1) = Start
  BY <1>1 DEF At
<1>5. ASSUME NEW i \in 0 .. Len(ord), NEW j \in 0 .. Len(ord), At(ord, i) = At(ord, j)
      PROVE  i = j
  <2>1. (i = 0 \/ i \in 1 .. Len(ord)) /\ (j = 0 \/ j \in 1 .. Len(ord))
    BY <1>1
  <2>. QED
    BY <2>1, <1>3, <1>4, <1>5
<1>6. ASSUME NEW i \in 1 .. Len(ord) + 1, NEW j \in 1 .. Len(ord) + 1,
             At(ord, i) = At(ord, j)
      PROVE  i = j
  <2>1. /\ i = Len(ord) + 1 \/ i \in 1 .. Len(ord)
        /\ j = Len(ord) + 1 \/ j \in 1 .. Len(ord)
    BY <1>1
  <2>. QED
    BY <2>1, <1>3, <1>4, <1>6
<1>. QED
  BY <1>2, <1>5, <1>6

(* Taking a slot off the ring, as ldel does, leaves the rest of it. *)
LEMMA UnlinkRing ==
  ASSUME NEW ord \in Seq(Slots),
         NEW nx \in [Ring -> Ring \cup {NULL}],
         NEW pv \in [Ring -> Ring \cup {NULL}],
         IsRing(nx, pv, ord),
         NEW at \in 1 .. Len(ord), NEW n, n = ord[at],
         NEW new \in Seq(Slots), Len(new) = Len(ord) - 1,
         \A i \in 1 .. Len(new) : new[i] = IF i < at THEN ord[i] ELSE ord[i + 1]
  PROVE  IsRing([nx EXCEPT ![pv[n]] = nx[n], ![n] = n],
                [pv EXCEPT ![nx[n]] = pv[n], ![n] = n],
                new)
<1>. DEFINE L == Len(ord)
            before == At(ord, at - 1)
            after == At(ord, at + 1)
            nx2 == [nx EXCEPT ![before] = after, ![n] = n]
            pv2 == [pv EXCEPT ![after] = before, ![n] = n]
<1>1. /\ L \in Nat /\ L >= 1 /\ Len(new) = L - 1 /\ at \in 1 .. L
      /\ \A i \in 1 .. L : ord[i] \in Slots
  OBVIOUS
<1>2. /\ \A i, j \in 1 .. L : ord[i] = ord[j] => i = j
      /\ \A i \in 0 .. L : nx[At(ord, i)] = At(ord, i + 1)
      /\ \A i \in 1 .. L + 1 : pv[At(ord, i)] = At(ord, i - 1)
  BY DEF IsRing
<1>3. /\ \A i \in Int : At(ord, i) \in Ring
      /\ \A i, j \in 0 .. L : At(ord, i) = At(ord, j) => i = j
      /\ \A i, j \in 1 .. L + 1 : At(ord, i) = At(ord, j) => i = j
  BY <1>2, NodesDiffer
<1>4. At(ord, at) = n /\ before \in Ring /\ after \in Ring /\ n \in Ring
  BY <1>1, <1>3 DEF At
<1>5. pv[n] = before /\ nx[n] = after
  <2>1. at \in 0 .. L /\ at \in 1 .. L + 1
    BY <1>1
  <2>. QED
    BY <2>1, <1>2, <1>4
<1>6. before # n /\ after # n
  <2>1. at - 1 \in 0 .. L /\ at \in 0 .. L /\ at - 1 # at
        /\ at + 1 \in 1 .. L + 1 /\ at \in 1 .. L + 1 /\ at + 1 # at
    BY <1>1
  <2>. QED
    BY <2>1, <1>3, <1>4
<1>7. /\ nx2[before] = after
      /\ \A m \in Ring : m # n /\ m # before => nx2[m] = nx[m]
      /\ pv2[after] = before
      /\ \A m \in Ring : m # n /\ m # after => pv2[m] = pv[m]
  BY <1>4, <1>6
<1>8. /\ \A i \in 0 .. L : i < at => At(new, i) = At(ord, i)
      /\ \A i \in 0 .. L : i >= at => At(new, i) = At(ord, i + 1)
  BY <1>1 DEF At
<1>9. /\ IsRing(nx2, pv2, new) <=>
            /\ \A i, j \in 1 .. L - 1 : new[i] = new[j] => i = j
            /\ \A i \in 0 .. L - 1 : nx2[At(new, i)] = At(new, i + 1)
            /\ \A i \in 1 .. (L - 1) + 1 : pv2[At(new, i)] = At(new, i - 1)
      /\ before = At(ord, at - 1) /\ after = At(ord, at + 1)
      /\ \A i \in 1 .. L - 1 : new[i] = IF i < at THEN ord[i] ELSE ord[i + 1]
  BY <1>1 DEF IsRing
<1>. HIDE DEF L, before, after, nx2, pv2
<1>10. ASSUME NEW i \in 1 .. L - 1, NEW j \in 1 .. L - 1, new[i] = new[j]
       PROVE  i = j
  <2>. DEFINE p == IF i < at THEN i ELSE i + 1
              q == IF j < at THEN j ELSE j + 1
  <2>1. p \in 1 .. L /\ q \in 1 .. L
    BY <1>1
  <2>2. ord[p] = ord[q]
    BY <1>9, <1>10
  <2>3. p = q
    BY ONLY <2>1, <2>2, <1>2
  <2>. QED
    BY <2>3, <1>1
<1>11. ASSUME NEW i \in 0 .. L - 1
       PROVE  nx2[At(new, i)] = At(new, i + 1)
  <2>1. i \in 0 .. L /\ i + 1 \in 0 .. L /\ at \in 0 .. L /\ at - 1 \in 0 .. L
    BY <1>1
  <2>2. CASE i < at - 1
    <3>1. i < at /\ i + 1 < at /\ i # at - 1 /\ i # at /\ i \in Int
      BY <2>1, <2>2, <1>1
    <3>2. At(ord, i) # before /\ At(ord, i) # n
      BY <3>1, <2>1, <1>3, <1>4, <1>9
    <3>3. nx2[At(ord, i)] = nx[At(ord, i)]
      BY <3>1, <3>2, <1>3, <1>7
    <3>. QED
      BY <3>1, <3>3, <2>1, <1>2, <1>8
  <2>3. CASE i = at - 1
    <3>1. i < at /\ i + 1 = at /\ i + 1 >= at
      BY <2>1, <2>3, <1>1
    <3>2. At(new, i) = before /\ At(new, i + 1) = after
      BY <3>1, <2>1, <2>3, <1>8, <1>9
    <3>. QED
      BY <3>2, <1>7
  <2>4. CASE i >= at
    <3>1. i + 1 >= at /\ i + 1 # at - 1 /\ i + 1 # at /\ i + 1 \in Int
      BY <2>1, <2>4, <1>1
    <3>2. At(ord, i + 1) # before /\ At(ord, i + 1) # n
      BY <3>1, <2>1, <1>3, <1>4, <1>9
    <3>3. nx2[At(ord, i + 1)] = nx[At(ord, i + 1)]
      BY <3>1, <3>2, <1>3, <1>7
    <3>. QED
      BY <3>1, <3>3, <2>1, <2>4, <1>2, <1>8
  <2>. QED
    BY <1>1, <2>2, <2>3, <2>4
<1>12. ASSUME NEW i \in 1 .. (L - 1) + 1
       PROVE  pv2[At(new, i)] = At(new, i - 1)
  <2>1. /\ i \in 0 .. L /\ i - 1 \in 0 .. L /\ i \in 1 .. L + 1 /\ i + 1 \in 1 .. L + 1
        /\ at \in 1 .. L + 1 /\ at + 1 \in 1 .. L + 1
    BY <1>1
  <2>2. CASE i < at
    <3>1. i - 1 < at /\ i # at + 1 /\ i # at /\ i \in Int
      BY <2>1, <2>2, <1>1
    <3>2. At(ord, i) # after /\ At(ord, i) # n
      BY <3>1, <2>1, <1>3, <1>4, <1>9
    <3>3. pv2[At(ord, i)] = pv[At(ord, i)]
      BY <3>1, <3>2, <1>3, <1>7
    <3>. QED
      BY <3>1, <3>3, <2>1, <2>2, <1>2, <1>8
  <2>3. CASE i = at
    <3>1. i >= at /\ i - 1 < at
      BY <2>1, <2>3, <1>1
    <3>2. At(new, i) = after /\ At(new, i - 1) = before
      BY <3>1, <2>1, <2>3, <1>8, <1>9
    <3>. QED
      BY <3>2, <1>7
  <2>4. CASE i > at
    <3>1. /\ i >= at /\ i - 1 >= at /\ (i - 1) + 1 = i /\ (i + 1) - 1 = i
          /\ i + 1 # at + 1 /\ i + 1 # at /\ i + 1 \in Int
      BY <2>1, <2>4, <1>1
    <3>2. At(ord, i + 1) # after /\ At(ord, i + 1) # n
      BY <3>1, <2>1, <1>3, <1>4, <1>9
    <3>3. pv2[At(ord, i + 1)] = pv[At(ord, i + 1)]
      BY <3>1, <3>2, <1>3, <1>7
    <3>4. At(new, i) = At(ord, i + 1) /\ At(new, i - 1) = At(ord, i)
      BY <3>1, <2>1, <1>8
    <3>5. pv[At(ord, i + 1)] = At(ord, i)
      BY <3>1, <2>1, <1>2
    <3>. QED
      BY <3>3, <3>4, <3>5
  <2>. QED
    BY <1>1, <2>2, <2>3, <2>4
<1>13. IsRing(nx2, pv2, new)
  BY <1>9, <1>10, <1>11, <1>12
<1>. QED
  BY <1>5, <1>13 DEF nx2, pv2

(* The history of the ring without one of its slots. *)
LEMMA WithoutFacts ==
  ASSUME order \in Seq(Slots), NEW at \in 1 .. Len(order),
         \A i, j \in 1 .. Len(order) : order[i] = order[j] => i = j
  PROVE  LET rest == Without(order[at])
         IN  /\ rest \in Seq(Slots)
             /\ Len(rest) = Len(order) - 1
             /\ \A i \in 1 .. Len(rest) :
                  rest[i] = IF i < at THEN order[i] ELSE order[i + 1]
             /\ {rest[i] : i \in DOMAIN rest} = OnRing \ {order[at]}
<1>. DEFINE rest == Without(order[at])
<1>1. Len(order) \in Nat /\ DOMAIN order = 1 .. Len(order) /\ Len(order) - 1 \in Nat
      /\ \A i \in 1 .. Len(order) : order[i] \in Slots
  OBVIOUS
<1>2. (CHOOSE i \in DOMAIN order : order[i] = order[at]) = at
  <2>1. \A i \in DOMAIN order : order[i] = order[at] => i = at
    BY <1>1
  <2>. QED
    BY <2>1, <1>1
<1>3. rest = [j \in 1 .. Len(order) - 1 |-> IF j < at THEN order[j] ELSE order[j + 1]]
  BY <1>2 DEF Without
<1>4. \A j \in 1 .. Len(order) - 1 : j \in 1 .. Len(order) /\ j + 1 \in 1 .. Len(order)
  BY <1>1
<1>5. /\ rest \in Seq(Slots) /\ Len(rest) = Len(order) - 1
      /\ DOMAIN rest = 1 .. Len(order) - 1
      /\ \A i \in 1 .. Len(order) - 1 : rest[i] = IF i < at THEN order[i] ELSE order[i + 1]
  BY <1>1, <1>3, <1>4
<1>. HIDE DEF rest
<1>6. ASSUME NEW i \in 1 .. Len(order) - 1
      PROVE  rest[i] \in OnRing /\ rest[i] # order[at]
  <2>1. CASE i < at
    <3>1. i \in 1 .. Len(order) /\ i # at /\ rest[i] = order[i]
      BY <2>1, <1>1, <1>4, <1>5
    <3>. QED
      BY <3>1, <1>1 DEF OnRing
  <2>2. CASE ~(i < at)
    <3>1. i + 1 \in 1 .. Len(order) /\ i + 1 # at /\ rest[i] = order[i + 1]
      BY <2>2, <1>1, <1>4, <1>5
    <3>. QED
      BY <3>1, <1>1 DEF OnRing
  <2>. QED
    BY <2>1, <2>2
<1>7. ASSUME NEW i \in 1 .. Len(order), order[i] # order[at]
      PROVE  \E j \in 1 .. Len(order) - 1 : rest[j] = order[i]
  <2>1. CASE i < at
    <3>1. i \in 1 .. Len(order) - 1 /\ rest[i] = order[i]
      BY <2>1, <1>1, <1>5
    <3>. QED
      BY <3>1
  <2>2. CASE i > at
    <3>1. i - 1 \in 1 .. Len(order) - 1 /\ ~(i - 1 < at) /\ (i - 1) + 1 = i
      BY <2>2, <1>1
    <3>2. rest[i - 1] = order[i]
      BY <3>1, <1>5
    <3>. QED
      BY <3>1, <3>2
  <2>. QED
    BY <1>1, <1>7, <2>1, <2>2
<1>8. {rest[i] : i \in DOMAIN rest} = OnRing \ {order[at]}
  <2>1. {rest[i] : i \in DOMAIN rest} \subseteq OnRing \ {order[at]}
    BY <1>5, <1>6
  <2>2. OnRing \ {order[at]} \subseteq {rest[i] : i \in DOMAIN rest}
    <3>. SUFFICES ASSUME NEW i \in 1 .. Len(order), order[i] # order[at]
                  PROVE  order[i] \in {rest[j] : j \in DOMAIN rest}
      BY <1>1 DEF OnRing
    <3>. QED
      BY <1>5, <1>7
  <2>. QED
    BY <2>1, <2>2
<1>. QED
  BY <1>5, <1>8 DEF rest

-------------------------------------------------------------------------------
(* Ownership: how the number of holders of a reference changes. *)

LEMMA HoldersFinite ==
  ASSUME NEW x
  PROVE  IsFiniteSet(Holders(x)) /\ Cardinality(Holders(x)) \in Nat
<1>1. Holders(x) \subseteq Slots
  BY DEF Holders, Stored
<1>. QED
  BY <1>1, SlotsFinite, FS_Subset, FS_CardinalityType

LEMMA OneMore ==
  ASSUME NEW S, IsFiniteSet(S), NEW n, n \notin S
  PROVE  Cardinality(S \cup {n}) = Cardinality(S) + 1
BY FS_AddElement

LEMMA OneLess ==
  ASSUME NEW S, IsFiniteSet(S), NEW n \in S
  PROVE  Cardinality(S \ {n}) = Cardinality(S) - 1 /\ Cardinality(S) > 0
<1>1. Cardinality(S \ {n}) = Cardinality(S) - 1
  BY FS_RemoveElement
<1>2. Cardinality(S) \in Nat /\ Cardinality(S) # 0
  BY FS_CardinalityType, FS_EmptySet
<1>. QED
  BY <1>1, <1>2

-------------------------------------------------------------------------------
(* The invariant holds of a new object. *)

LEMMA InitInv == Init => IInv
<1>. SUFFICES ASSUME Init PROVE IInv
  OBVIOUS
<1>. USE ConstantFacts DEF Init
<1>1. TypeOK
  <2>1. /\ key \in [Slots -> Keys \cup {NULL}]
        /\ val \in [Slots -> Values \cup {NULL}]
        /\ assoc \in [Keys -> Values \cup {NULL}]
    OBVIOUS
  <2>2. next \in [Ring -> Ring \cup {NULL}] /\ prev \in [Ring -> Ring \cup {NULL}]
    OBVIOUS
  <2>3. refs \in [References -> Nat] /\ lost \in [References -> Nat]
    OBVIOUS
  <2>4. order \in Seq(Slots)
    OBVIOUS
  <2>. QED
    BY <2>1, <2>2, <2>3, <2>4 DEF TypeOK, Phases
<1>2. Stored = {} /\ OnRing = {}
  BY DEF Stored, OnRing
<1>3. Chain /\ Associated
  BY SlotParts DEF Chain, Associated, Slots
<1>4. IsRing(next, prev, order)
  BY DEF IsRing, At
<1>5. Progress
  BY DEF Progress
<1>6. Ownership
  BY <1>2, FS_EmptySet DEF Ownership, Holders
<1>. QED
  BY <1>1, <1>2, <1>3, <1>4, <1>5, <1>6 DEF IInv, Linked

-------------------------------------------------------------------------------
(* jobject_put and jobject_set. *)

(* The slots of a key's bucket that come before where an insertion stops hold
   other keys. *)
LEMMA BeforeStop ==
  ASSUME TypeOK, NEW k \in Keys, NEW t \in 1 .. ntab + 1,
         \A s \in Stops(k) : t <= s
  PROVE  \A s \in Tables : s < t => key[<<s, Hash[k]>>] \notin {NULL, k}
<1>. SUFFICES ASSUME NEW s \in Tables, s < t
              PROVE  key[<<s, Hash[k]>>] \notin {NULL, k}
  OBVIOUS
<1>1. s \in 1 .. ntab /\ ~(t <= s)
  BY ConstantFacts DEF TypeOK, Tables
<1>2. s \notin Stops(k)
  BY <1>1
<1>. QED
  BY <1>1, <1>2 DEF Stops, Slot

(* A pair for a key that has none enters the first empty slot of its bucket. *)
LEMMA LinkInv ==
  ASSUME IInv, phase = "live",
         NEW k \in Keys, NEW v \in Values, NEW t \in Tables,
         key[Slot(t, k)] = NULL,
         \A s \in Tables : s < t => key[<<s, Hash[k]>>] \notin {NULL, k},
         ntab' \in Tables, ntab <= ntab', t <= ntab',
         Store(Slot(t, k), k, v),
         LinkLast(Slot(t, k)),
         Take(k, v),
         assoc' = [assoc EXCEPT ![k] = v],
         UNCHANGED <<phase, loop, freed, lost>>
  PROVE  IInv'
<1>. DEFINE n == Slot(t, k)
            b == Hash[k]
<1>1. n \in Slots /\ n[1] = t /\ n[2] = b /\ n = <<t, b>> /\ n \in Ring
  BY SlotFacts, ConstantFacts
<1>2. key' = [key EXCEPT ![n] = k] /\ val' = [val EXCEPT ![n] = v] /\ key[n] = NULL
  BY DEF Store
<1>3. TypeOK /\ Chain /\ Associated /\ Linked /\ Progress /\ Ownership
  BY DEF IInv
<1>4. freed = {} /\ freed' = {} /\ cursor = NULL /\ phase' = "live"
  BY <1>3 DEF Progress, loop
<1>5. n \notin Stored /\ n \notin OnRing
  BY <1>2, <1>3 DEF Stored, Linked
<1>. HIDE DEF n
<1>6. \A m \in Slots : /\ m # n => key'[m] = key[m] /\ val'[m] = val[m]
                       /\ m = n => key'[m] = k /\ val'[m] = v
  BY <1>1, <1>2, <1>3 DEF TypeOK
<1>7. \A m \in Slots : key[m] # k
  <2>. SUFFICES ASSUME NEW m \in Slots, key[m] = k PROVE FALSE
    OBVIOUS
  <2>1. m[1] \in Tables /\ m = <<m[1], b>>
    BY <1>3, SlotParts, ConstantFacts DEF Chain
  <2>2. m[1] \in Nat /\ t \in Nat /\ m[1] # t
    BY <1>1, <1>2, <2>1, ConstantFacts DEF Tables
  <2>3. CASE m[1] < t
    BY <2>1, <2>3
  <2>4. CASE t < m[1]
    BY <1>1, <1>2, <1>3, <2>1, <2>4, ConstantFacts DEF Chain
  <2>. QED
    BY <2>2, <2>3, <2>4
<1>8. refilled' = FALSE /\ order' = Append(order, n)
  <2>1. n \notin Holes
    BY <1>5 DEF Holes
  <2>. QED
    BY <1>3, <2>1 DEF LinkLast, Linked, n
<1>9. TypeOK'
  <2>1. /\ key' \in [Slots -> Keys \cup {NULL}]
        /\ val' \in [Slots -> Values \cup {NULL}]
        /\ assoc' \in [Keys -> Values \cup {NULL}]
        /\ refs' \in [References -> Nat]
    <3>1. key' \in [Slots -> Keys \cup {NULL}] /\ val' \in [Slots -> Values \cup {NULL}]
      BY <1>1, <1>2, <1>3 DEF TypeOK
    <3>2. assoc' \in [Keys -> Values \cup {NULL}]
      BY <1>1, <1>2, <1>3 DEF TypeOK
    <3>3. refs' \in [References -> Nat]
      <4>1. k \in References /\ v \in References /\ k # v /\ refs \in [References -> Nat]
        BY <1>3, ConstantFacts DEF TypeOK
      <4>2. refs' = [refs EXCEPT ![k] = @ + 1, ![v] = @ + 1]
        BY <1>3 DEF Take
      <4>. QED
        BY <4>1, <4>2
    <3>. QED
      BY <3>1, <3>2, <3>3
  <2>2. order' \in Seq(Slots)
    BY <1>1, <1>3, <1>8 DEF TypeOK
  <2>3. prev[Start] \in Ring /\ next[prev[Start]] \in Ring
    BY <1>3, LastLinks
  <2>4. next' \in [Ring -> Ring \cup {NULL}] /\ prev' \in [Ring -> Ring \cup {NULL}]
    BY <1>1, <1>3, <2>3 DEF TypeOK, LinkLast, Ladd, n
  <2>. QED
    BY <1>3, <1>4, <1>8, <2>1, <2>2, <2>4 DEF TypeOK, loop
<1>10. Chain'
  <2>1. ASSUME NEW m \in Slots, key'[m] # NULL
        PROVE  m[1] <= ntab' /\ m[2] = Hash[key'[m]]
    <3>1. CASE m = n
      BY <1>1, <1>6, <3>1
    <3>2. CASE m # n
      <4>1. m[1] <= ntab /\ m[2] = Hash[key[m]]
        BY <1>3, <1>6, <2>1, <3>2 DEF Chain
      <4>2. m[1] \in Nat /\ ntab \in Nat /\ ntab' \in Nat
        BY <1>3, SlotParts, ConstantFacts DEF TypeOK, Tables
      <4>. QED
        BY <1>6, <3>2, <4>1, <4>2
    <3>. QED
      BY <3>1, <3>2
  <2>2. ASSUME NEW r \in Tables, NEW s \in Tables, NEW c \in Buckets,
               r < s, key'[<<s, c>>] # NULL
        PROVE  key'[<<r, c>>] # NULL /\ key'[<<r, c>>] # key'[<<s, c>>]
    <3>1. <<r, c>> \in Slots /\ <<s, c>> \in Slots /\ <<r, c>> # <<s, c>>
      BY <2>2, ConstantFacts DEF Slots, Tables
    <3>2. CASE <<s, c>> = n
      <4>1. s = t /\ c = b
        BY <1>1, <3>2
      <4>. QED
        BY <1>6, <2>2, <3>1, <3>2, <4>1
    <3>3. CASE <<s, c>> # n
      <4>1. key[<<r, c>>] # NULL /\ key[<<r, c>>] # key[<<s, c>>]
        BY <1>3, <1>6, <2>2, <3>1, <3>3 DEF Chain
      <4>. QED
        BY <1>2, <1>6, <3>1, <3>3, <4>1
    <3>. QED
      BY <3>2, <3>3
  <2>. QED
    BY <2>1, <2>2 DEF Chain
<1>11. Associated'
  <2>1. Usable /\ Usable'
    BY <1>4 DEF Usable
  <2>2. \A j \in Keys : /\ j # k => assoc'[j] = assoc[j]
                        /\ j = k => assoc'[j] = v
    BY <1>3 DEF TypeOK
  <2>3. \A m \in Slots : key'[m] # NULL =>
          val'[m] \in Values /\ val'[m] = assoc'[key'[m]]
    BY <1>3, <1>6, <1>7, <2>1, <2>2 DEF Associated, TypeOK
  <2>4. \A j \in Keys : assoc'[j] # NULL => \E m \in Slots : key'[m] = j
    <3>. SUFFICES ASSUME NEW j \in Keys, assoc'[j] # NULL
                  PROVE  \E m \in Slots : key'[m] = j
      OBVIOUS
    <3>1. CASE j = k
      BY <1>1, <1>6, <3>1
    <3>2. CASE j # k
      <4>1. PICK m \in Slots : key[m] = j
        BY <1>3, <2>1, <2>2, <3>2 DEF Associated
      <4>2. m # n
        BY <1>2, <4>1, ConstantFacts
      <4>. QED
        BY <1>6, <4>1, <4>2
    <3>. QED
      BY <3>1, <3>2
  <2>. QED
    BY <2>3, <2>4 DEF Associated
<1>12. Stored' = Stored \cup {n}
  BY <1>1, <1>4, <1>6, ConstantFacts DEF Stored
<1>13. Linked'
  <2>1. IsRing(next', prev', order')
    <3>1. \A i \in 1 .. Len(order) : order[i] # n
      BY <1>5 DEF OnRing
    <3>2. IsRing([next EXCEPT ![n] = next[prev[Start]], ![prev[Start]] = n],
                 [prev EXCEPT ![next[prev[Start]]] = n, ![n] = prev[Start]],
                 Append(order, n))
      BY <1>1, <1>3, <3>1, LinkRing DEF TypeOK, Linked
    <3>3. /\ next' = [next EXCEPT ![n] = next[prev[Start]], ![prev[Start]] = n]
          /\ prev' = [prev EXCEPT ![next[prev[Start]]] = n, ![n] = prev[Start]]
      BY DEF LinkLast, Ladd, n
    <3>. QED
      BY <1>8, <3>2, <3>3
  <2>2. OnRing' = OnRing \cup {n}
    <3>1. order \in Seq(Slots)
      BY <1>3 DEF TypeOK
    <3>2. /\ Len(order) \in Nat
          /\ DOMAIN order = 1 .. Len(order)
          /\ DOMAIN order' = 1 .. Len(order) + 1
          /\ \A i \in 1 .. Len(order) : order'[i] = order[i]
          /\ order'[Len(order) + 1] = n
      BY <1>1, <1>8, <3>1
    <3>3. \A i \in 1 .. Len(order) + 1 : i \in 1 .. Len(order) \/ i = Len(order) + 1
      BY <3>2
    <3>4. OnRing' \subseteq OnRing \cup {n}
      BY <3>2, <3>3 DEF OnRing
    <3>5. \A i \in 1 .. Len(order) : i \in 1 .. Len(order) + 1
      BY <3>2
    <3>6. Len(order) + 1 \in 1 .. Len(order) + 1
      BY <3>2
    <3>7. OnRing \cup {n} \subseteq OnRing'
      BY <3>2, <3>5, <3>6 DEF OnRing
    <3>. QED
      BY <3>4, <3>7
  <2>. QED
    BY <1>3, <1>8, <1>12, <2>1, <2>2 DEF Linked
<1>14. Progress'
  BY <1>3, <1>4 DEF Progress, loop
<1>15. Ownership'
  <2>. SUFFICES ASSUME NEW x \in References
                PROVE  refs'[x] = Cardinality(Holders(x)') + lost'[x]
    BY DEF Ownership
  <2>1. /\ refs[x] = Cardinality(Holders(x)) + lost[x]
        /\ lost'[x] = lost[x] /\ lost[x] \in Nat
    BY <1>3 DEF Ownership, TypeOK
  <2>2. n \notin Holders(x)
    BY <1>5 DEF Holders
  <2>3. CASE x \in {k, v}
    <3>1. Holders(x)' = Holders(x) \cup {n}
      BY <1>1, <1>5, <1>6, <1>12, <2>3 DEF Holders, Stored
    <3>2. Cardinality(Holders(x)') = Cardinality(Holders(x)) + 1
      BY <2>2, <3>1, HoldersFinite, OneMore
    <3>3. refs'[x] = refs[x] + 1
      BY <1>3, <2>3, ConstantFacts DEF Take, TypeOK
    <3>. QED
      BY <2>1, <3>2, <3>3, HoldersFinite
  <2>4. CASE x \notin {k, v}
    <3>1. Holders(x)' = Holders(x)
      BY <1>1, <1>5, <1>6, <1>12, <2>4 DEF Holders, Stored
    <3>2. refs'[x] = refs[x]
      BY <1>3, <2>4 DEF Take, TypeOK
    <3>. QED
      BY <2>1, <3>1, <3>2
  <2>. QED
    BY <2>3, <2>4
<1>. QED
  BY <1>9, <1>10, <1>11, <1>13, <1>14, <1>15 DEF IInv

LEMMA FillInv ==
  ASSUME IInv, NEW k \in Keys, NEW v \in Values, Fill(k, v)
  PROVE  IInv'
<1>1. TypeOK /\ ntab \in Nat /\ ntab \in Tables
  BY ConstantFacts DEF IInv, TypeOK, Tables
<1>2. PICK t \in 1 .. ntab : /\ IsFirstStop(t, k)
                             /\ key[Slot(t, k)] = NULL
                             /\ Store(Slot(t, k), k, v)
                             /\ LinkLast(Slot(t, k))
  BY DEF Fill
<1>3. t \in Tables /\ t <= ntab /\ t \in 1 .. ntab + 1 /\ ntab <= ntab
  BY <1>1, ConstantFacts DEF Tables
<1>4. \A s \in Tables : s < t => key[<<s, Hash[k]>>] \notin {NULL, k}
  BY <1>1, <1>2, <1>3, BeforeStop DEF IsFirstStop
<1>. QED
  BY <1>1, <1>2, <1>3, <1>4, LinkInv DEF Fill

LEMMA ExtendInv ==
  ASSUME IInv, NEW k \in Keys, NEW v \in Values, Extend(k, v)
  PROVE  IInv'
<1>. DEFINE t == ntab + 1
<1>1. TypeOK /\ Chain /\ ntab \in Nat /\ ntab < MaxTables
  BY ConstantFacts DEF IInv, TypeOK, Tables, Extend
<1>2. t \in Tables /\ ntab' = t /\ ntab' \in Tables /\ ntab <= t /\ t <= ntab' /\ t \in 1 .. ntab + 1
  BY <1>1, ConstantFacts DEF Tables, Extend
<1>3. key[Slot(t, k)] = NULL
  <2>1. Slot(t, k) \in Slots /\ Slot(t, k)[1] = t
    BY <1>2, SlotFacts
  <2>2. ~(t <= ntab)
    BY <1>1
  <2>. QED
    BY <1>1, <2>1, <2>2 DEF Chain
<1>4. \A s \in Tables : s < t => key[<<s, Hash[k]>>] \notin {NULL, k}
  BY <1>1, <1>2, BeforeStop DEF Extend
<1>. QED
  BY <1>2, <1>3, <1>4, LinkInv DEF Extend

(* A pair for a key that has one takes its place. *)
LEMMA ReplaceInv ==
  ASSUME IInv, NEW k \in Keys, NEW v \in Values, Replace(k, v)
  PROVE  IInv'
<1>1. TypeOK /\ Chain /\ Associated /\ Linked /\ Progress /\ Ownership
  BY DEF IInv
<1>2. PICK t \in 1 .. ntab : /\ IsFirstStop(t, k)
                             /\ key[Slot(t, k)] # NULL
                             /\ Store(Slot(t, k), k, v)
                             /\ Swap(val[Slot(t, k)], v)
  BY DEF Replace
<1>. DEFINE n == Slot(t, k)
            old == val[n]
<1>3. n \in Slots /\ n \in Ring
  BY <1>1, ConstantFacts, SlotFacts DEF TypeOK, Tables
<1>4. key[n] = k
  BY <1>2 DEF IsFirstStop, Stops
<1>5. key' = key /\ val' = [val EXCEPT ![n] = v]
  BY <1>1, <1>2, <1>3, <1>4 DEF Store, TypeOK
<1>6. refs' = [[refs EXCEPT ![v] = @ + 1] EXCEPT ![old] = @ - 1]
  BY <1>2 DEF Swap
<1>7. old \in Values /\ v # k /\ old # k /\ v \in References /\ old \in References
  BY <1>1, <1>3, <1>4, ConstantFacts DEF Associated
<1>8. phase = "live" /\ phase' = "live" /\ freed' = freed /\ freed = {}
      /\ UNCHANGED <<ntab, next, prev, order, refilled, cursor, seen, lost>>
  BY <1>1 DEF Replace, Progress, ring, loop
<1>9. n \in Stored /\ Stored' = Stored
  BY <1>3, <1>4, <1>5, <1>8, ConstantFacts DEF Stored
<1>. HIDE DEF n, old
<1>10. /\ val'[n] = v
       /\ \A m \in Slots : m # n => val'[m] = val[m]
  BY <1>1, <1>3, <1>5 DEF TypeOK
<1>11. \A x \in References :
         /\ x = v /\ v # old => refs'[x] = refs[x] + 1
         /\ x = old /\ v # old => refs'[x] = refs[x] - 1
         /\ x \notin {v, old} \/ v = old => refs'[x] = refs[x]
  BY <1>1, <1>6, <1>7 DEF TypeOK
<1>12. Ownership'
  <2>. SUFFICES ASSUME NEW x \in References
                PROVE  refs'[x] = Cardinality(Holders(x)') + lost'[x]
    BY DEF Ownership
  <2>1. refs[x] = Cardinality(Holders(x)) + lost[x] /\ lost'[x] = lost[x] /\ lost[x] \in Nat
    BY <1>1, <1>8 DEF Ownership, TypeOK
  <2>2. IsFiniteSet(Holders(x)) /\ Cardinality(Holders(x)) \in Nat
    BY HoldersFinite
  <2>3. CASE x = v /\ v # old
    <3>1. n \notin Holders(x) /\ Holders(x)' = Holders(x) \cup {n}
      BY <1>4, <1>5, <1>7, <1>9, <1>10, <2>3 DEF Holders, Stored, old
    <3>2. Cardinality(Holders(x)') = Cardinality(Holders(x)) + 1
      BY <2>2, <3>1, OneMore
    <3>. QED
      BY <1>11, <2>1, <2>2, <2>3, <3>2
  <2>4. CASE x = old /\ v # old
    <3>1. n \in Holders(x) /\ Holders(x)' = Holders(x) \ {n}
      BY <1>4, <1>5, <1>7, <1>9, <1>10, <2>4 DEF Holders, Stored, old
    <3>2. Cardinality(Holders(x)') = Cardinality(Holders(x)) - 1
      BY <2>2, <3>1, OneLess
    <3>. QED
      BY <1>11, <2>1, <2>2, <2>4, <3>2
  <2>5. CASE x \notin {v, old} \/ v = old
    <3>1. Holders(x)' = Holders(x)
      BY <1>4, <1>5, <1>7, <1>9, <1>10, <2>5 DEF Holders, Stored, old
    <3>. QED
      BY <1>11, <2>1, <2>5, <3>1
  <2>. QED
    BY <2>3, <2>4, <2>5
<1>13. TypeOK'
  <2>1. refs' \in [References -> Nat]
    <3>1. DOMAIN refs' = References /\ refs' = [x \in References |-> refs'[x]]
      BY <1>1, <1>6 DEF TypeOK
    <3>2. \A x \in References : refs'[x] \in Nat
      <4>. TAKE x \in References
      <4>1. refs'[x] = Cardinality(Holders(x)') + lost'[x]
        BY <1>12 DEF Ownership
      <4>2. lost'[x] \in Nat
        BY <1>1, <1>8 DEF TypeOK
      <4>3. Holders(x)' \subseteq Slots
        BY DEF Holders, Stored
      <4>4. Cardinality(Holders(x)') \in Nat
        BY <4>3, SlotsFinite, FS_Subset, FS_CardinalityType
      <4>. QED
        BY <4>1, <4>2, <4>4
    <3>. QED
      BY <3>1, <3>2
  <2>2. /\ val' \in [Slots -> Values \cup {NULL}]
        /\ assoc' \in [Keys -> Values \cup {NULL}]
    BY <1>1, <1>5 DEF TypeOK, Replace
  <2>. QED
    BY <1>1, <1>5, <1>8, <2>1, <2>2 DEF TypeOK
<1>14. Chain'
  BY <1>1, <1>5, <1>8 DEF Chain
<1>15. Associated'
  <2>1. Usable /\ Usable'
    BY <1>8 DEF Usable
  <2>2. \A j \in Keys : /\ j # k => assoc'[j] = assoc[j]
                        /\ j = k => assoc'[j] = v
    BY <1>1 DEF TypeOK, Replace
  <2>3. \A m \in Slots : m # n => key[m] # k
    <3>. SUFFICES ASSUME NEW m \in Slots, key[m] = k PROVE m = n
      OBVIOUS
    <3>. QED
      BY <1>1, <1>3, <1>4, FindStored
  <2>4. \A m \in Slots : key'[m] # NULL =>
          val'[m] \in Values /\ val'[m] = assoc'[key'[m]]
    BY <1>1, <1>4, <1>5, <1>10, <2>1, <2>2, <2>3 DEF Associated, TypeOK
  <2>5. \A j \in Keys : assoc'[j] # NULL => \E m \in Slots : key'[m] = j
    BY <1>1, <1>3, <1>4, <1>5, <2>1, <2>2 DEF Associated
  <2>. QED
    BY <2>4, <2>5 DEF Associated
<1>16. Linked'
  <2>1. OnRing' = OnRing
    BY <1>8 DEF OnRing
  <2>. QED
    BY <1>1, <1>8, <1>9, <2>1 DEF Linked, IsRing, At
<1>17. Progress'
  BY <1>1, <1>8 DEF Progress
<1>. QED
  BY <1>12, <1>13, <1>14, <1>15, <1>16, <1>17 DEF IInv

(* The references of a pair that was never stored are accounted for. *)
LEMMA ExtendFailsInv ==
  ASSUME IInv, NEW k \in Keys, NEW v \in Values, ExtendFails(k, v)
  PROVE  IInv'
<1>1. TypeOK /\ Chain /\ Associated /\ Linked /\ Progress /\ Ownership
  BY DEF IInv
<1>2. UNCHANGED <<phase, ntab, key, val, next, prev, order, refilled, cursor, seen, freed, assoc>>
  BY DEF ExtendFails, table, ring, loop
<1>3. \A x \in References :
        /\ x \in {k, v} => refs'[x] = refs[x] + 1 /\ lost'[x] = lost[x] + 1
        /\ x \notin {k, v} => refs'[x] = refs[x] /\ lost'[x] = lost[x]
  BY <1>1, ConstantFacts DEF ExtendFails, Take, TypeOK
<1>4. TypeOK'
  <2>1. refs \in [References -> Nat] /\ lost \in [References -> Nat]
    BY <1>1 DEF TypeOK
  <2>2. refs' = [refs EXCEPT ![k] = @ + 1, ![v] = @ + 1]
    BY DEF ExtendFails, Take
  <2>3. lost' = [lost EXCEPT ![k] = @ + 1, ![v] = @ + 1]
    BY DEF ExtendFails
  <2>4. refs' \in [References -> Nat]
    BY ONLY <2>1, <2>2, ConstantFacts
  <2>5. lost' \in [References -> Nat]
    BY ONLY <2>1, <2>3, ConstantFacts
  <2>. QED
    BY <1>1, <1>2, <2>4, <2>5 DEF TypeOK
<1>5. Ownership'
  <2>. SUFFICES ASSUME NEW x \in References
                PROVE  refs'[x] = Cardinality(Holders(x)') + lost'[x]
    BY DEF Ownership
  <2>1. refs[x] = Cardinality(Holders(x)) + lost[x] /\ lost[x] \in Nat
        /\ Cardinality(Holders(x)) \in Nat
    BY <1>1, HoldersFinite DEF Ownership, TypeOK
  <2>2. Holders(x)' = Holders(x)
    BY <1>2 DEF Holders, Stored
  <2>. QED
    BY <1>3, <2>1, <2>2
<1>6. Chain' /\ Associated' /\ Progress'
  BY <1>1, <1>2 DEF Chain, Associated, Usable, Progress, At
<1>7. Linked'
  <2>1. OnRing' = OnRing /\ Stored' = Stored
    BY <1>2 DEF OnRing, Stored
  <2>. QED
    BY <1>1, <1>2, <2>1 DEF Linked, IsRing, At
<1>. QED
  BY <1>4, <1>5, <1>6, <1>7 DEF IInv

-------------------------------------------------------------------------------
(* Iteration and destruction. *)

(* Steps that leave the tables, the ring and the references alone keep the
   parts of the invariant that do not mention the loop. *)
LEMMA LoopInv ==
  ASSUME IInv, UNCHANGED <<table, ring, freed, refs, lost, assoc>>,
         phase \in {"live", "iterating"},
         phase' \in {"live", "iterating", "destroying"},
         cursor' \in Ring \cup {NULL}, seen' \subseteq Slots,
         Progress'
  PROVE  IInv'
<1>1. TypeOK /\ Chain /\ Associated /\ Linked /\ Ownership
  BY DEF IInv
<1>2. UNCHANGED <<ntab, key, val, next, prev, order, refilled, freed, refs, lost, assoc>>
  BY DEF table, ring
<1>3. TypeOK' /\ Chain'
  BY <1>1, <1>2 DEF TypeOK, Chain, Phases
<1>4. Associated'
  BY <1>1, <1>2 DEF Associated, Usable
<1>5. Stored' = Stored /\ OnRing' = OnRing
  BY <1>2 DEF Stored, OnRing
<1>6. Linked'
  BY <1>1, <1>2, <1>5 DEF Linked, IsRing, At
<1>7. \A x : Holders(x)' = Holders(x)
  BY <1>2, <1>5 DEF Holders
<1>8. Ownership'
  BY <1>1, <1>2, <1>7 DEF Ownership
<1>. QED
  BY <1>3, <1>4, <1>6, <1>8 DEF IInv

(* A loop starts at the first slot of the ring, or at Start. *)
LEMMA FirstLink ==
  ASSUME TypeOK, Linked
  PROVE  next[Start] = At(order, 1) /\ At(order, 1) \in Ring /\ Len(order) \in Nat
<1>1. Len(order) \in Nat /\ \A i \in 1 .. Len(order) : order[i] \in Ring
  BY ConstantFacts DEF TypeOK
<1>2. 0 \in 0 .. Len(order) /\ At(order, 0) = Start /\ 0 + 1 = 1
  BY <1>1 DEF At
<1>3. next[At(order, 0)] = At(order, 0 + 1)
  BY <1>2 DEF Linked, IsRing
<1>. QED
  BY <1>1, <1>2, <1>3, ConstantFacts DEF At

LEMMA IterInitInv ==
  ASSUME IInv, IterInit
  PROVE  IInv'
<1>1. TypeOK /\ Linked /\ Progress
  BY DEF IInv
<1>2. cursor' = At(order, 1) /\ cursor' \in Ring /\ Len(order) \in Nat
  BY <1>1, FirstLink DEF IterInit
<1>3. order' = order /\ freed' = freed /\ freed = {} /\ phase' = "iterating" /\ seen' = {}
  BY <1>1 DEF IterInit, ring, Progress
<1>4. 1 \in 1 .. Len(order) + 1 /\ {order[j] : j \in 1 .. 1 - 1} = {}
  BY <1>2
<1>5. Progress'
  BY <1>2, <1>3, <1>4 DEF Progress, At
<1>. QED
  BY <1>2, <1>3, <1>5, LoopInv DEF IterInit

LEMMA IterNextInv ==
  ASSUME IInv, IterNext
  PROVE  IInv'
<1>1. TypeOK /\ Linked /\ Progress /\ phase = "iterating" /\ phase' = "iterating"
  BY DEF IInv, IterNext
<1>2. Len(order) \in Nat /\ \A i \in 1 .. Len(order) : order[i] \in Slots
  BY <1>1 DEF TypeOK
<1>3. PICK i \in 1 .. Len(order) + 1 :
        cursor = At(order, i) /\ seen = {order[j] : j \in 1 .. i - 1}
  BY <1>1 DEF Progress
<1>4. i \in 1 .. Len(order) /\ cursor = order[i] /\ cursor \in Slots
  BY <1>2, <1>3 DEF IterNext, Valid, At
<1>5. i \in 0 .. Len(order) /\ i + 1 \in 1 .. Len(order) + 1 /\ (i + 1) - 1 = i
  BY <1>2, <1>4
<1>6. cursor' = At(order, i + 1)
  <2>1. next[At(order, i)] = At(order, i + 1)
    BY <1>1, <1>5 DEF Linked, IsRing
  <2>. QED
    BY <1>3, <2>1 DEF IterNext, Following
<1>7. seen' = {order[j] : j \in 1 .. (i + 1) - 1}
  <2>1. seen' = seen \cup {order[i]}
    BY <1>4 DEF IterNext
  <2>2. 1 .. i = (1 .. i - 1) \cup {i}
    BY <1>2, <1>4
  <2>. QED
    BY <1>3, <1>5, <2>1, <2>2
<1>8. cursor' \in Ring /\ seen' \subseteq Slots
  <2>1. At(order, i + 1) \in Ring
    BY <1>2, ConstantFacts DEF At
  <2>. QED
    BY <1>1, <1>4, <1>6, <2>1 DEF IterNext, TypeOK
<1>9. order' = order /\ freed' = freed /\ freed = {}
  BY <1>1 DEF IterNext, ring, Progress
<1>10. Progress'
  <2>1. \E m \in 1 .. Len(order') + 1 :
          cursor' = At(order', m) /\ seen' = {order'[j] : j \in 1 .. m - 1}
    BY <1>5, <1>6, <1>7, <1>9
  <2>. QED
    BY <1>1, <1>9, <2>1 DEF Progress
<1>. QED
  BY <1>1, <1>8, <1>10, LoopInv DEF IterNext

LEMMA IterEndInv ==
  ASSUME IInv, IterEnd
  PROVE  IInv'
<1>1. Progress'
  BY DEF IInv, Progress, IterEnd
<1>. QED
  BY <1>1, LoopInv DEF IterEnd

LEMMA DestroyInv ==
  ASSUME IInv, Destroy
  PROVE  IInv'
<1>1. TypeOK /\ Linked /\ Progress
  BY DEF IInv
<1>2. cursor' = At(order, 1) /\ cursor' \in Ring
  BY <1>1, FirstLink DEF Destroy
<1>3. Progress'
  BY <1>1, <1>2 DEF Progress, Destroy, ring, At
<1>4. seen' \subseteq Slots
  BY <1>1 DEF Destroy, TypeOK
<1>. QED
  BY <1>2, <1>3, <1>4, LoopInv DEF Destroy

LEMMA DestroyStepInv ==
  ASSUME IInv, DestroyStep
  PROVE  IInv'
<1>1. TypeOK /\ Chain /\ Associated /\ Linked /\ Progress /\ Ownership
  BY DEF IInv
<1>2. /\ phase = "destroying" /\ phase' = "destroying"
      /\ cursor = At(order, 1) /\ Valid(cursor)
      /\ UNCHANGED <<ntab, key, val, seen, lost, refilled>>
      /\ freed' = freed \cup {cursor}
      /\ cursor' = next[cursor]
  BY <1>1 DEF DestroyStep, DropPair, Progress, table, Unlink, Following
<1>3. Len(order) \in Nat /\ DOMAIN order = 1 .. Len(order)
      /\ \A i \in 1 .. Len(order) : order[i] \in Slots
  BY <1>1 DEF TypeOK
<1>4. Len(order) > 0 /\ cursor = order[1] /\ 1 \in 1 .. Len(order)
  BY <1>2, <1>3 DEF At, Valid
<1>. DEFINE n == order[1]
            rest == Without(n)
<1>5. n \in Slots /\ n \in OnRing /\ n \in Stored /\ key[n] # NULL /\ n \notin freed
  BY <1>1, <1>3, <1>4 DEF OnRing, Linked, Stored
<1>6. /\ rest \in Seq(Slots) /\ Len(rest) = Len(order) - 1
      /\ \A i \in 1 .. Len(rest) : rest[i] = IF i < 1 THEN order[i] ELSE order[i + 1]
      /\ \A i \in 1 .. Len(rest) : rest[i] = order[i + 1]
      /\ {rest[i] : i \in DOMAIN rest} = OnRing \ {n}
  <2>1. \A i, j \in 1 .. Len(order) : order[i] = order[j] => i = j
    BY <1>1 DEF Linked, IsRing
  <2>2. /\ rest \in Seq(Slots) /\ Len(rest) = Len(order) - 1
        /\ \A i \in 1 .. Len(rest) : rest[i] = IF i < 1 THEN order[i] ELSE order[i + 1]
        /\ {rest[i] : i \in DOMAIN rest} = OnRing \ {n}
    BY <1>1, <1>4, <2>1, WithoutFacts DEF TypeOK
  <2>. HIDE DEF rest
  <2>3. \A i \in 1 .. Len(order) - 1 : ~(i < 1)
    BY <1>3
  <2>. QED
    BY <2>2, <2>3
<1>7. /\ order' = rest
      /\ next' = [next EXCEPT ![prev[n]] = next[n], ![n] = n]
      /\ prev' = [prev EXCEPT ![next[n]] = prev[n], ![n] = n]
  BY <1>4, <1>5 DEF DestroyStep, DropPair, Unlink, Ldel
<1>. HIDE DEF rest
<1>8. key[n] \in Keys /\ val[n] \in Values
  BY <1>1, <1>5 DEF TypeOK, Associated
<1>9. refs' = [refs EXCEPT ![key[n]] = @ - 1, ![val[n]] = @ - 1]
  BY <1>4 DEF DestroyStep, DropPair, Release
<1>10. IsRing(next', prev', order')
  <2>1. IsRing([next EXCEPT ![prev[n]] = next[n], ![n] = n],
               [prev EXCEPT ![next[n]] = prev[n], ![n] = n], rest)
    BY <1>1, <1>4, <1>5, <1>6, UnlinkRing DEF TypeOK, Linked
  <2>. QED
    BY <1>7, <2>1
<1>11. cursor' = At(order', 1) /\ next[n] \in Ring
  <2>1. 1 \in 0 .. Len(order) /\ At(order, 1) = n /\ 1 + 1 = 2
    BY <1>3, <1>4 DEF At
  <2>2. next[At(order, 1)] = At(order, 1 + 1)
    BY <1>1, <2>1 DEF Linked, IsRing
  <2>3. At(rest, 1) = At(order, 2) /\ At(order, 2) \in Ring
    <3>1. CASE Len(order) = 1
      BY <1>6, <3>1, ConstantFacts DEF At
    <3>2. CASE Len(order) > 1
      <4>1. 1 \in 1 .. Len(rest) /\ 2 \in 1 .. Len(order) /\ 1 + 1 = 2
        BY <1>3, <1>6, <3>2
      <4>2. rest[1] = order[2] /\ order[2] \in Ring
        BY <1>3, <1>6, <4>1, ConstantFacts
      <4>. QED
        BY <4>1, <4>2 DEF At
    <3>. QED
      BY <1>3, <1>4, <3>1, <3>2
  <2>. QED
    BY <1>2, <1>4, <1>7, <2>1, <2>2, <2>3
<1>12. prev[n] \in Ring
  <2>1. 1 \in 1 .. Len(order) + 1 /\ At(order, 1) = n /\ 1 - 1 = 0 /\ At(order, 0) = Start
    BY <1>3, <1>4 DEF At
  <2>2. prev[At(order, 1)] = At(order, 1 - 1)
    BY <1>1, <2>1 DEF Linked, IsRing
  <2>. QED
    BY <2>1, <2>2, ConstantFacts
<1>13. Stored' = Stored \ {n} /\ freed' = freed \cup {n}
  BY <1>2, <1>4 DEF Stored
<1>14. OnRing' = OnRing \ {n}
  BY <1>6, <1>7 DEF OnRing
<1>. HIDE DEF n
<1>15. Linked'
  BY <1>1, <1>2, <1>10, <1>13, <1>14 DEF Linked
<1>16. Ownership' /\ refs' \in [References -> Nat]
  <2>1. DOMAIN refs' = References /\ refs' = [x \in References |-> refs'[x]]
    BY <1>1, <1>9 DEF TypeOK
  <2>2. ASSUME NEW x \in References
        PROVE  refs'[x] = Cardinality(Holders(x)') + lost'[x] /\ refs'[x] \in Nat
    <3>1. /\ refs[x] = Cardinality(Holders(x)) + lost[x]
          /\ lost'[x] = lost[x] /\ lost[x] \in Nat /\ refs[x] \in Nat
      BY <1>1, <1>2 DEF Ownership, TypeOK
    <3>2. IsFiniteSet(Holders(x)) /\ Cardinality(Holders(x)) \in Nat
      BY HoldersFinite
    <3>3. CASE x \in {key[n], val[n]}
      <4>1. n \in Holders(x) /\ Holders(x)' = Holders(x) \ {n}
        BY <1>2, <1>5, <1>13, <3>3 DEF Holders
      <4>2. /\ Cardinality(Holders(x)') = Cardinality(Holders(x)) - 1
            /\ Cardinality(Holders(x)) > 0
        BY <3>2, <4>1, OneLess
      <4>3. refs'[x] = refs[x] - 1
        BY <1>1, <1>8, <1>9, <3>3, ConstantFacts DEF TypeOK
      <4>. QED
        BY <3>1, <3>2, <4>2, <4>3
    <3>4. CASE x \notin {key[n], val[n]}
      <4>1. Holders(x)' = Holders(x)
        BY <1>2, <1>13, <3>4 DEF Holders
      <4>2. refs'[x] = refs[x]
        BY <1>1, <1>9, <3>4 DEF TypeOK
      <4>. QED
        BY <3>1, <4>1, <4>2
    <3>. QED
      BY <3>3, <3>4
  <2>. QED
    BY <2>1, <2>2 DEF Ownership
<1>17. TypeOK'
  <2>1. assoc' \in [Keys -> Values \cup {NULL}]
    BY <1>1, <1>4 DEF TypeOK, DestroyStep, DropPair
  <2>2. next' \in [Ring -> Ring \cup {NULL}] /\ prev' \in [Ring -> Ring \cup {NULL}]
    BY <1>1, <1>5, <1>7, <1>11, <1>12, ConstantFacts DEF TypeOK
  <2>3. cursor' \in Ring
    BY <1>2, <1>4, <1>11 DEF n
  <2>4. freed' \subseteq Slots
    BY <1>1, <1>5, <1>13 DEF TypeOK
  <2>5. order' \in Seq(Slots)
    BY <1>6, <1>7
  <2>. QED
    BY <1>1, <1>2, <1>16, <2>1, <2>2, <2>3, <2>4, <2>5 DEF TypeOK
<1>18. Chain' /\ Associated' /\ Progress'
  BY <1>1, <1>2, <1>11 DEF Chain, Associated, Usable, Progress
<1>. QED
  BY <1>15, <1>16, <1>17, <1>18 DEF IInv

LEMMA DestroyEndInv ==
  ASSUME IInv, DestroyEnd
  PROVE  IInv'
<1>1. TypeOK /\ Chain /\ Linked /\ Progress /\ Ownership
  BY DEF IInv
<1>2. /\ phase = "destroying" /\ phase' = "destroyed"
      /\ cursor = At(order, 1) /\ ~Valid(cursor) /\ cursor' = NULL
      /\ UNCHANGED <<ntab, next, prev, order, refilled, seen, refs, lost, assoc>>
      /\ freed' = {}
      /\ key' = [m \in Slots |-> NULL] /\ val' = [m \in Slots |-> NULL]
  BY <1>1 DEF DestroyEnd, Progress, ring
<1>3. order \in Seq(Slots) /\ Len(order) \in Nat
  BY <1>1 DEF TypeOK
<1>4. OnRing = {}
  <2>. SUFFICES ASSUME Len(order) > 0 PROVE FALSE
    BY <1>3 DEF OnRing
  <2>1. cursor = order[1] /\ order[1] \in OnRing /\ order[1] \in Slots
    BY <1>2, <1>3 DEF At, OnRing
  <2>2. key[cursor] # NULL /\ cursor # Start
    BY <1>1, <2>1, ConstantFacts DEF Linked, Stored
  <2>. QED
    BY <1>2, <2>2 DEF Valid
<1>5. Stored = {} /\ Stored' = {} /\ OnRing' = {}
  BY <1>1, <1>2, <1>4 DEF Linked, Stored, OnRing
<1>6. TypeOK'
  BY <1>1, <1>2 DEF TypeOK, Phases
<1>7. Chain' /\ Associated' /\ Progress'
  BY <1>2, SlotParts DEF Chain, Associated, Usable, Progress, Slots
<1>8. Linked'
  BY <1>1, <1>2, <1>5 DEF Linked, IsRing, At
<1>9. \A x : Holders(x) = {} /\ Holders(x)' = {}
  BY <1>5 DEF Holders
<1>10. Ownership'
  BY <1>1, <1>2, <1>9 DEF Ownership
<1>. QED
  BY <1>6, <1>7, <1>8, <1>10 DEF IInv

-------------------------------------------------------------------------------
(* The invariant of every behaviour. *)

LEMMA StepInv == IInv /\ [BuildNext]_vars => IInv'
<1>. SUFFICES ASSUME IInv, [BuildNext]_vars PROVE IInv'
  OBVIOUS
<1>1. ASSUME NEW k \in Keys, NEW v \in Values, Put(k, v)
      PROVE  IInv'
  BY <1>1, ReplaceInv, FillInv, ExtendInv, ExtendFailsInv DEF Put
<1>2. CASE IterInit
  BY <1>2, IterInitInv
<1>3. CASE IterNext
  BY <1>3, IterNextInv
<1>4. CASE IterEnd
  BY <1>4, IterEndInv
<1>5. CASE Destroy
  BY <1>5, DestroyInv
<1>6. CASE DestroyStep
  BY <1>6, DestroyStepInv
<1>7. CASE DestroyEnd
  BY <1>7, DestroyEndInv
<1>8. CASE UNCHANGED vars
  <2>1. UNCHANGED <<phase, ntab, key, val, next, prev, cursor, freed, refs,
                    order, seen, assoc, lost, refilled>>
    BY <1>8 DEF vars, table, ring, loop
  <2>2. Stored' = Stored /\ OnRing' = OnRing
    BY <2>1 DEF Stored, OnRing
  <2>3. \A x : Holders(x)' = Holders(x)
    BY <2>1, <2>2 DEF Holders
  <2>4. TypeOK' /\ Chain' /\ Associated'
    BY <2>1 DEF IInv, TypeOK, Chain, Associated, Usable
  <2>5. Linked'
    BY <2>1, <2>2 DEF IInv, Linked, IsRing, At
  <2>6. Progress' /\ Ownership'
    BY <2>1, <2>3 DEF IInv, Progress, At, Ownership
  <2>. QED
    BY <2>4, <2>5, <2>6 DEF IInv
<1>. QED
  BY <1>1, <1>2, <1>3, <1>4, <1>5, <1>6, <1>7, <1>8 DEF BuildNext

LEMMA Invariance == BuildSpec => []IInv
BY InitInv, StepInv, PTL DEF BuildSpec

(* The variables keep their types: no link leaves the nodes of the ring and no
   reference count goes below zero. *)
THEOREM TypesHold == BuildSpec => []TypeOK
<1>1. IInv => TypeOK
  BY DEF IInv
<1>. QED
  BY Invariance, <1>1, PTL

(* Every pair is the one jobject_find finds for its key. *)
THEOREM PairsFindable == BuildSpec => []Findable
<1>1. IInv => Findable
  <2>. SUFFICES ASSUME IInv, NEW n \in Stored PROVE Find(key[n]) = n
    BY DEF Findable
  <2>. QED
    BY FindStored DEF IInv, TypeOK, Stored
<1>. QED
  BY Invariance, <1>1, PTL

(* jobject_find finds exactly what was last put under the key. *)
THEOREM LookupsExact == BuildSpec => []LookupExact
<1>1. IInv => LookupExact
  BY LookupIsAssoc DEF IInv, LookupExact
<1>. QED
  BY Invariance, <1>1, PTL

(* Every reference the object took is held by a pair, was released once, or was
   dropped by a jobject_put whose allocation failed. *)
THEOREM OwnershipHolds == BuildSpec => []Ownership
<1>1. IInv => Ownership
  BY DEF IInv
<1>. QED
  BY Invariance, <1>1, PTL

-------------------------------------------------------------------------------
(* Refinement. *)

(* The map the object stands for. *)
Contents == [k \in Keys |-> IF Usable THEN Lookup(k) ELSE NULL]

(* Between jobject_create and the last j_release, the associations. *)
ContentsOK ==
  /\ Usable => Contents = assoc
  /\ ~Usable => Contents = [k \in Keys |-> NULL]

LEMMA ContentsAssoc == IInv => ContentsOK
<1>. SUFFICES ASSUME IInv PROVE ContentsOK
  OBVIOUS
<1>1. assoc \in [Keys -> Values \cup {NULL}]
  BY DEF IInv, TypeOK
<1>2. ASSUME Usable PROVE Contents = assoc
  <2>1. Contents = [k \in Keys |-> assoc[k]]
    BY <1>2, LookupIsAssoc DEF Contents, IInv
  <2>. QED
    BY <1>1, <2>1
<1>3. ASSUME ~Usable PROVE Contents = [k \in Keys |-> NULL]
  BY <1>3 DEF Contents
<1>. QED
  BY <1>2, <1>3 DEF ContentsOK

LEMMA SlotNotNull == \A n \in Slots : n # NULL
BY ConstantFacts

(* FindStored, after a step. *)
LEMMA FindPrimed ==
  ASSUME NEW k \in Keys, NEW n \in Slots
  PROVE  (TypeOK /\ Chain /\ key[n] = k => Find(k) = n)'
<1>1. TypeOK /\ Chain /\ key[n] = k => Find(k) = n
  BY FindStored
<1>. QED
  BY <1>1, PTL

(* The order of iteration the object stands for. *)
Order == [p \in Keys \cup {Start} |->
            IF Usable THEN Successor(p) ELSE IF p = Start THEN Start ELSE NULL]

(* The keys on the ring, in the order they were linked. *)
Ith(i) == KeyAt(At(order, i))

(* The ring gives each key on it, and Start, its successor; every other key has
   none. *)
OrderOK ==
  Usable =>
    /\ \A i \in 0 .. Len(order) : Order[Ith(i)] = Ith(i + 1)
    /\ \A i \in 1 .. Len(order) : Ith(i) \in Keys
    /\ Ith(0) = Start /\ Ith(Len(order) + 1) = Start
    /\ \A k \in Keys :
         \/ \E i \in 1 .. Len(order) : Ith(i) = k
         \/ Find(k) = NULL /\ Order[k] = NULL

LEMMA OrderFollows == IInv => OrderOK
<1>. SUFFICES ASSUME IInv, Usable
              PROVE  /\ \A i \in 0 .. Len(order) : Order[Ith(i)] = Ith(i + 1)
                     /\ \A i \in 1 .. Len(order) : Ith(i) \in Keys
                     /\ Ith(0) = Start /\ Ith(Len(order) + 1) = Start
                     /\ \A k \in Keys :
                          \/ \E i \in 1 .. Len(order) : Ith(i) = k
                          \/ Find(k) = NULL /\ Order[k] = NULL
  BY DEF OrderOK
<1>. USE ConstantFacts
<1>1. /\ TypeOK /\ Chain /\ Linked /\ order \in Seq(Slots)
      /\ Len(order) \in Nat /\ freed = {}
  BY DEF IInv, TypeOK, Progress, Usable
<1>2. ASSUME NEW i \in 1 .. Len(order)
      PROVE  /\ order[i] \in Slots /\ order[i] # Start
             /\ key[order[i]] \in Keys /\ Ith(i) = key[order[i]]
             /\ Find(Ith(i)) = order[i]
  <2>1. order[i] \in Slots /\ order[i] \in OnRing
    BY <1>1 DEF OnRing
  <2>2. key[order[i]] \in Keys
    BY <1>1, <2>1 DEF Linked, Stored, TypeOK
  <2>3. At(order, i) = order[i] /\ order[i] # Start
    BY <2>1 DEF At
  <2>. QED
    BY <1>1, <2>1, <2>2, <2>3, FindStored DEF Ith, KeyAt
<1>3. Ith(0) = Start /\ Ith(Len(order) + 1) = Start
  BY <1>1 DEF Ith, KeyAt, At
<1>4. ASSUME NEW i \in 0 .. Len(order)
      PROVE  Order[Ith(i)] = Ith(i + 1)
  <2>1. next[At(order, i)] = At(order, i + 1)
    BY <1>1 DEF Linked, IsRing
  <2>2. CASE i = 0
    BY <1>3, <2>1, <2>2 DEF Order, Successor, Ith, At
  <2>3. CASE i \in 1 .. Len(order)
    <3>1. Ith(i) \in Keys /\ Ith(i) # Start /\ Find(Ith(i)) # NULL
      BY <1>2, <2>3, ObjectConstants, SlotNotNull
    <3>2. Order[Ith(i)] = KeyAt(next[Find(Ith(i))])
      BY <3>1 DEF Order, Successor
    <3>. QED
      BY <1>2, <2>1, <2>3, <3>2 DEF Ith, At
  <2>. QED
    BY <1>1, <2>2, <2>3
<1>5. ASSUME NEW k \in Keys, \A i \in 1 .. Len(order) : Ith(i) # k
      PROVE  Find(k) = NULL /\ Order[k] = NULL
  <2>1. ASSUME NEW n \in Slots, key[n] = k PROVE FALSE
    <3>1. n \in OnRing
      BY <1>1, <2>1 DEF Linked, Stored
    <3>2. PICK i \in DOMAIN order : order[i] = n
      BY <3>1 DEF OnRing
    <3>. QED
      BY <1>1, <1>2, <1>5, <2>1, <3>2
  <2>2. Find(k) = NULL
    BY <1>1, <2>1, FindMissing
  <2>3. k # Start
    BY ObjectConstants
  <2>. QED
    BY <2>2, <2>3 DEF Order, Successor
<1>. QED
  BY <1>2, <1>3, <1>4, <1>5

LEMMA OrderNext == IInv' => OrderOK'
BY OrderFollows, PTL

LEMMA InitMaps == Init => Map!Init
<1>. SUFFICES ASSUME Init PROVE Map!Init
  OBVIOUS
<1>1. IInv /\ Usable
  BY InitInv DEF Init, Usable
<1>2. Contents = [k \in Keys |-> NULL]
  BY <1>1, ContentsAssoc DEF Init, ContentsOK
<1>3. Order = [p \in Keys \cup {Start} |-> IF p = Start THEN Start ELSE NULL]
  <2>1. Len(order) = 0 /\ OrderOK
    BY <1>1, OrderFollows DEF Init
  <2>2. Order[Start] = Start
    BY <1>1, <2>1 DEF OrderOK
  <2>3. \A k \in Keys : Order[k] = NULL
    BY <1>1, <2>1 DEF OrderOK
  <2>. QED
    BY <2>2, <2>3, ObjectConstants DEF Order
<1>. QED
  BY <1>1, <1>2, <1>3
  DEF Map!Init, Map!Empty, Map!Unlinked, Map!Places, Contents, Order, Usable

LEMMA ContentsNext == IInv' => ContentsOK'
BY ContentsAssoc, PTL

(* What the tables and the links do not change, lookups and iterations find
   unchanged. *)
LEMMA OrderKept ==
  ASSUME UNCHANGED <<ntab, key, next>>, Usable' <=> Usable
  PROVE  Order' = Order
<1>1. Usable' = Usable
  BY DEF Usable
<1>2. ASSUME NEW k PROVE Find(k)' = Find(k)
  BY DEF Find, IsFirstStop, Stops, Slot
<1>3. ASSUME NEW p PROVE Successor(p)' = Successor(p)
  BY <1>2 DEF Successor, KeyAt
<1>. QED
  BY <1>1, <1>3 DEF Order

(* A slot linked for a new key comes last. *)
LEMMA OrderExtended ==
  ASSUME IInv, IInv', Usable, Usable',
         NEW k \in Keys, NEW n \in Slots, key[n] = NULL,
         order' = Append(order, n), key' = [key EXCEPT ![n] = k]
  PROVE  /\ Find(k) = NULL
         /\ Order' = [p \in Keys \cup {Start} |->
                        IF p = k THEN Start
                        ELSE IF Order[p] = Start THEN k ELSE Order[p]]
<1>. USE ConstantFacts
<1>1. OrderOK /\ OrderOK'
  BY OrderFollows, OrderNext
<1>0. PICK m \in Nat : m = Len(order)
  BY DEF IInv, TypeOK
<1>2. /\ order \in Seq(Slots) /\ Len(order) = m
      /\ Len(order') = m + 1
      /\ order'[m + 1] = n
      /\ \A i \in 1 .. m : order'[i] = order[i] /\ order[i] \in Slots
      /\ key \in [Slots -> Keys \cup {NULL}]
  BY <1>0 DEF IInv, TypeOK
<1>3. Start \notin Keys /\ NULL \notin Keys /\ NULL # Start
  BY ObjectConstants
<1>4. \A i \in 1 .. m : Ith(i)' = Ith(i) /\ Ith(i) \in Keys
  <2>. SUFFICES ASSUME NEW i \in 1 .. m
                PROVE  Ith(i)' = Ith(i) /\ Ith(i) \in Keys
    OBVIOUS
  <2>1. Ith(i) \in Keys
    BY <1>1, <1>2 DEF OrderOK
  <2>2. order'[i] = order[i] /\ i \in 1 .. Len(order')
    BY <1>2
  <2>3. key[order[i]] # NULL /\ order[i] # n
    BY <1>2, <1>3, <2>1 DEF Ith, At, KeyAt
  <2>. QED
    BY <1>2, <2>1, <2>2, <2>3 DEF Ith, At, KeyAt
<1>5. /\ Ith(0)' = Start /\ Ith(0) = Start /\ Ith(m + 1) = Start
      /\ Ith(m + 1)' = k
      /\ Ith(m + 2)' = Start
  BY <1>1, <1>2 DEF OrderOK, Ith, At, KeyAt
<1>6. \A i \in 0 .. m + 1 : Order'[Ith(i)'] = Ith(i + 1)'
  BY <1>1, <1>2 DEF OrderOK
<1>7. \A i \in 1 .. m : Ith(i) # k
  <2>. SUFFICES ASSUME NEW i \in 1 .. m, Ith(i) = k PROVE FALSE
    OBVIOUS
  <2>1. Ith(i)' = Ith(m + 1)'
    BY <1>4, <1>5
  <2>2. /\ i \in 1 .. Len(order') /\ m + 1 \in 1 .. Len(order')
        /\ order'[i] = order[i] /\ order[i] \in Slots
    BY <1>2
  <2>3. key[order[i]] = k
    BY <1>2, <2>2 DEF Ith, At, KeyAt
  <2>4. key'[order[i]] = k /\ key'[n] = k /\ order[i] # n
    BY <1>2, <1>3, <2>2, <2>3
  <2>5. TypeOK' /\ Chain'
    BY DEF IInv
  <2>6. ASSUME NEW s \in Slots, key'[s] = k PROVE Find(k)' = s
    BY FindPrimed, <2>5, <2>6
  <2>. QED
    BY <2>2, <2>4, <2>6
<1>8. Find(k) = NULL /\ Order[k] = NULL
  BY <1>1, <1>2, <1>7 DEF OrderOK
<1>9. ASSUME NEW p \in Keys \cup {Start}
      PROVE  Order'[p] = IF p = k THEN Start
                         ELSE IF Order[p] = Start THEN k ELSE Order[p]
  <2>1. CASE p = k
    BY <1>2, <1>5, <1>6, <2>1
  <2>2. ASSUME NEW i \in 0 .. m, p = Ith(i), p # k
        PROVE  Order'[p] = IF Order[p] = Start THEN k ELSE Order[p]
    <3>1. p = Ith(i)'
      BY <1>2, <1>4, <1>5, <2>2
    <3>2. Order'[p] = Ith(i + 1)' /\ Order[p] = Ith(i + 1)
      <4>1. Order[p] = Ith(i + 1)
        BY <1>1, <1>2, <2>2 DEF OrderOK
      <4>2. i \in 0 .. m + 1
        OBVIOUS
      <4>3. Order'[Ith(i)'] = Ith(i + 1)'
        BY <1>6, <4>2
      <4>. QED
        BY <3>1, <4>1, <4>3
    <3>3. CASE i = m
      BY <1>5, <3>2, <3>3
    <3>4. CASE i < m
      <4>1. i + 1 \in 1 .. m
        BY <1>2, <3>4
      <4>. QED
        BY <1>3, <1>4, <3>2, <4>1
    <3>. QED
      BY <1>2, <3>3, <3>4
  <2>3. ASSUME p \in Keys, p # k, \A i \in 1 .. m : Ith(i) # p
        PROVE  Order'[p] = IF Order[p] = Start THEN k ELSE Order[p]
    <3>1. Order[p] = NULL
      BY <1>1, <1>2, <2>3 DEF OrderOK
    <3>2. ASSUME NEW i \in 1 .. Len(order'), Ith(i)' = p PROVE FALSE
      <4>1. CASE i = m + 1
        BY <1>5, <2>3, <3>2, <4>1
      <4>2. CASE i \in 1 .. m
        BY <1>4, <2>3, <3>2, <4>2
      <4>. QED
        BY <1>2, <4>1, <4>2
    <3>3. Order'[p] = NULL
      BY <1>1, <2>3, <3>2 DEF OrderOK
    <3>. QED
      BY <1>3, <3>1, <3>3
  <2>. QED
    BY <1>2, <1>5, <2>1, <2>2, <2>3
<1>10. DOMAIN Order' = Keys \cup {Start} /\ Order' = [p \in Keys \cup {Start} |-> Order'[p]]
  BY DEF Order
<1>. QED
  BY <1>8, <1>9, <1>10

LEMMA StepMaps ==
  IInv /\ IInv' /\ [BuildNext]_vars => [Map!Next]_(Map!vars)
<1>. SUFFICES ASSUME IInv, IInv', [BuildNext]_vars
              PROVE  [Map!Next]_(Map!vars)
  OBVIOUS
<1>1. assoc \in [Keys -> Values \cup {NULL}]
  BY DEF IInv, TypeOK
<1>2. ASSUME UNCHANGED <<assoc, ntab, key, next>>, Usable' <=> Usable
      PROVE  UNCHANGED Map!vars
  <2>1. Contents' = Contents /\ Usable' = Usable
    BY <1>2, ContentsAssoc, ContentsNext DEF Usable, ContentsOK
  <2>2. Order' = Order
    BY <1>2, OrderKept
  <2>. QED
    BY <2>1, <2>2 DEF Map!vars, Contents, Order
<1>3. ASSUME NEW k \in Keys, NEW v \in Values, Put(k, v)
      PROVE  [Map!Next]_(Map!vars)
  <2>1. CASE ExtendFails(k, v)
    BY <1>2, <2>1 DEF ExtendFails, Usable, table, ring
  <2>2. ASSUME Usable, Usable', assoc' = [assoc EXCEPT ![k] = v]
        PROVE  Contents' = [Contents EXCEPT ![k] = v] /\ Usable' = Usable
    BY <2>2, ContentsAssoc, ContentsNext DEF Usable, ContentsOK
  <2>3. CASE Replace(k, v)
    <3>1. Usable /\ Usable' /\ assoc' = [assoc EXCEPT ![k] = v]
      BY <2>3 DEF Replace, Usable
    <3>2. PICK t \in 1 .. ntab : /\ IsFirstStop(t, k)
                                 /\ key[Slot(t, k)] # NULL
                                 /\ Store(Slot(t, k), k, v)
      BY <2>3 DEF Replace
    <3>3. /\ key \in [Slots -> Keys \cup {NULL}] /\ Slot(t, k) \in Slots
          /\ key[Slot(t, k)] = k
      <4>1. t \in Tables
        BY ConstantFacts DEF IInv, TypeOK, Tables
      <4>. QED
        BY <3>2, <4>1, SlotFacts DEF IInv, TypeOK, IsFirstStop, Stops
    <3>4. UNCHANGED <<ntab, key, next>>
      BY <2>3, <3>2, <3>3 DEF Replace, Store, ring
    <3>5. Order' = Order
      BY <3>1, <3>4, OrderKept
    <3>6. Contents[k] # NULL
      <4>1. Find(k) = Slot(t, k)
        BY <3>3, FindStored DEF IInv
      <4>2. val[Slot(t, k)] # NULL
        BY <3>3, ConstantFacts DEF IInv, Associated
      <4>. QED
        BY <3>1, <3>3, <4>1, <4>2, ConstantFacts, SlotNotNull DEF Contents, Lookup
    <3>7. Map!Replace(k, v)
      BY <2>2, <3>1, <3>5, <3>6 DEF Map!Replace, Contents, Order
    <3>. QED
      BY <3>7 DEF Map!Next
  <2>4. CASE Fill(k, v) \/ Extend(k, v)
    <3>1. Usable /\ Usable' /\ assoc' = [assoc EXCEPT ![k] = v]
      BY <2>4 DEF Fill, Extend, Usable
    <3>2. PICK n \in Slots : /\ key[n] = NULL
                             /\ Store(n, k, v)
                             /\ LinkLast(n)
      <4>1. CASE Fill(k, v)
        <5>1. PICK t \in 1 .. ntab : /\ key[Slot(t, k)] = NULL
                                     /\ Store(Slot(t, k), k, v)
                                     /\ LinkLast(Slot(t, k))
          BY <4>1 DEF Fill
        <5>2. t \in Tables
          BY ConstantFacts DEF IInv, TypeOK, Tables
        <5>. QED
          BY <5>1, <5>2, SlotFacts
      <4>2. CASE Extend(k, v)
        <5>1. /\ ntab + 1 \in Tables
              /\ Store(Slot(ntab + 1, k), k, v)
              /\ LinkLast(Slot(ntab + 1, k))
          BY <4>2 DEF Extend, IInv, TypeOK, Tables
        <5>2. Slot(ntab + 1, k) \in Slots /\ Slot(ntab + 1, k)[1] = ntab + 1
          BY <5>1, SlotFacts
        <5>3. key[Slot(ntab + 1, k)] = NULL
          BY <5>2 DEF IInv, Chain, TypeOK, Tables
        <5>. QED
          BY <5>1, <5>2, <5>3
      <4>. QED
        BY <2>4, <4>1, <4>2
    <3>3. key' = [key EXCEPT ![n] = k] /\ order' = Append(order, n)
      BY <3>2 DEF Store, LinkLast, IInv, Linked
    <3>4. /\ Find(k) = NULL
          /\ Order' = [p \in Keys \cup {Start} |->
                         IF p = k THEN Start
                         ELSE IF Order[p] = Start THEN k ELSE Order[p]]
      BY <3>1, <3>2, <3>3, OrderExtended
    <3>5. Contents[k] = NULL
      BY <3>1, <3>4 DEF Contents, Lookup
    <3>6. Map!Add(k, v)
      BY <2>2, <3>1, <3>4, <3>5 DEF Map!Add, Map!Places, Contents, Order
    <3>. QED
      BY <3>6 DEF Map!Next
  <2>. QED
    BY <1>3, <2>1, <2>3, <2>4 DEF Put
<1>4. CASE IterInit \/ IterNext \/ IterEnd
  BY <1>2, <1>4 DEF IterInit, IterNext, IterEnd, Usable, table, ring
<1>5. CASE Destroy
  <2>1. Usable /\ ~Usable'
    BY <1>5 DEF Destroy, Usable
  <2>2. Contents' = [k \in Keys |-> NULL] /\ Usable' = FALSE
    BY <2>1, ContentsNext DEF Usable, ContentsOK
  <2>3. Order' = [p \in Keys \cup {Start} |-> IF p = Start THEN Start ELSE NULL]
    BY <2>1 DEF Order
  <2>4. Map!Release
    BY <2>1, <2>2, <2>3
    DEF Map!Release, Map!Empty, Map!Unlinked, Map!Places, Contents, Order
  <2>. QED
    BY <2>4 DEF Map!Next
<1>6. CASE DestroyStep \/ DestroyEnd
  <2>1. ~Usable /\ ~Usable'
    BY <1>6 DEF DestroyStep, DestroyEnd, Usable
  <2>2. Contents' = Contents /\ Usable' = Usable
    BY <2>1, ContentsAssoc, ContentsNext DEF Usable, ContentsOK
  <2>3. Order' = Order
    BY <2>1 DEF Order
  <2>. QED
    BY <2>2, <2>3 DEF Map!vars, Contents, Order
<1>7. CASE UNCHANGED vars
  BY <1>2, <1>7 DEF vars, Usable, table, ring
<1>. QED
  BY <1>3, <1>4, <1>5, <1>6, <1>7 DEF BuildNext

(* The chained, threaded hash table implements the abstract map: jobject_put
   and jobject_set replace one association or add one at the end of the
   iteration and the last j_release ends the map, whatever the hash function
   makes collide. *)
THEOREM ImplementsMap == BuildSpec => MapSpec
BY InitMaps, StepMaps, Invariance, PTL DEF BuildSpec, MapSpec, Map!Spec

-------------------------------------------------------------------------------
(* Every operation of the C API.  Once jobject_remove or jobj_iter_remove is   *)
(* used, the parts of IInv fail: an emptied slot may hide a key, stays on the  *)
(* ring and may be linked again.  What is left is ApiInv.                      *)

(* The types, those of the counts of references aside. *)
ApiTyped ==
  /\ phase \in Phases
  /\ ntab \in Tables
  /\ key \in [Slots -> Keys \cup {NULL}]
  /\ val \in [Slots -> Values \cup {NULL}]
  /\ next \in [Ring -> Ring \cup {NULL}]
  /\ prev \in [Ring -> Ring \cup {NULL}]
  /\ cursor \in Ring \cup {NULL}
  /\ freed \subseteq Slots
  /\ order \in Seq(Slots)
  /\ seen \subseteq Slots
  /\ assoc \in [Keys -> Values \cup {NULL}]
  /\ refilled \in BOOLEAN

Looping == phase \in {"iterating", "destroying"}

(* The nodes that were linked at some time, whether or not they still form a
   ring: their links, which a loop follows, only lead to such nodes. *)
Joined == {n \in Ring : next[n] # NULL /\ prev[n] # NULL}

Closed ==
  /\ Start \in Joined
  /\ \A n \in Joined : next[n] \in Joined /\ prev[n] \in Joined
  /\ Looping => cursor \in Joined

(* A key sits in its bucket of an allocated table, a key without collisions in
   the first table; an entry that jobj_iter_remove left behind has its key. *)
Placed ==
  /\ \A n \in Slots : key[n] # NULL => n[1] <= ntab /\ n[2] = Hash[key[n]]
  /\ \A n \in freed : key[n] # NULL
  /\ \A k \in LoneKeys, t \in Tables : key[Slot(t, k)] # NULL => t = 1

(* The slot of a key without collisions tells what is associated with it. *)
LoneAssociated ==
  Usable => \A k \in LoneKeys :
    IF key[Slot(1, k)] = NULL \/ Slot(1, k) \in freed
    THEN assoc[k] = NULL
    ELSE val[Slot(1, k)] = assoc[k]

(* As long as no slot was linked twice, the ring goes through every pair and
   through no entry left behind. *)
Threaded ==
  ~refilled => /\ IsRing(next, prev, order)
               /\ Stored \subseteq OnRing
               /\ OnRing \cap freed = {}
               /\ \A n \in OnRing : n[1] <= ntab

(* Where the iterator of a loop is, and what it has visited. *)
Visiting ==
  ~refilled /\ Looping =>
    \E i \in 1 .. Len(order) + 1 :
      /\ cursor = At(order, i)
      /\ phase = "iterating" => seen = {order[j] : j \in 1 .. i - 1}

ApiInv == ApiTyped /\ Closed /\ Placed /\ LoneAssociated /\ Threaded /\ Visiting

LEMMA ApiInit == Init => ApiInv
<1>. SUFFICES ASSUME Init PROVE ApiInv
  OBVIOUS
<1>. USE ConstantFacts DEF Init
<1>1. ApiTyped
  <2>1. /\ key \in [Slots -> Keys \cup {NULL}]
        /\ val \in [Slots -> Values \cup {NULL}]
        /\ assoc \in [Keys -> Values \cup {NULL}]
        /\ next \in [Ring -> Ring \cup {NULL}]
        /\ prev \in [Ring -> Ring \cup {NULL}]
        /\ order \in Seq(Slots)
    OBVIOUS
  <2>. QED
    BY <2>1 DEF ApiTyped, Phases
<1>2. Closed
  BY DEF Closed, Joined, Looping
<1>3. \A k \in LoneKeys, t \in Tables : Slot(t, k) \in Slots
  BY SlotFacts DEF LoneKeys
<1>4. Placed /\ LoneAssociated
  BY <1>3 DEF Placed, LoneAssociated, LoneKeys, Tables
<1>5. Threaded /\ Visiting
  BY DEF Threaded, Visiting, Looping, IsRing, At, Stored, OnRing
<1>. QED
  BY <1>1, <1>2, <1>4, <1>5 DEF ApiInv

(* A key without collisions has its slot to itself. *)
LEMMA LoneSlot ==
  ASSUME ApiTyped, Placed, NEW k \in LoneKeys
  PROVE  /\ k \in Keys /\ Slot(1, k) \in Slots /\ 1 \in Tables
         /\ key[Slot(1, k)] \in {NULL, k}
         /\ \A j \in Keys : Hash[j] = Hash[k] => j = k
         /\ \A n \in Slots : key[n] = k => n = Slot(1, k)
<1>1. k \in Keys /\ \A j \in Keys : Hash[j] = Hash[k] => j = k
  BY DEF LoneKeys
<1>2. 1 \in Tables /\ Slot(1, k) \in Slots /\ Slot(1, k)[2] = Hash[k]
  BY <1>1, SlotFacts, ConstantFacts DEF Tables
<1>3. key[Slot(1, k)] \in {NULL, k}
  BY <1>1, <1>2 DEF ApiTyped, Placed
<1>4. ASSUME NEW n \in Slots, key[n] = k
      PROVE  n = Slot(1, k)
  <2>1. n[1] \in Tables /\ n = Slot(n[1], k)
    BY <1>1, <1>4, SlotParts, ConstantFacts DEF Placed, Slot
  <2>2. n[1] = 1
    BY <1>1, <1>4, <2>1, ConstantFacts DEF Placed
  <2>. QED
    BY <2>1, <2>2
<1>. QED
  BY <1>1, <1>2, <1>3, <1>4

(* Where a lookup stops, if it finds something, is compared. *)
LEMMA FoundAt ==
  ASSUME ApiTyped, NEW k \in Keys, Find(k) # NULL
  PROVE  /\ Find(k) \in Slots /\ key[Find(k)] = k
         /\ Find(k) \in Compared(k)
<1>1. ntab \in Nat /\ \A t \in 1 .. ntab : t \in Tables
  BY ConstantFacts DEF ApiTyped, Tables
<1>2. \E t \in 1 .. ntab : IsFirstStop(t, k) /\ key[Slot(t, k)] # NULL
  BY DEF Find
<1>3. PICK t \in 1 .. ntab : IsFirstStop(t, k) /\ key[Slot(t, k)] # NULL
  BY <1>2
<1>4. \A s \in 1 .. ntab : IsFirstStop(s, k) => s = t
  BY <1>1, <1>3 DEF IsFirstStop
<1>5. (CHOOSE s \in 1 .. ntab : IsFirstStop(s, k)) = t
  BY <1>3, <1>4
<1>6. Find(k) = Slot(t, k)
  BY <1>2, <1>5 DEF Find
<1>7. key[Slot(t, k)] = k
  BY <1>3 DEF IsFirstStop, Stops
<1>8. Slot(t, k) \in Slots
  BY <1>1, SlotFacts
<1>9. Slot(t, k) \in Compared(k)
  BY <1>3, <1>8 DEF Compared, IsFirstStop
<1>. QED
  BY <1>6, <1>7, <1>8, <1>9

(* A lookup of a key without collisions goes no further than the first table. *)
LEMMA LoneSearch ==
  ASSUME ApiTyped, Placed, NEW k \in LoneKeys
  PROVE  /\ 1 \in Stops(k)
         /\ \A t \in Stops(k) : 1 <= t
         /\ key[Slot(1, k)] = NULL => Find(k) = NULL
         /\ key[Slot(1, k)] # NULL => Find(k) = Slot(1, k)
<1>1. ntab \in Nat /\ 1 \in 1 .. ntab /\ ntab >= 1
  BY ConstantFacts DEF ApiTyped, Tables
<1>2. k \in Keys /\ key[Slot(1, k)] \in {NULL, k}
  BY LoneSlot
<1>3. 1 \in Stops(k) /\ \A t \in Stops(k) : 1 <= t
  BY <1>1, <1>2 DEF Stops
<1>4. IsFirstStop(1, k) /\ \A t \in 1 .. ntab : IsFirstStop(t, k) => t = 1
  BY <1>1, <1>3 DEF IsFirstStop
<1>5. (CHOOSE t \in 1 .. ntab : IsFirstStop(t, k)) = 1
  BY <1>1, <1>4
<1>. QED
  BY <1>1, <1>3, <1>4, <1>5 DEF Find

(* A pair for a key that has one takes its place. *)
LEMMA ApiReplace ==
  ASSUME ApiInv, NEW k \in Keys, NEW v \in Values, Replace(k, v)
  PROVE  ApiInv'
<1>1. /\ ApiTyped /\ Closed /\ Placed /\ LoneAssociated /\ Threaded /\ Visiting
      /\ ntab \in Nat /\ \A t \in 1 .. ntab : t \in Tables
  BY ConstantFacts DEF ApiInv, ApiTyped, Tables
<1>2. PICK t \in 1 .. ntab : /\ IsFirstStop(t, k)
                             /\ key[Slot(t, k)] # NULL
                             /\ Store(Slot(t, k), k, v)
  BY DEF Replace
<1>. DEFINE n == Slot(t, k)
<1>3. n \in Slots /\ key[n] = k /\ key[n] # NULL
  BY <1>1, <1>2, SlotFacts DEF IsFirstStop, Stops
<1>4. n \notin freed
  BY <1>2, <1>3 DEF Replace, Safe, Compared, IsFirstStop
<1>5. /\ key' = [key EXCEPT ![n] = k] /\ val' = [val EXCEPT ![n] = v]
      /\ assoc' = [assoc EXCEPT ![k] = v]
      /\ UNCHANGED <<phase, ntab, next, prev, order, refilled, cursor, seen, freed>>
  BY <1>2 DEF Replace, Store, ring, loop
<1>. HIDE DEF n
<1>6. key' = key
  BY <1>1, <1>3, <1>5 DEF ApiTyped
<1>7. ApiTyped'
  BY <1>1, <1>3, <1>5, <1>6 DEF ApiTyped
<1>8. Closed' /\ Placed' /\ Visiting'
  BY <1>1, <1>5, <1>6 DEF Closed, Joined, Looping, Placed, Visiting, Slot, At
<1>9. Threaded'
  <2>1. Stored' = Stored /\ OnRing' = OnRing
    BY <1>5, <1>6 DEF Stored, OnRing
  <2>. QED
    BY <1>1, <1>5, <2>1 DEF Threaded, IsRing, At
<1>10. LoneAssociated'
  <2>. SUFFICES ASSUME Usable, NEW j \in LoneKeys
                PROVE  IF key[Slot(1, j)] = NULL \/ Slot(1, j) \in freed
                       THEN assoc'[j] = NULL
                       ELSE val'[Slot(1, j)] = assoc'[j]
    BY <1>5, <1>6 DEF LoneAssociated, Usable, Slot
  <2>1. /\ j \in Keys /\ Slot(1, j) \in Slots /\ key[Slot(1, j)] \in {NULL, j}
        /\ \A m \in Slots : key[m] = j => m = Slot(1, j)
    BY <1>1, LoneSlot
  <2>2. CASE j = k
    <3>1. Slot(1, j) = n
      BY <1>3, <2>1, <2>2
    <3>2. val'[n] = v /\ assoc'[k] = v
      BY <1>1, <1>3, <1>5 DEF ApiTyped
    <3>. QED
      BY <1>3, <1>4, <2>2, <3>1, <3>2
  <2>3. CASE j # k
    <3>1. Slot(1, j) # n
      BY <1>3, <2>1, <2>3
    <3>2. val'[Slot(1, j)] = val[Slot(1, j)] /\ assoc'[j] = assoc[j]
      BY <1>1, <1>5, <2>1, <2>3, <3>1 DEF ApiTyped
    <3>. QED
      BY <1>1, <3>2 DEF LoneAssociated
  <2>. QED
    BY <2>2, <2>3
<1>. QED
  BY <1>7, <1>8, <1>9, <1>10 DEF ApiInv

(* jobject_remove. *)
LEMMA ApiRemove ==
  ASSUME ApiInv, NEW k \in Keys, Remove(k)
  PROVE  ApiInv'
<1>1. ApiTyped /\ Closed /\ Placed /\ LoneAssociated /\ Threaded /\ Visiting
  BY DEF ApiInv
<1>. DEFINE n == Find(k)
<1>2. n \in Slots /\ key[n] = k /\ n \notin freed
  BY <1>1, FoundAt DEF Remove, Safe
<1>3. /\ key' = [key EXCEPT ![n] = NULL]
      /\ assoc' = [assoc EXCEPT ![k] = NULL]
      /\ UNCHANGED <<phase, ntab, val, next, prev, order, refilled, cursor, seen, freed>>
  BY DEF Remove, ring, loop
<1>. HIDE DEF n
<1>4. \A m \in Slots : /\ m # n => key'[m] = key[m]
                       /\ m = n => key'[m] = NULL
  BY <1>1, <1>3 DEF ApiTyped
<1>5. ApiTyped'
  BY <1>1, <1>2, <1>3 DEF ApiTyped
<1>6. Closed' /\ Visiting'
  BY <1>1, <1>3 DEF Closed, Joined, Looping, Visiting, At
<1>7. Placed'
  <2>1. \A j \in LoneKeys, t \in Tables : Slot(t, j) \in Slots
    BY SlotFacts DEF LoneKeys
  <2>2. \A m \in freed : m \in Slots /\ m # n
    BY <1>1, <1>2 DEF ApiTyped
  <2>3. \A m \in Slots : key'[m] # NULL => m[1] <= ntab /\ m[2] = Hash[key'[m]]
    BY <1>1, <1>4 DEF Placed
  <2>4. \A m \in freed : key'[m] # NULL
    BY <1>1, <1>4, <2>2 DEF Placed
  <2>5. \A j \in LoneKeys, t \in Tables : key'[Slot(t, j)] # NULL => t = 1
    BY <1>1, <1>4, <2>1 DEF Placed
  <2>. QED
    BY <1>3, <2>3, <2>4, <2>5 DEF Placed, Slot
<1>8. Threaded'
  <2>1. Stored' \subseteq Stored
    BY <1>3, <1>4 DEF Stored
  <2>. QED
    BY <1>1, <1>3, <2>1 DEF Threaded, IsRing, At, OnRing
<1>9. LoneAssociated'
  <2>. SUFFICES ASSUME Usable, NEW j \in LoneKeys
                PROVE  IF key'[Slot(1, j)] = NULL \/ Slot(1, j) \in freed
                       THEN assoc'[j] = NULL
                       ELSE val[Slot(1, j)] = assoc'[j]
    BY <1>3 DEF LoneAssociated, Usable, Slot
  <2>1. /\ j \in Keys /\ Slot(1, j) \in Slots
        /\ \A m \in Slots : key[m] = j => m = Slot(1, j)
        /\ key[Slot(1, j)] \in {NULL, j}
    BY <1>1, LoneSlot
  <2>2. CASE j = k
    <3>1. key'[Slot(1, j)] = NULL
      BY <1>2, <1>4, <2>1, <2>2
    <3>2. assoc'[j] = NULL
      BY <1>1, <1>3, <2>2 DEF ApiTyped
    <3>. QED
      BY <3>1, <3>2
  <2>3. CASE j # k
    <3>1. Slot(1, j) # n
      BY <1>2, <2>1, <2>3, ConstantFacts
    <3>2. key'[Slot(1, j)] = key[Slot(1, j)] /\ assoc'[j] = assoc[j]
      BY <1>1, <1>3, <1>4, <2>1, <2>3, <3>1 DEF ApiTyped
    <3>. QED
      BY <1>1, <3>2 DEF LoneAssociated
  <2>. QED
    BY <2>2, <2>3
<1>. QED
  BY <1>5, <1>6, <1>7, <1>8, <1>9 DEF ApiInv

(* Steps that change neither the pairs nor the ring. *)
LEMMA ApiLoop ==
  ASSUME ApiInv, UNCHANGED <<table, ring, freed, assoc>>,
         phase' \in Phases, Usable' => Usable,
         cursor' \in Ring \cup {NULL}, seen' \subseteq Slots,
         Looping' => cursor' \in Joined,
         Visiting'
  PROVE  ApiInv'
<1>1. ApiTyped /\ Closed /\ Placed /\ LoneAssociated /\ Threaded
  BY DEF ApiInv
<1>2. UNCHANGED <<ntab, key, val, next, prev, order, refilled, freed, assoc>>
  BY DEF table, ring
<1>3. ApiTyped' /\ Placed'
  BY <1>1, <1>2 DEF ApiTyped, Placed, Slot
<1>4. Closed'
  BY <1>1, <1>2 DEF Closed, Joined
<1>5. LoneAssociated'
  BY <1>1, <1>2 DEF LoneAssociated, Slot
<1>6. Threaded'
  BY <1>1, <1>2 DEF Threaded, IsRing, At, Stored, OnRing
<1>. QED
  BY <1>3, <1>4, <1>5, <1>6 DEF ApiInv

(* A loop starts at the first slot of the ring, or at Start. *)
LEMMA ApiFirst ==
  ASSUME ApiInv
  PROVE  /\ next[Start] \in Joined /\ next[Start] \in Ring
         /\ Len(order) \in Nat /\ 1 \in 1 .. Len(order) + 1
         /\ ~refilled => next[Start] = At(order, 1)
<1>1. ApiTyped /\ Closed /\ Threaded
  BY DEF ApiInv
<1>2. next[Start] \in Joined /\ next[Start] \in Ring
  BY <1>1 DEF Closed, Joined
<1>3. Len(order) \in Nat
  BY <1>1 DEF ApiTyped
<1>4. 0 \in 0 .. Len(order) /\ At(order, 0) = Start /\ 0 + 1 = 1
      /\ 1 \in 1 .. Len(order) + 1
  BY <1>3 DEF At
<1>5. ~refilled => next[At(order, 0)] = At(order, 0 + 1)
  BY <1>1, <1>4 DEF Threaded, IsRing
<1>. QED
  BY <1>2, <1>3, <1>4, <1>5

LEMMA ApiIterInit ==
  ASSUME ApiInv, IterInit
  PROVE  ApiInv'
<1>1. /\ phase = "live" /\ phase' = "iterating" /\ cursor' = next[Start] /\ seen' = {}
      /\ UNCHANGED <<table, ring, freed, assoc>> /\ order' = order /\ refilled' = refilled
  BY DEF IterInit, ring
<1>2. {order[j] : j \in 1 .. 1 - 1} = {}
  OBVIOUS
<1>3. Visiting'
  BY <1>1, <1>2, ApiFirst DEF Visiting, At
<1>. QED
  BY <1>1, <1>3, ApiFirst, ApiLoop DEF Phases, Usable

LEMMA ApiDestroy ==
  ASSUME ApiInv, Destroy
  PROVE  ApiInv'
<1>1. /\ phase = "live" /\ phase' = "destroying" /\ cursor' = next[Start] /\ seen' = seen
      /\ UNCHANGED <<table, ring, freed, assoc>> /\ order' = order /\ refilled' = refilled
  BY DEF Destroy, ring
<1>2. Visiting'
  BY <1>1, ApiFirst DEF Visiting, At
<1>3. seen \subseteq Slots
  BY DEF ApiInv, ApiTyped
<1>. QED
  BY <1>1, <1>2, <1>3, ApiFirst, ApiLoop DEF Phases, Usable

LEMMA ApiIterEnd ==
  ASSUME ApiInv, IterEnd
  PROVE  ApiInv'
<1>1. Visiting' /\ ~Looping'
  BY DEF IterEnd, Visiting, Looping
<1>. QED
  BY <1>1, ApiLoop DEF IterEnd, Phases, Usable

LEMMA ApiUseFreed ==
  ASSUME ApiInv, UseFreed
  PROVE  ApiInv'
<1>1. Visiting' /\ ~Looping'
  BY DEF UseFreed, Visiting, Looping
<1>2. UNCHANGED <<cursor, seen>> /\ cursor \in Ring \cup {NULL} /\ seen \subseteq Slots
  BY DEF UseFreed, loop, ApiInv, ApiTyped
<1>. QED
  BY <1>1, <1>2, ApiLoop DEF UseFreed, Phases, Usable

(* A loop steps to the next slot of the ring. *)
LEMMA NextVisited ==
  ASSUME ApiInv, ~refilled, Looping, Valid(cursor), NEW i \in 1 .. Len(order) + 1,
         cursor = At(order, i)
  PROVE  /\ i \in 1 .. Len(order) /\ Len(order) \in Nat
         /\ cursor = order[i] /\ cursor \in Slots /\ cursor \in OnRing
         /\ next[cursor] = At(order, i + 1)
<1>1. ApiTyped /\ Threaded
  BY DEF ApiInv
<1>2. /\ Len(order) \in Nat /\ DOMAIN order = 1 .. Len(order)
      /\ \A j \in 1 .. Len(order) : order[j] \in Slots
  BY <1>1 DEF ApiTyped
<1>3. i \in 1 .. Len(order) /\ cursor = order[i]
  BY <1>2 DEF Valid, At
<1>4. i \in 0 .. Len(order)
  BY <1>2, <1>3
<1>5. next[At(order, i)] = At(order, i + 1)
  BY <1>1, <1>4 DEF Threaded, IsRing
<1>. QED
  BY <1>2, <1>3, <1>5 DEF OnRing

LEMMA ApiIterNext ==
  ASSUME ApiInv, IterNext
  PROVE  ApiInv'
<1>1. ApiTyped /\ Closed /\ Visiting
  BY DEF ApiInv
<1>2. /\ phase = "iterating" /\ phase' = "iterating" /\ Valid(cursor) /\ Looping
      /\ cursor' = next[cursor] /\ seen' = seen \cup {cursor}
      /\ UNCHANGED <<table, ring, freed, assoc>> /\ order' = order /\ refilled' = refilled
  BY DEF IterNext, Following, ring, Looping
<1>3. /\ cursor \in Joined /\ cursor' \in Joined /\ cursor' \in Ring
      /\ cursor \in Slots /\ seen' \subseteq Slots
  <2>1. cursor \in Joined /\ cursor' \in Joined
    BY <1>1, <1>2 DEF Closed
  <2>2. cursor \in Slots
    BY <1>2, <2>1 DEF Joined, Ring, Valid
  <2>. QED
    BY <1>1, <1>2, <2>1, <2>2 DEF Joined, ApiTyped
<1>4. ASSUME ~refilled
      PROVE  \E i \in 1 .. Len(order) + 1 :
               cursor' = At(order, i) /\ seen' = {order[j] : j \in 1 .. i - 1}
  <2>1. PICK i \in 1 .. Len(order) + 1 :
          cursor = At(order, i) /\ seen = {order[j] : j \in 1 .. i - 1}
    BY <1>1, <1>2, <1>4 DEF Visiting
  <2>2. /\ i \in 1 .. Len(order) /\ Len(order) \in Nat
        /\ cursor = order[i] /\ next[cursor] = At(order, i + 1)
    BY <1>2, <1>4, <2>1, NextVisited
  <2>3. i + 1 \in 1 .. Len(order) + 1 /\ 1 .. (i + 1) - 1 = (1 .. i - 1) \cup {i}
    BY <2>2
  <2>4. seen' = {order[j] : j \in 1 .. (i + 1) - 1}
    BY <1>2, <2>1, <2>2, <2>3
  <2>. QED
    BY <1>2, <2>2, <2>3, <2>4
<1>5. ASSUME ~refilled'
      PROVE  \E i \in 1 .. Len(order') + 1 :
               cursor' = At(order', i) /\ seen' = {order'[j] : j \in 1 .. i - 1}
  <2>1. order' = order /\ ~refilled
    BY <1>2, <1>5
  <2>2. PICK i \in 1 .. Len(order) + 1 :
          cursor' = At(order, i) /\ seen' = {order[j] : j \in 1 .. i - 1}
    BY <1>4, <2>1
  <2>3. At(order', i) = At(order, i) /\ Len(order') = Len(order)
    BY <2>1
  <2>4. {order'[j] : j \in 1 .. i - 1} = {order[j] : j \in 1 .. i - 1}
    BY <2>1
  <2>. QED
    BY <2>2, <2>3, <2>4
<1>6. Visiting'
  BY <1>5 DEF Visiting
<1>. QED
  BY <1>2, <1>3, <1>6, ApiLoop DEF Phases, Usable

LEMMA ApiDestroyEnd ==
  ASSUME ApiInv, DestroyEnd
  PROVE  ApiInv'
<1>1. ApiTyped /\ Closed /\ Threaded
  BY DEF ApiInv
<1>2. /\ phase' = "destroyed"
      /\ key' = [n \in Slots |-> NULL] /\ val' = [n \in Slots |-> NULL]
      /\ cursor' = NULL /\ freed' = {}
      /\ UNCHANGED <<ntab, next, prev, order, refilled, seen, assoc>>
  BY DEF DestroyEnd, ring
<1>3. \A n \in Slots : key'[n] = NULL
  BY <1>2
<1>4. ApiTyped'
  BY <1>1, <1>2 DEF ApiTyped, Phases
<1>5. Closed' /\ Visiting' /\ LoneAssociated'
  BY <1>1, <1>2 DEF Closed, Joined, Looping, Visiting, LoneAssociated, Usable
<1>6. Placed'
  <2>1. \A j \in LoneKeys, t \in Tables : Slot(t, j) \in Slots
    BY SlotFacts DEF LoneKeys
  <2>. QED
    BY <1>2, <1>3, <2>1 DEF Placed, Slot
<1>7. Threaded'
  <2>1. Stored' = {}
    BY <1>3 DEF Stored
  <2>. QED
    BY <1>1, <1>2, <2>1 DEF Threaded, IsRing, At, OnRing
<1>. QED
  BY <1>4, <1>5, <1>6, <1>7 DEF ApiInv

(* A pair for a key that has none enters an empty slot of its bucket, which may
   be one that jobject_remove left on the ring. *)
LEMMA ApiLink ==
  ASSUME ApiInv, phase = "live",
         NEW k \in Keys, NEW v \in Values, NEW t \in Tables,
         key[Slot(t, k)] = NULL, k \in LoneKeys => t = 1,
         ntab' \in Tables, ntab <= ntab', t <= ntab',
         Store(Slot(t, k), k, v),
         LinkLast(Slot(t, k)),
         assoc' = [assoc EXCEPT ![k] = v],
         UNCHANGED <<phase, loop, freed>>
  PROVE  ApiInv'
<1>. DEFINE n == Slot(t, k)
            p == prev[Start]
            q == next[prev[Start]]
<1>1. n \in Slots /\ n[1] = t /\ n[2] = Hash[k] /\ n \in Ring /\ k # NULL
  BY SlotFacts, ConstantFacts
<1>2. /\ ApiTyped /\ Closed /\ Placed /\ LoneAssociated /\ Threaded
      /\ key[n] = NULL
  BY DEF ApiInv
<1>3. /\ key' = [key EXCEPT ![n] = k] /\ val' = [val EXCEPT ![n] = v]
      /\ prev' = [prev EXCEPT ![q] = n, ![n] = p]
      /\ next' = [next EXCEPT ![n] = q, ![p] = n]
      /\ refilled' = (refilled \/ n \in Holes)
      /\ order' = IF refilled' THEN <<>> ELSE Append(order, n)
      /\ UNCHANGED <<cursor, seen, freed, phase>>
  BY DEF Store, LinkLast, Ladd, loop
<1>4. p \in Joined /\ q \in Joined /\ p \in Ring /\ q \in Ring
  BY <1>2 DEF Closed, Joined
<1>. HIDE DEF n, p, q
<1>5. \A m \in Slots : /\ m # n => key'[m] = key[m] /\ val'[m] = val[m]
                       /\ m = n => key'[m] = k /\ val'[m] = v
  BY <1>1, <1>2, <1>3 DEF ApiTyped
<1>6. \A m \in Ring : /\ m = p => next'[m] = n
                      /\ m # p /\ m = n => next'[m] = q
                      /\ m # p /\ m # n => next'[m] = next[m]
                      /\ m = n => prev'[m] = p
                      /\ m # n /\ m = q => prev'[m] = n
                      /\ m # n /\ m # q => prev'[m] = prev[m]
  BY <1>1, <1>2, <1>3, <1>4 DEF ApiTyped
<1>7. n \notin freed
  BY <1>2 DEF Placed
<1>8. ApiTyped'
  <2>1. /\ key' \in [Slots -> Keys \cup {NULL}]
        /\ val' \in [Slots -> Values \cup {NULL}]
        /\ assoc' \in [Keys -> Values \cup {NULL}]
    BY <1>2, <1>3 DEF ApiTyped
  <2>2. next' \in [Ring -> Ring \cup {NULL}] /\ prev' \in [Ring -> Ring \cup {NULL}]
    BY <1>1, <1>2, <1>3, <1>4 DEF ApiTyped
  <2>3. order' \in Seq(Slots) /\ refilled' \in BOOLEAN
    BY <1>1, <1>2, <1>3 DEF ApiTyped
  <2>. QED
    BY <1>2, <1>3, <2>1, <2>2, <2>3 DEF ApiTyped
<1>9. Closed'
  <2>1. Joined' = Joined \cup {n}
    BY <1>1, <1>4, <1>6, ConstantFacts DEF Joined
  <2>2. Start \in Joined'
    BY <1>2, <2>1 DEF Closed
  <2>3. ASSUME NEW m \in Joined'
        PROVE  next'[m] \in Joined' /\ prev'[m] \in Joined'
    <3>1. m \in Ring /\ (m \in Joined \/ m = n)
      BY <1>1, <2>1, <2>3 DEF Joined
    <3>2. m \in Joined => next[m] \in Joined /\ prev[m] \in Joined
      BY <1>2 DEF Closed
    <3>. QED
      BY <1>4, <1>6, <2>1, <3>1, <3>2
  <2>4. ~Looping'
    BY <1>3 DEF Looping
  <2>. QED
    BY <2>2, <2>3, <2>4 DEF Closed
<1>10. Placed'
  <2>1. \A m \in Slots : key'[m] # NULL => m[1] <= ntab' /\ m[2] = Hash[key'[m]]
    <3>. SUFFICES ASSUME NEW m \in Slots, key'[m] # NULL
                  PROVE  m[1] <= ntab' /\ m[2] = Hash[key'[m]]
      OBVIOUS
    <3>1. CASE m = n
      BY <1>1, <1>5, <3>1
    <3>2. CASE m # n
      <4>1. m[1] <= ntab /\ m[2] = Hash[key[m]]
        BY <1>2, <1>5, <3>2 DEF Placed
      <4>2. m[1] \in Nat /\ ntab \in Nat /\ ntab' \in Nat
        BY <1>2, SlotParts, ConstantFacts DEF ApiTyped, Tables
      <4>. QED
        BY <1>5, <3>2, <4>1, <4>2
    <3>. QED
      BY <3>1, <3>2
  <2>2. \A m \in freed : key'[m] # NULL
    BY <1>2, <1>5, <1>7 DEF ApiTyped, Placed
  <2>3. ASSUME NEW j \in LoneKeys, NEW s \in Tables, key'[Slot(s, j)] # NULL
        PROVE  s = 1
    <3>1. /\ j \in Keys /\ Slot(s, j) \in Slots
          /\ Slot(s, j)[1] = s /\ Slot(s, j)[2] = Hash[j]
      BY SlotFacts DEF LoneKeys
    <3>2. CASE Slot(s, j) = n
      <4>1. k = j /\ s = t
        BY <1>1, <3>1, <3>2 DEF LoneKeys
      <4>. QED
        BY <4>1
    <3>3. CASE Slot(s, j) # n
      BY <1>2, <1>5, <2>3, <3>1, <3>3 DEF Placed
    <3>. QED
      BY <3>2, <3>3
  <2>. QED
    BY <1>3, <2>1, <2>2, <2>3 DEF Placed, Slot
<1>11. LoneAssociated'
  <2>. SUFFICES ASSUME NEW j \in LoneKeys
                PROVE  IF key'[Slot(1, j)] = NULL \/ Slot(1, j) \in freed
                       THEN assoc'[j] = NULL
                       ELSE val'[Slot(1, j)] = assoc'[j]
    BY <1>3 DEF LoneAssociated, Slot
  <2>1. /\ j \in Keys /\ Slot(1, j) \in Slots /\ Slot(1, j)[2] = Hash[j]
        /\ Hash[k] = Hash[j] => k = j
    BY <1>2, LoneSlot, SlotFacts
  <2>2. CASE j = k
    <3>1. Slot(1, j) = n
      BY <2>2 DEF n
    <3>2. key'[n] = k /\ val'[n] = v /\ assoc'[k] = v
      BY <1>1, <1>2, <1>5 DEF ApiTyped
    <3>. QED
      BY <1>1, <1>7, <2>2, <3>1, <3>2
  <2>3. CASE j # k
    <3>1. Slot(1, j) # n
      BY <1>1, <2>1, <2>3
    <3>2. /\ key'[Slot(1, j)] = key[Slot(1, j)] /\ val'[Slot(1, j)] = val[Slot(1, j)]
          /\ assoc'[j] = assoc[j]
      BY <1>2, <1>5, <2>1, <2>3, <3>1 DEF ApiTyped
    <3>3. Usable
      BY DEF Usable
    <3>. QED
      BY <1>2, <3>2, <3>3 DEF LoneAssociated
  <2>. QED
    BY <2>2, <2>3
<1>12. Threaded'
  <2>. SUFFICES ASSUME ~refilled'
                PROVE  /\ IsRing(next', prev', order')
                       /\ Stored' \subseteq OnRing'
                       /\ OnRing' \cap freed' = {}
                       /\ \A m \in OnRing' : m[1] <= ntab'
    BY DEF Threaded
  <2>1. /\ ~refilled /\ n \notin OnRing /\ order' = Append(order, n)
        /\ order \in Seq(Slots)
    BY <1>2, <1>3 DEF Holes, ApiTyped
  <2>2. IsRing(next', prev', order')
    <3>1. \A i \in 1 .. Len(order) : order[i] # n
      BY <2>1 DEF OnRing
    <3>2. IsRing([next EXCEPT ![n] = next[prev[Start]], ![prev[Start]] = n],
                 [prev EXCEPT ![next[prev[Start]]] = n, ![n] = prev[Start]],
                 Append(order, n))
      BY <1>1, <1>2, <2>1, <3>1, LinkRing DEF ApiTyped, Threaded
    <3>. QED
      BY <1>3, <2>1, <3>2 DEF p, q
  <2>3. OnRing' = OnRing \cup {n}
    <3>1. /\ Len(order) \in Nat
          /\ DOMAIN order = 1 .. Len(order)
          /\ DOMAIN order' = 1 .. Len(order) + 1
          /\ \A i \in 1 .. Len(order) : order'[i] = order[i]
          /\ order'[Len(order) + 1] = n
      BY <1>1, <2>1
    <3>2. \A i \in 1 .. Len(order) + 1 : i \in 1 .. Len(order) \/ i = Len(order) + 1
      BY <3>1
    <3>3. OnRing' \subseteq OnRing \cup {n}
      BY <3>1, <3>2 DEF OnRing
    <3>4. \A i \in 1 .. Len(order) : i \in 1 .. Len(order) + 1
      BY <3>1
    <3>5. Len(order) + 1 \in 1 .. Len(order) + 1
      BY <3>1
    <3>6. OnRing \cup {n} \subseteq OnRing'
      BY <3>1, <3>4, <3>5 DEF OnRing
    <3>. QED
      BY <3>3, <3>6
  <2>4. Stored' \subseteq Stored \cup {n}
    BY <1>3, <1>5 DEF Stored
  <2>5. \A m \in OnRing : m[1] <= ntab'
    <3>. SUFFICES ASSUME NEW m \in OnRing PROVE m[1] <= ntab'
      OBVIOUS
    <3>1. m[1] <= ntab
      BY <1>2, <2>1 DEF Threaded
    <3>2. m \in Slots
      BY <2>1 DEF OnRing
    <3>3. m[1] \in Nat /\ ntab \in Nat /\ ntab' \in Nat
      BY <1>2, <3>2, SlotParts, ConstantFacts DEF ApiTyped, Tables
    <3>. QED
      BY <3>1, <3>3
  <2>. QED
    BY <1>1, <1>2, <1>3, <1>7, <2>1, <2>2, <2>3, <2>4, <2>5 DEF Threaded
<1>13. Visiting'
  BY <1>3 DEF Visiting, Looping
<1>. QED
  BY <1>8, <1>9, <1>10, <1>11, <1>12, <1>13 DEF ApiInv

LEMMA ApiFill ==
  ASSUME ApiInv, NEW k \in Keys, NEW v \in Values, Fill(k, v)
  PROVE  ApiInv'
<1>1. ApiTyped /\ Placed /\ ntab \in Nat /\ ntab \in Tables
  BY ConstantFacts DEF ApiInv, ApiTyped, Tables
<1>2. PICK t \in 1 .. ntab : /\ IsFirstStop(t, k)
                             /\ key[Slot(t, k)] = NULL
                             /\ Store(Slot(t, k), k, v)
                             /\ LinkLast(Slot(t, k))
  BY DEF Fill
<1>3. t \in Tables /\ t <= ntab /\ ntab <= ntab
  BY <1>1, ConstantFacts DEF Tables
<1>4. ASSUME k \in LoneKeys
      PROVE  t = 1
  <2>1. 1 \in Stops(k) /\ 1 <= t
    BY <1>1, <1>3, <1>4, LoneSearch, ConstantFacts DEF Tables
  <2>2. t <= 1
    BY <1>2, <2>1 DEF IsFirstStop
  <2>. QED
    BY <1>3, <2>1, <2>2 DEF Tables
<1>. QED
  BY <1>1, <1>2, <1>3, <1>4, ApiLink DEF Fill

LEMMA ApiExtend ==
  ASSUME ApiInv, NEW k \in Keys, NEW v \in Values, Extend(k, v)
  PROVE  ApiInv'
<1>. DEFINE t == ntab + 1
<1>1. ApiTyped /\ Placed /\ ntab \in Nat /\ ntab < MaxTables
  BY ConstantFacts DEF ApiInv, ApiTyped, Tables, Extend
<1>2. t \in Tables /\ ntab' = t /\ ntab' \in Tables /\ ntab <= t /\ t <= ntab'
  BY <1>1, ConstantFacts DEF Tables, Extend
<1>3. key[Slot(t, k)] = NULL
  <2>1. Slot(t, k) \in Slots /\ Slot(t, k)[1] = t
    BY <1>2, SlotFacts
  <2>2. ~(t <= ntab)
    BY <1>1
  <2>. QED
    BY <1>1, <2>1, <2>2 DEF Placed
<1>4. k \notin LoneKeys
  BY <1>1, LoneSearch DEF Extend
<1>. QED
  BY <1>2, <1>3, <1>4, ApiLink DEF Extend

(* jobj_iter_remove, and a step of j_destroy_object: the slot leaves the ring
   and its entry is left behind. *)
LEMMA ApiDrop ==
  ASSUME ApiInv, Looping, DropPair, phase' = phase
  PROVE  ApiInv'
<1>. DEFINE n == cursor
            p == prev[n]
            q == next[n]
<1>1. /\ ApiTyped /\ Closed /\ Placed /\ LoneAssociated /\ Threaded /\ Visiting
      /\ key[n] # NULL /\ n # Start /\ n \notin freed
  BY DEF ApiInv, DropPair, Valid
<1>2. n \in Joined /\ n \in Slots /\ n \in Ring /\ p \in Joined /\ q \in Joined
      /\ p \in Ring /\ q \in Ring
  BY <1>1 DEF Closed, Joined, Ring
<1>3. key[n] \in Keys
  BY <1>1, <1>2 DEF ApiTyped
<1>4. /\ cursor' = q /\ freed' = freed \cup {n}
      /\ next' = [next EXCEPT ![p] = q, ![n] = n]
      /\ prev' = [prev EXCEPT ![q] = p, ![n] = n]
      /\ order' = IF n \in OnRing THEN Without(n) ELSE order
      /\ assoc' = [assoc EXCEPT ![key[n]] = NULL]
      /\ UNCHANGED <<phase, ntab, key, val, seen, refilled>>
  BY DEF DropPair, Following, Unlink, Ldel, table
<1>5. ASSUME ~refilled
      PROVE  /\ IsRing(next', prev', order')
             /\ OnRing' = OnRing \ {n}
             /\ \E i \in 1 .. Len(order') + 1 :
                  /\ cursor' = At(order', i)
                  /\ phase' = "iterating" => seen' = {order'[j] : j \in 1 .. i - 1}
  <2>1. PICK i \in 1 .. Len(order) + 1 :
          /\ cursor = At(order, i)
          /\ phase = "iterating" => seen = {order[j] : j \in 1 .. i - 1}
    BY <1>1, <1>5 DEF Visiting
  <2>2. /\ i \in 1 .. Len(order) /\ Len(order) \in Nat
        /\ n = order[i] /\ n \in OnRing /\ q = At(order, i + 1)
    BY <1>5, <2>1, NextVisited DEF DropPair
  <2>3. order \in Seq(Slots) /\ IsRing(next, prev, order) /\ order' = Without(n)
    BY <1>1, <1>4, <1>5, <2>2 DEF ApiTyped, Threaded
  <2>4. /\ order' \in Seq(Slots) /\ Len(order') = Len(order) - 1
        /\ \A j \in 1 .. Len(order') : order'[j] = IF j < i THEN order[j] ELSE order[j + 1]
        /\ {order'[j] : j \in DOMAIN order'} = OnRing \ {n}
    <3>1. \A j, l \in 1 .. Len(order) : order[j] = order[l] => j = l
      BY <2>3 DEF IsRing
    <3>2. LET rest == Without(order[i])
          IN  /\ rest \in Seq(Slots)
              /\ Len(rest) = Len(order) - 1
              /\ \A j \in 1 .. Len(rest) : rest[j] = IF j < i THEN order[j] ELSE order[j + 1]
              /\ {rest[j] : j \in DOMAIN rest} = OnRing \ {order[i]}
      BY ONLY <2>2, <2>3, <3>1, WithoutFacts
    <3>. QED
      BY <2>2, <2>3, <3>2
  <2>5. IsRing(next', prev', order')
    <3>1. /\ next \in [Ring -> Ring \cup {NULL}] /\ prev \in [Ring -> Ring \cup {NULL}]
          /\ order \in Seq(Slots) /\ IsRing(next, prev, order)
          /\ i \in 1 .. Len(order) /\ cursor = order[i]
          /\ order' \in Seq(Slots) /\ Len(order') = Len(order) - 1
          /\ \A j \in 1 .. Len(order') :
               order'[j] = IF j < i THEN order[j] ELSE order[j + 1]
      BY <1>1, <2>2, <2>3, <2>4 DEF ApiTyped
    <3>2. IsRing([next EXCEPT ![prev[cursor]] = next[cursor], ![cursor] = cursor],
                 [prev EXCEPT ![next[cursor]] = prev[cursor], ![cursor] = cursor],
                 order')
      BY ONLY <3>1, UnlinkRing
    <3>. QED
      BY <1>4, <3>2
  <2>6. i \in 1 .. Len(order') + 1 /\ i - 1 <= Len(order') /\ Len(order') \in Nat
    BY <2>2, <2>4
  <2>7. At(order', i) = At(order, i + 1)
    BY <2>2, <2>4, <2>6 DEF At
  <2>8. \A j \in 1 .. i - 1 : order'[j] = order[j]
    BY <2>2, <2>4, <2>6
  <2>9. {order'[j] : j \in 1 .. i - 1} = {order[j] : j \in 1 .. i - 1}
    BY <2>8
  <2>. QED
    BY <1>4, <2>1, <2>2, <2>4, <2>5, <2>6, <2>7, <2>9 DEF OnRing
<1>6. order' \in Seq(Slots)
  <2>1. CASE n \notin OnRing
    BY <1>1, <1>4, <2>1 DEF ApiTyped
  <2>2. CASE n \in OnRing
    <3>. DEFINE at == CHOOSE i \in DOMAIN order : order[i] = n
    <3>1. /\ DOMAIN order = 1 .. Len(order) /\ Len(order) \in Nat
          /\ \A i \in 1 .. Len(order) : order[i] \in Slots
      BY <1>1 DEF ApiTyped
    <3>2. Len(order) - 1 \in Nat
      BY <2>2, <3>1 DEF OnRing
    <3>3. order' = [j \in 1 .. Len(order) - 1 |-> IF j < at THEN order[j] ELSE order[j + 1]]
      BY <1>4, <2>2 DEF Without
    <3>. HIDE DEF at
    <3>4. \A j \in 1 .. Len(order) - 1 : j \in 1 .. Len(order) /\ j + 1 \in 1 .. Len(order)
      BY <3>1
    <3>. QED
      BY <3>1, <3>2, <3>3, <3>4
  <2>. QED
    BY <2>1, <2>2
<1>. HIDE DEF n, p, q
<1>7. ApiTyped'
  <2>1. next' \in [Ring -> Ring \cup {NULL}] /\ prev' \in [Ring -> Ring \cup {NULL}]
    BY <1>1, <1>2, <1>4 DEF ApiTyped
  <2>2. assoc' \in [Keys -> Values \cup {NULL}]
    BY <1>1, <1>4 DEF ApiTyped
  <2>. QED
    BY <1>1, <1>2, <1>4, <1>6, <2>1, <2>2 DEF ApiTyped
<1>8. Closed'
  <2>1. \A m \in Ring : /\ m = n => next'[m] = n /\ prev'[m] = n
                        /\ m # n /\ m = p => next'[m] = q
                        /\ m # n /\ m # p => next'[m] = next[m]
                        /\ m # n /\ m = q => prev'[m] = p
                        /\ m # n /\ m # q => prev'[m] = prev[m]
    BY <1>1, <1>2, <1>4 DEF ApiTyped
  <2>2. Joined' = Joined
    BY <1>2, <2>1, ConstantFacts DEF Joined
  <2>3. ASSUME NEW m \in Joined
        PROVE  next'[m] \in Joined /\ prev'[m] \in Joined
    <3>1. m \in Ring /\ next[m] \in Joined /\ prev[m] \in Joined
      BY <1>1 DEF Closed, Joined
    <3>. QED
      BY <1>2, <2>1, <3>1
  <2>. QED
    BY <1>1, <1>2, <1>4, <2>2, <2>3 DEF Closed
<1>9. Placed'
  BY <1>1, <1>4 DEF Placed, Slot
<1>10. LoneAssociated'
  <2>. SUFFICES ASSUME Usable, NEW j \in LoneKeys
                PROVE  IF key[Slot(1, j)] = NULL \/ Slot(1, j) \in freed'
                       THEN assoc'[j] = NULL
                       ELSE val[Slot(1, j)] = assoc'[j]
    BY <1>4 DEF LoneAssociated, Usable, Slot
  <2>1. /\ j \in Keys /\ key[Slot(1, j)] \in {NULL, j}
        /\ \A m \in Slots : key[m] = j => m = Slot(1, j)
    BY <1>1, LoneSlot
  <2>2. CASE j = key[n]
    <3>1. Slot(1, j) = n /\ assoc'[j] = NULL
      BY <1>1, <1>2, <1>4, <2>1, <2>2 DEF ApiTyped
    <3>. QED
      BY <1>4, <3>1
  <2>3. CASE j # key[n]
    <3>1. Slot(1, j) # n
      BY <1>1, <2>1, <2>3
    <3>2. assoc'[j] = assoc[j]
      BY <1>1, <1>4, <2>1, <2>3 DEF ApiTyped
    <3>. QED
      BY <1>1, <1>4, <3>1, <3>2 DEF LoneAssociated
  <2>. QED
    BY <2>2, <2>3
<1>11. Threaded'
  <2>1. Stored' = Stored \ {n}
    BY <1>4 DEF Stored
  <2>. QED
    BY <1>1, <1>4, <1>5, <2>1 DEF Threaded
<1>12. Visiting'
  BY <1>4, <1>5 DEF Visiting
<1>. QED
  BY <1>7, <1>8, <1>9, <1>10, <1>11, <1>12 DEF ApiInv

LEMMA ApiStep == ApiInv /\ [Next]_vars => ApiInv'
<1>. SUFFICES ASSUME ApiInv, [Next]_vars PROVE ApiInv'
  OBVIOUS
<1>1. ASSUME NEW k \in Keys, NEW v \in Values, Put(k, v)
      PROVE  ApiInv'
  <2>1. CASE Replace(k, v)
    BY <2>1, ApiReplace
  <2>2. CASE Fill(k, v)
    BY <2>2, ApiFill
  <2>3. CASE Extend(k, v)
    BY <2>3, ApiExtend
  <2>4. CASE ExtendFails(k, v)
    <3>1. UNCHANGED <<phase, table, ring, loop, freed, assoc>>
      BY <2>4 DEF ExtendFails
    <3>. QED
      BY <3>1, ApiLoop DEF ApiInv, ApiTyped, Closed, Visiting, Looping, Usable, loop, ring, At
  <2>. QED
    BY <1>1, <2>1, <2>2, <2>3, <2>4 DEF Put
<1>2. CASE IterInit
  BY <1>2, ApiIterInit
<1>3. CASE IterNext
  BY <1>3, ApiIterNext
<1>4. CASE IterEnd
  BY <1>4, ApiIterEnd
<1>5. CASE Destroy
  BY <1>5, ApiDestroy
<1>6. CASE DestroyStep
  BY <1>6, ApiDrop DEF DestroyStep, Looping
<1>7. CASE DestroyEnd
  BY <1>7, ApiDestroyEnd
<1>8. ASSUME NEW k \in Keys, Remove(k)
      PROVE  ApiInv'
  BY <1>8, ApiRemove
<1>9. CASE IterRemove
  BY <1>9, ApiDrop DEF IterRemove, Looping
<1>10. CASE UseFreed
  BY <1>10, ApiUseFreed
<1>11. CASE UNCHANGED vars
  <2>1. UNCHANGED <<phase, table, ring, loop, freed, assoc>>
    BY <1>11 DEF vars
  <2>. QED
    BY <2>1, ApiLoop DEF ApiInv, ApiTyped, Closed, Visiting, Looping, Usable, loop, ring, At
<1>. QED
  BY <1>1, <1>2, <1>3, <1>4, <1>5, <1>6, <1>7, <1>8, <1>9, <1>10, <1>11
  DEF Next, BuildNext

LEMMA ApiInvariance == Spec => []ApiInv
BY ApiInit, ApiStep, PTL DEF Spec

(* Whatever a client does with the C API, the links form a ring through the
   slots linked so far, in that order, until jobject_put links a slot that
   jobject_remove left on the ring. *)
THEOREM RingHolds == Spec => []RingOK
<1>1. ApiInv => RingOK
  BY DEF ApiInv, Threaded, RingOK
<1>. QED
  BY <1>1, ApiInvariance, PTL

(* Whatever a client does with the C API, jobj_iter_remove during the loop
   included, an iteration visits each pair once and misses none, unless the
   ring has a slot that jobject_remove emptied or linked twice. *)
THEOREM IterationsExact == Spec => []IterationExact
<1>1. ApiInv => IterationExact
  <2>. SUFFICES ASSUME ApiInv, phase = "iterating", Holes = {}, ~refilled
                PROVE  /\ cursor \notin seen \cup freed
                       /\ ~Valid(cursor) => Stored \subseteq seen
    BY DEF IterationExact
  <2>1. ApiTyped /\ Threaded /\ Visiting /\ Looping
    BY DEF ApiInv, Looping
  <2>2. PICK i \in 1 .. Len(order) + 1 :
          cursor = At(order, i) /\ seen = {order[j] : j \in 1 .. i - 1}
    BY <2>1 DEF Visiting
  <2>3. /\ Len(order) \in Nat /\ DOMAIN order = 1 .. Len(order)
        /\ \A j \in 1 .. Len(order) : order[j] \in Slots
        /\ \A j, l \in 1 .. Len(order) : order[j] = order[l] => j = l
        /\ OnRing = {order[j] : j \in 1 .. Len(order)}
    BY <2>1 DEF ApiTyped, Threaded, IsRing, OnRing
  <2>4. /\ \A j \in 1 .. i - 1 : j \in 1 .. Len(order) /\ j # i
        /\ i \in 1 .. Len(order) \/ i = Len(order) + 1
    BY <2>3
  <2>5. CASE i \in 1 .. Len(order)
    <3>1. cursor = order[i] /\ cursor \in OnRing /\ cursor \in Slots
      BY <2>2, <2>3, <2>5 DEF At
    <3>2. cursor \notin freed
      BY <2>1, <3>1 DEF Threaded
    <3>3. cursor \notin seen
      BY <2>2, <2>3, <2>4, <2>5, <3>1
    <3>4. Valid(cursor)
      BY <3>1, ConstantFacts DEF Holes, Valid
    <3>. QED
      BY <3>2, <3>3, <3>4
  <2>6. CASE i = Len(order) + 1
    <3>1. cursor = Start /\ Start \notin Slots
      BY <2>2, <2>3, <2>6, ConstantFacts DEF At
    <3>2. Start \notin freed /\ Start \notin seen
      BY <2>1, <3>1 DEF ApiTyped
    <3>3. i - 1 = Len(order)
      BY <2>3, <2>6
    <3>4. OnRing = seen
      BY <2>2, <2>3, <3>3
    <3>. QED
      BY <2>1, <3>1, <3>2, <3>4 DEF Threaded
  <2>. QED
    BY <2>4, <2>5, <2>6
<1>. QED
  BY <1>1, ApiInvariance, PTL

(* Whatever a client does with the C API, a key that collides with no other is
   looked up exactly, or its slot is one jobj_iter_remove left behind. *)
THEOREM LoneLookupsExact == Spec => []LoneLookupExact
<1>1. ApiInv => LoneLookupExact
  <2>. SUFFICES ASSUME ApiInv, Usable, NEW k \in LoneKeys
                PROVE  IF Find(k) \in freed THEN assoc[k] = NULL ELSE Lookup(k) = assoc[k]
    BY DEF LoneLookupExact
  <2>1. ApiTyped /\ Placed /\ LoneAssociated
    BY DEF ApiInv
  <2>2. /\ key[Slot(1, k)] = NULL => Find(k) = NULL
        /\ key[Slot(1, k)] # NULL => Find(k) = Slot(1, k)
        /\ Slot(1, k) \in Slots
    BY <2>1, LoneSearch, LoneSlot
  <2>3. NULL \notin freed /\ Slot(1, k) # NULL
    BY <2>1, <2>2, ConstantFacts DEF ApiTyped
  <2>. QED
    BY <2>1, <2>2, <2>3 DEF LoneAssociated, Lookup
<1>. QED
  BY <1>1, ApiInvariance, PTL
================================================================================
