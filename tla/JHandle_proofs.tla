----------------------------- MODULE JHandle_proofs -----------------------------
(***************************************************************************)
(* Proofs about JHandle: for any number of handles, iterators, documents   *)
(* and values, no handle, iterator or container is left with a value that  *)
(* was freed, every counted reference is accounted for, and JHandle        *)
(* implements JShared.                                                     *)
(***************************************************************************)
EXTENDS JHandle, SeqLemmas, FiniteSetTheorems, TLAPS

-------------------------------------------------------------------------------
(* Types *)

Texts == UNION {{doc[n].text : n \in DOMAIN doc} : doc \in Documents}
Value == Addresses \cup Statics
ItemOf(kind) == [1 .. Width(kind) -> Value]
Item == [1 .. 1 -> Value] \cup [1 .. 2 -> Value]
Node == [kind : Kinds, text : Texts, items : Seq(Item), cnt : Nat]

(* A node is of its kind. *)
Proper(node) ==
  /\ node \in Node
  /\ node.cnt > 0
  /\ node.items \in Seq(ItemOf(node.kind))
  /\ Len(node.items) <= MaxItems

HeapTyped(h) ==
  /\ DOMAIN h \subseteq Addresses
  /\ h = [p \in DOMAIN h |-> h[p]]
  /\ \A p \in DOMAIN h : Proper(h[p])

(* An item is a sequence of its width. *)
LEMMA ItemFacts ==
  ASSUME NEW item \in Item
  PROVE  /\ item \in Seq(Value)
         /\ Len(item) \in {1, 2} /\ DOMAIN item = 1 .. Len(item)
         /\ item[1] \in Value
         /\ Len(item) = 2 => item[2] \in Value
<1>1. PICK n \in {1, 2} : item \in [1 .. n -> Value]
  BY DEF Item
<1>2. item \in Seq(Value)
  BY <1>1, IsASeq
<1>3. Len(item) = n
  BY <1>1, <1>2, LenProperties, SMT
<1>. QED
  BY <1>1, <1>2, <1>3

LEMMA KindItem ==
  ASSUME NEW kind, NEW item \in ItemOf(kind)
  PROVE  item \in Item /\ Len(item) = Width(kind)
<1>1. item \in Item
  BY DEF ItemOf, Item, Width
<1>2. DOMAIN item = 1 .. Width(kind) /\ Width(kind) \in Nat
  BY DEF ItemOf, Width
<1>3. DOMAIN item = 1 .. Len(item) /\ Len(item) \in Nat
  BY <1>1, ItemFacts
<1>. QED
  BY <1>1, <1>2, <1>3

-------------------------------------------------------------------------------
(* Places of values, and how many of them refer to one. *)

(* How many of the places C refer to q; Refs counts those of some containers. *)
Count(h, C, q) == Cardinality({c \in C : At(h, c) = q})
All(h) == Cells(h, DOMAIN h)

LEMMA CellIs ==
  ASSUME NEW h, NEW S, NEW c
  PROVE  c \in Cells(h, S) <=>
           \E p \in S : \E i \in DOMAIN h[p].items : \E j \in DOMAIN h[p].items[i] : c = <<p, i, j>>
BY DEF Cells

LEMMA CellIn ==
  ASSUME NEW h, NEW p, NEW c
  PROVE  c \in Cells(h, {p}) <=>
           \E k \in DOMAIN h[p].items : \E j \in DOMAIN h[p].items[k] : c = <<p, k, j>>
BY CellIs

LEMMA CellsOfUnion ==
  ASSUME NEW h, NEW S, NEW T
  PROVE  /\ Cells(h, S \cup T) = Cells(h, S) \cup Cells(h, T)
         /\ S \subseteq T => Cells(h, S) \subseteq Cells(h, T)
         /\ S \cap T = {} => Cells(h, S) \cap Cells(h, T) = {}
         /\ Cells(h, {}) = {}
BY CellIs

(* Containers that hold the same have the same places. *)
LEMMA CellsSame ==
  ASSUME NEW h, NEW g, NEW S, \A p \in S : h[p].items = g[p].items
  PROVE  /\ Cells(h, S) = Cells(g, S)
         /\ \A c \in Cells(h, S) : At(h, c) = At(g, c)
<1>1. ASSUME NEW c PROVE c \in Cells(h, S) <=> c \in Cells(g, S)
  BY CellIs
<1>2. ASSUME NEW c \in Cells(h, S) PROVE At(h, c) = At(g, c)
  BY CellIs DEF At
<1>. QED
  BY <1>1, <1>2

(* A place is in a container, and what is there is a value. *)
LEMMA CellFacts ==
  ASSUME NEW h, HeapTyped(h), NEW S, S \subseteq DOMAIN h, NEW c \in Cells(h, S)
  PROVE  /\ c[1] \in S /\ c[2] \in 1 .. MaxItems /\ c[3] \in {1, 2}
         /\ c[2] \in 1 .. Len(h[c[1]].items) /\ c[3] \in 1 .. Len(h[c[1]].items[c[2]])
         /\ c = <<c[1], c[2], c[3]>>
         /\ At(h, c) \in Value
<1>1. PICK p \in S : \E i \in DOMAIN h[p].items : \E j \in DOMAIN h[p].items[i] : c = <<p, i, j>>
  BY CellIs
<1>2. PICK i \in DOMAIN h[p].items : \E j \in DOMAIN h[p].items[i] : c = <<p, i, j>>
  BY <1>1
<1>3. PICK j \in DOMAIN h[p].items[i] : c = <<p, i, j>>
  BY <1>2
<1>4. h[p].items \in Seq(Item) /\ Len(h[p].items) <= MaxItems
  BY DEF HeapTyped, Proper, Node
<1>5. i \in 1 .. Len(h[p].items) /\ h[p].items[i] \in Item /\ Len(h[p].items) \in Nat
  BY <1>4
<1>6. j \in 1 .. Len(h[p].items[i]) /\ Len(h[p].items[i]) \in {1, 2} /\ h[p].items[i][j] \in Value
  BY <1>5, ItemFacts
<1>7. c[1] = p /\ c[2] = i /\ c[3] = j
  BY <1>3
<1>8. i \in 1 .. MaxItems
  BY <1>4, <1>5, HandleConstants
<1>9. j \in {1, 2}
  BY <1>6
<1>. QED
  BY <1>3, <1>5, <1>6, <1>7, <1>8, <1>9 DEF At

LEMMA CellsBounded ==
  ASSUME NEW h, NEW S, IsFiniteSet(S),
         \A c \in Cells(h, S) : /\ c[1] \in S /\ c[2] \in 1 .. MaxItems /\ c[3] \in {1, 2}
                                /\ c = <<c[1], c[2], c[3]>>
  PROVE  IsFiniteSet(Cells(h, S))
<1>. DEFINE P == (S \X (1 .. MaxItems)) \X (1 .. 2)
            f == [c \in Cells(h, S) |-> <<<<c[1], c[2]>>, c[3]>>]
<1>1. IsFiniteSet(P)
  <2>1. 1 \in Int /\ 2 \in Int /\ MaxItems \in Int /\ IsFiniteSet(S)
    BY HandleConstants
  <2>2. IsFiniteSet(1 .. MaxItems) /\ IsFiniteSet(1 .. 2)
    BY ONLY <2>1, FS_Interval
  <2>3. IsFiniteSet(S \X (1 .. MaxItems))
    BY <2>2, FS_Product
  <2>. QED
    BY <2>2, <2>3, FS_Product
<1>2. f \in [Cells(h, S) -> P]
  OBVIOUS
<1>3. \A c, d \in Cells(h, S) : f[c] = f[d] => c = d
  <2>1. SUFFICES ASSUME NEW c \in Cells(h, S), NEW d \in Cells(h, S), f[c] = f[d] PROVE c = d
    OBVIOUS
  <2>2. c[1] = d[1] /\ c[2] = d[2] /\ c[3] = d[3]
    BY <2>1
  <2>3. c = <<c[1], c[2], c[3]>> /\ d = <<d[1], d[2], d[3]>>
    OBVIOUS
  <2>. QED
    BY <2>2, <2>3
<1>. HIDE DEF P, f
<1>4. f \in Injection(Cells(h, S), P)
  BY <1>2, <1>3 DEF Injection, IsInjective
<1>. QED
  BY <1>1, <1>4, FS_Injection

LEMMA CellsFinite ==
  ASSUME NEW h, HeapTyped(h), NEW S, S \subseteq DOMAIN h
  PROVE  IsFiniteSet(Cells(h, S))
<1>1. IsFiniteSet(S)
  BY HandleConstants, FS_Subset DEF HeapTyped
<1>. QED
  BY <1>1, CellFacts, CellsBounded

LEMMA CountFacts ==
  ASSUME NEW h, NEW C, IsFiniteSet(C), NEW q
  PROVE  /\ Count(h, C, q) \in Nat
         /\ Count(h, C, q) = 0 <=> \A c \in C : At(h, c) # q
<1>. DEFINE T == {c \in C : At(h, c) = q}
<1>1. IsFiniteSet(T)
  BY FS_Subset
<1>2. Cardinality(T) \in Nat /\ (Cardinality(T) = 0 <=> T = {})
  BY <1>1, FS_CardinalityType, FS_EmptySet
<1>. QED
  BY <1>2 DEF Count

(* Counts of different places add up. *)
LEMMA CountSum ==
  ASSUME NEW h, NEW C, IsFiniteSet(C), NEW D, IsFiniteSet(D), C \cap D = {}, NEW q
  PROVE  Count(h, C \cup D, q) = Count(h, C, q) + Count(h, D, q)
<1>. DEFINE S == {c \in C : At(h, c) = q}
            T == {c \in D : At(h, c) = q}
<1>1. IsFiniteSet(S) /\ IsFiniteSet(T)
  BY FS_Subset
<1>2. S \cap T = {} /\ {c \in C \cup D : At(h, c) = q} = S \cup T
  OBVIOUS
<1>. HIDE DEF S, T
<1>3. Cardinality(S \cup T) = Cardinality(S) + Cardinality(T) - Cardinality(S \cap T)
  BY <1>1, FS_Union
<1>4. Cardinality(S) \in Nat /\ Cardinality(T) \in Nat /\ Cardinality(S \cap T) = 0
  BY <1>1, <1>2, FS_CardinalityType, FS_EmptySet
<1>5. Cardinality(S \cup T) = Cardinality(S) + Cardinality(T)
  BY <1>3, <1>4
<1>. QED
  BY <1>2, <1>5 DEF Count, S, T

LEMMA CountSame ==
  ASSUME NEW h, NEW g, NEW C, \A c \in C : At(h, c) = At(g, c), NEW q
  PROVE  Count(h, C, q) = Count(g, C, q)
<1>1. {c \in C : At(h, c) = q} = {c \in C : At(g, c) = q}
  OBVIOUS
<1>. QED
  BY <1>1 DEF Count

LEMMA CountNone == ASSUME NEW h, NEW q PROVE Count(h, {}, q) = 0
<1>1. {c \in {} : At(h, c) = q} = {}
  OBVIOUS
<1>. QED
  BY <1>1, FS_EmptySet DEF Count

(* One place *)
LEMMA CountOne ==
  ASSUME NEW h, NEW c, NEW q
  PROVE  Count(h, {c}, q) = IF At(h, c) = q THEN 1 ELSE 0
<1>1. CASE At(h, c) = q
  <2>1. {d \in {c} : At(h, d) = q} = {c}
    BY <1>1
  <2>. QED
    BY <1>1, <2>1, FS_Singleton DEF Count
<1>2. CASE At(h, c) # q
  <2>1. {d \in {c} : At(h, d) = q} = {}
    BY <1>2
  <2>. QED
    BY <1>2, <2>1, FS_EmptySet DEF Count
<1>. QED
  BY <1>1, <1>2

-------------------------------------------------------------------------------
(* What goes with the last reference to a value: the rounds of Freed come to
   an end, as each adds to the one before. *)

FreedSteps(h, v, k, f) ==
  f = [n \in 0 .. k |-> IF n = 0 THEN {} ELSE Unheld(h, f[n - 1], v)]

LEMMA FreedStepsExist ==
  ASSUME NEW h, NEW v, NEW m \in Nat
  PROVE  \E f : FreedSteps(h, v, m, f)
<1>. DEFINE T == {k \in Nat : ~ \E f : FreedSteps(h, v, k, f)}
<1>1. SUFFICES ASSUME T # {} PROVE FALSE
  OBVIOUS
<1>2. PICK k \in T : \A j \in T : ~(j < k)
  BY <1>1, LeastOf
<1>3. k \in Nat /\ ~ \E f : FreedSteps(h, v, k, f)
  BY <1>2
<1>4. CASE k = 0
  <2>. DEFINE f == [n \in 0 .. 0 |-> {}]
  <2>1. FreedSteps(h, v, 0, f)
    BY DEF FreedSteps
  <2>. QED
    BY <1>3, <1>4, <2>1
<1>5. CASE k # 0
  <2>1. k - 1 \in Nat /\ k - 1 < k
    BY <1>3, <1>5
  <2>2. PICK f : FreedSteps(h, v, k - 1, f)
    BY <1>2, <2>1
  <2>. DEFINE g == [n \in 0 .. k |-> IF n = k THEN Unheld(h, f[k - 1], v) ELSE f[n]]
  <2>3. \A n \in 0 .. k - 1 : f[n] = IF n = 0 THEN {} ELSE Unheld(h, f[n - 1], v)
    BY <2>2 DEF FreedSteps
  <2>4. \A n \in 0 .. k : g[n] = IF n = 0 THEN {} ELSE Unheld(h, g[n - 1], v)
    <3>. TAKE n \in 0 .. k
    <3>1. CASE n = k
      BY <1>3, <1>5, <2>1, <3>1
    <3>2. CASE n # k /\ n # 0
      <4>1. n \in 0 .. k - 1 /\ n - 1 \in 0 .. k /\ n - 1 # k
        BY <1>3, <3>2
      <4>. QED
        BY <2>3, <3>2, <4>1
    <3>3. CASE n # k /\ n = 0
      BY <1>3, <2>1, <2>3, <3>3
    <3>. QED
      BY <3>1, <3>2, <3>3
  <2>5. FreedSteps(h, v, k, g)
    BY <2>4 DEF FreedSteps
  <2>. QED
    BY <1>3, <2>5
<1>. QED
  BY <1>4, <1>5

LEMMA FreedIs ==
  ASSUME NEW h, NEW v, IsFiniteSet(DOMAIN h)
  PROVE  \E f : /\ FreedSteps(h, v, Cardinality(DOMAIN h), f)
                /\ Freed(h, v) = f[Cardinality(DOMAIN h)]
<1>. DEFINE k == Cardinality(DOMAIN h)
            f == CHOOSE g : FreedSteps(h, v, k, g)
<1>1. k \in Nat
  BY FS_CardinalityType
<1>2. FreedSteps(h, v, k, f)
  BY <1>1, FreedStepsExist
<1>3. Freed(h, v) = f[k]
  BY DEF Freed, FreedSteps
<1>. QED
  BY <1>2, <1>3

LEMMA HeapFinite ==
  ASSUME NEW h, HeapTyped(h)
  PROVE  IsFiniteSet(DOMAIN h) /\ \A S : S \subseteq DOMAIN h => IsFiniteSet(S)
<1>1. IsFiniteSet(DOMAIN h)
  BY HandleConstants, FS_Subset DEF HeapTyped
<1>. QED
  BY <1>1, FS_Subset

LEMMA RefsNat ==
  ASSUME NEW h, HeapTyped(h), NEW S, S \subseteq DOMAIN h, NEW q
  PROVE  Refs(h, S, q) \in Nat /\ Refs(h, S, q) = Count(h, Cells(h, S), q)
<1>1. Refs(h, S, q) = Count(h, Cells(h, S), q)
  BY DEF Refs, Count
<1>. QED
  BY <1>1, CellsFinite, CountFacts

(* References from more containers are more. *)
LEMMA RefsGrow ==
  ASSUME NEW h, HeapTyped(h), NEW S, S \subseteq DOMAIN h, NEW T, T \subseteq S, NEW q
  PROVE  Refs(h, T, q) <= Refs(h, S, q)
<1>. DEFINE A == Cells(h, T)
            B == Cells(h, S \ T)
<1>1. IsFiniteSet(A) /\ IsFiniteSet(B)
  BY CellsFinite
<1>2. A \cap B = {} /\ Cells(h, S) = A \cup B
  <2>1. T \cap (S \ T) = {} /\ T \cup (S \ T) = S
    OBVIOUS
  <2>2. A \cap B = {} /\ Cells(h, T \cup (S \ T)) = A \cup B
    BY <2>1, CellsOfUnion
  <2>. QED
    BY <2>1, <2>2
<1>. HIDE DEF A, B
<1>3. Count(h, A \cup B, q) = Count(h, A, q) + Count(h, B, q)
  BY <1>1, <1>2, CountSum
<1>4. Count(h, A, q) \in Nat /\ Count(h, B, q) \in Nat
  BY <1>1, CountFacts
<1>5. Refs(h, S, q) = Count(h, A \cup B, q)
  BY <1>2, RefsNat
<1>6. Refs(h, T, q) = Count(h, A, q)
  BY RefsNat DEF A
<1>. QED
  BY <1>3, <1>4, <1>5, <1>6

LEMMA UnheldGrows ==
  ASSUME NEW h, HeapTyped(h), NEW S, S \subseteq DOMAIN h, NEW T, T \subseteq S, NEW v
  PROVE  Unheld(h, T, v) \subseteq Unheld(h, S, v)
<1>1. SUFFICES ASSUME NEW q \in Unheld(h, T, v) PROVE q \in Unheld(h, S, v)
  OBVIOUS
<1>2. q \in DOMAIN h /\ Refs(h, T, q) + (IF q = v THEN 1 ELSE 0) >= h[q].cnt
  BY DEF Unheld
<1>3. Refs(h, T, q) <= Refs(h, S, q)
  BY RefsGrow
<1>4. Refs(h, T, q) \in Nat /\ Refs(h, S, q) \in Nat
  BY RefsNat
<1>5. h[q].cnt \in Nat
  BY <1>2 DEF HeapTyped, Proper, Node
<1>6. Refs(h, S, q) + (IF q = v THEN 1 ELSE 0) >= h[q].cnt
  BY <1>2, <1>3, <1>4, <1>5
<1>. QED
  BY <1>2, <1>6 DEF Unheld

(* Nothing else is unheld when what is freed is gone. *)
LEMMA FreedFixed ==
  ASSUME NEW h, HeapTyped(h), NEW v
  PROVE  Freed(h, v) \subseteq DOMAIN h /\ Unheld(h, Freed(h, v), v) = Freed(h, v)
<1>. DEFINE k == Cardinality(DOMAIN h)
            After(S) == Unheld(h, S, v)
<1>1. IsFiniteSet(DOMAIN h) /\ k \in Nat
  BY HeapFinite, FS_CardinalityType
<1>2. PICK f : FreedSteps(h, v, k, f) /\ Freed(h, v) = f[k]
  BY <1>1, FreedIs
<1>3. ASSUME NEW n \in 0 .. k
      PROVE  f[n] = IF n = 0 THEN {} ELSE After(f[n - 1])
  BY <1>2 DEF FreedSteps
<1>4. ASSUME NEW n \in 0 .. k PROVE f[n] \subseteq DOMAIN h
  BY <1>3 DEF Unheld
<1>. HIDE DEF k
<1>. DEFINE Grows(n) == f[n] \subseteq After(f[n])
            Long(n) == After(f[n]) = f[n] \/ Cardinality(f[n]) >= n
            T == {n \in 0 .. k : ~(Grows(n) /\ Long(n))}
<1>5. T = {}
  <2>1. SUFFICES ASSUME T # {} PROVE FALSE
    OBVIOUS
  <2>2. PICK n \in T : \A m \in T : ~(m < n)
    <3>1. T \subseteq Nat
      BY <1>1
    <3>. HIDE DEF T
    <3>. QED
      BY <2>1, <3>1, LeastOf
  <2>3. n \in 0 .. k /\ ~(Grows(n) /\ Long(n))
    BY <2>2
  <2>4. CASE n = 0
    <3>1. f[0] = {}
      BY <1>1, <1>3
    <3>2. Cardinality(f[0]) = 0
      BY <3>1, FS_EmptySet
    <3>. QED
      BY <2>3, <2>4, <3>1, <3>2
  <2>5. CASE n # 0
    <3>1. n - 1 \in 0 .. k /\ n - 1 < n
      BY <1>1, <2>3, <2>5
    <3>2. Grows(n - 1) /\ Long(n - 1)
      BY <2>2, <3>1
    <3>. DEFINE A == f[n - 1]
                B == f[n]
    <3>3. B = After(A) /\ A \subseteq B /\ A \subseteq DOMAIN h /\ B \subseteq DOMAIN h
      BY <1>3, <1>4, <2>3, <2>5, <3>1, <3>2
    <3>4. B \subseteq After(B)
      BY <3>3, UnheldGrows
    <3>5. After(B) = B \/ Cardinality(B) >= n
      <4>1. CASE After(A) = A
        BY <3>3, <4>1
      <4>2. CASE A # B
        <5>1. Cardinality(A) >= n - 1
          BY <3>2, <3>3, <4>2
        <5>2. IsFiniteSet(B) /\ Cardinality(A) <= Cardinality(B) /\ Cardinality(A) # Cardinality(B)
          <6>1. IsFiniteSet(B)
            BY <3>3, HeapFinite
          <6>. QED
            BY <3>3, <4>2, <6>1, FS_Subset
        <5>3. Cardinality(A) \in Nat /\ Cardinality(B) \in Nat /\ n \in Nat
          BY <1>1, <2>3, <3>3, <5>2, FS_CardinalityType, FS_Subset
        <5>. QED
          BY <5>1, <5>2, <5>3
      <4>. QED
        BY <3>3, <4>1, <4>2
    <3>. QED
      BY <2>3, <3>4, <3>5
  <2>. QED
    BY <2>4, <2>5
<1>6. Grows(k) /\ Long(k) /\ f[k] \subseteq DOMAIN h
  BY <1>1, <1>4, <1>5
<1>7. CASE Cardinality(f[k]) >= k
  <2>1. Cardinality(f[k]) <= Cardinality(DOMAIN h)
        /\ (Cardinality(DOMAIN h) = Cardinality(f[k]) => DOMAIN h = f[k])
    BY <1>1, <1>6, FS_Subset
  <2>2. Cardinality(f[k]) \in Nat
    BY <1>1, <1>6, FS_CardinalityType, FS_Subset
  <2>3. f[k] = DOMAIN h
    BY <1>1, <1>7, <2>1, <2>2 DEF k
  <2>4. After(f[k]) \subseteq DOMAIN h
    BY DEF Unheld
  <2>. QED
    BY <1>2, <1>6, <2>3, <2>4
<1>8. CASE After(f[k]) = f[k]
  BY <1>2, <1>6, <1>8
<1>. QED
  BY <1>6, <1>7, <1>8

(* A value that others hold whatever goes but it stays. *)
LEMMA FreedAvoids ==
  ASSUME NEW h, HeapTyped(h), NEW v, NEW p,
         ASSUME NEW S, S \subseteq DOMAIN h, p \notin S PROVE p \notin Unheld(h, S, v)
  PROVE  p \notin Freed(h, v)
<1>. DEFINE k == Cardinality(DOMAIN h)
<1>1. IsFiniteSet(DOMAIN h) /\ k \in Nat
  BY HeapFinite, FS_CardinalityType
<1>2. PICK f : FreedSteps(h, v, k, f) /\ Freed(h, v) = f[k]
  BY <1>1, FreedIs
<1>3. ASSUME NEW n \in 0 .. k
      PROVE  f[n] = IF n = 0 THEN {} ELSE Unheld(h, f[n - 1], v)
  BY <1>2 DEF FreedSteps
<1>4. ASSUME NEW n \in 0 .. k PROVE f[n] \subseteq DOMAIN h
  BY <1>3 DEF Unheld
<1>. HIDE DEF k
<1>. DEFINE T == {n \in 0 .. k : p \in f[n]}
<1>5. T = {}
  <2>1. SUFFICES ASSUME T # {} PROVE FALSE
    OBVIOUS
  <2>2. PICK n \in T : \A m \in T : ~(m < n)
    <3>1. T \subseteq Nat
      BY <1>1
    <3>. HIDE DEF T
    <3>. QED
      BY <2>1, <3>1, LeastOf
  <2>3. n \in 0 .. k /\ p \in f[n]
    BY <2>2
  <2>4. n # 0
    BY <1>3, <2>3
  <2>5. n - 1 \in 0 .. k /\ n - 1 < n /\ f[n] = Unheld(h, f[n - 1], v)
    BY <1>1, <1>3, <2>3, <2>4
  <2>6. p \notin f[n - 1] /\ f[n - 1] \subseteq DOMAIN h
    BY <1>4, <2>2, <2>5
  <2>. QED
    BY <2>3, <2>5, <2>6
<1>. QED
  BY <1>1, <1>2, <1>5

-------------------------------------------------------------------------------
(* A heap whose counters are even: each counts the places of containers that
   refer to the value, but for the places X, whose references are given up
   while the item still stands there, and the references o from elsewhere. *)

Good(h, X, o) ==
  /\ HeapTyped(h)
  /\ o \in [Addresses -> Nat]
  /\ \A q \in Addresses : o[q] > 0 => q \in DOMAIN h
  /\ X \subseteq All(h)
  /\ \A c \in All(h) \ X : At(h, c) \in DOMAIN h \cup Statics
  /\ \A q \in DOMAIN h : h[q].cnt = o[q] + Count(h, All(h) \ X, q)

Plus(o, p)  == [q \in Addresses |-> o[q] + IF q = p THEN 1 ELSE 0]
Minus(o, p) == [q \in Addresses |-> o[q] - IF q = p THEN 1 ELSE 0]

Alive(h, p) == p \in DOMAIN h \cup Statics

(* Nothing is added, and what remains keeps its kind and its items. *)
Keeps(h, g) ==
  /\ DOMAIN g \subseteq DOMAIN h
  /\ \A q \in DOMAIN g : g[q].kind = h[q].kind /\ g[q].items = h[q].items

LEMMA KeptCells ==
  ASSUME NEW h, NEW g, Keeps(h, g)
  PROVE  /\ Cells(h, DOMAIN g) = All(g)
         /\ \A c \in All(g) : At(g, c) = At(h, c)
         /\ DOMAIN g = DOMAIN h => All(g) = All(h)
<1>1. \A q \in DOMAIN g : h[q].items = g[q].items
  BY DEF Keeps
<1>2. Cells(h, DOMAIN g) = Cells(g, DOMAIN g) /\ \A c \in Cells(h, DOMAIN g) : At(h, c) = At(g, c)
  BY <1>1, CellsSame
<1>. QED
  BY <1>2 DEF All

LEMMA StaticsApart == \A p \in Statics : p \notin Addresses
BY HandleConstants DEF Statics

LEMMA HeldAlive ==
  ASSUME NEW h, NEW X, NEW o, Good(h, X, o), NEW p \in Value, p \in Addresses => o[p] > 0
  PROVE  Alive(h, p)
BY DEF Good, Alive, Value

(* jvalue_copy *)
LEMMA CopiedGood ==
  ASSUME NEW h, NEW X, NEW o, Good(h, X, o), NEW p, Alive(h, p)
  PROVE  /\ Good(Copied(h, p), X, Plus(o, p))
         /\ Keeps(h, Copied(h, p)) /\ DOMAIN Copied(h, p) = DOMAIN h
<1>. DEFINE g == Copied(h, p)
<1>1. CASE p \notin DOMAIN h
  <2>1. g = h /\ p \notin Addresses
    BY <1>1, StaticsApart DEF Copied, Alive
  <2>2. Plus(o, p) = o
    BY <2>1 DEF Good, Plus
  <2>. QED
    BY <2>1, <2>2 DEF Keeps
<1>2. CASE p \in DOMAIN h
  <2>1. HeapTyped(h) /\ p \in Addresses
    BY <1>2 DEF Good, HeapTyped
  <2>2. ASSUME NEW q \in DOMAIN h PROVE h[q] \in Node
    BY <2>1 DEF HeapTyped, Proper
  <2>3. /\ DOMAIN g = DOMAIN h
        /\ g = [q \in DOMAIN g |-> g[q]]
        /\ \A q \in DOMAIN h : q # p => g[q] = h[q]
        /\ g[p] = [h[p] EXCEPT !.cnt = h[p].cnt + 1]
    BY <1>2, <2>1 DEF Copied, HeapTyped
  <2>4. /\ g[p].kind = h[p].kind /\ g[p].text = h[p].text /\ g[p].items = h[p].items
        /\ g[p].cnt = h[p].cnt + 1
        /\ g[p] \in Node
    <3>1. h[p] \in Node /\ g[p] = [h[p] EXCEPT !.cnt = h[p].cnt + 1]
      BY <1>2, <2>2, <2>3
    <3>. HIDE DEF g
    <3>. QED
      BY <3>1 DEF Node
  <2>5. HeapTyped(g)
    <3>1. Proper(h[p]) /\ h[p].cnt \in Nat
      BY <1>2, <2>1, <2>2 DEF HeapTyped, Node
    <3>2. Proper(g[p])
      BY <2>4, <3>1 DEF Proper
    <3>3. \A q \in DOMAIN h : Proper(g[q])
      BY <2>1, <2>3, <3>2 DEF HeapTyped
    <3>. HIDE DEF g
    <3>. QED
      BY <2>1, <2>3, <3>3 DEF HeapTyped
  <2>6. Keeps(h, g)
    BY <2>3, <2>4 DEF Keeps
  <2>7. All(g) = All(h) /\ \A c \in All(h) : At(g, c) = At(h, c)
    BY <2>3, <2>6, KeptCells
  <2>. HIDE DEF g
  <2>8. Plus(o, p) \in [Addresses -> Nat] /\ \A q \in Addresses : Plus(o, p)[q] > 0 => q \in DOMAIN g
    BY <1>2, <2>3 DEF Good, Plus
  <2>9. ASSUME NEW q \in DOMAIN g
        PROVE  g[q].cnt = Plus(o, p)[q] + Count(g, All(g) \ X, q)
    <3>1. Count(g, All(g) \ X, q) = Count(h, All(h) \ X, q)
      BY <2>7, CountSame
    <3>2. h[q].cnt = o[q] + Count(h, All(h) \ X, q)
      BY <2>3 DEF Good
    <3>3. q \in Addresses /\ o[q] \in Nat
      BY <2>1, <2>3 DEF Good, HeapTyped
    <3>4. Count(h, All(h) \ X, q) \in Nat
      BY <2>1, CellsFinite, CountFacts, FS_Subset DEF All
    <3>5. g[q].cnt = h[q].cnt + IF q = p THEN 1 ELSE 0
      BY <2>2, <2>3, <2>4 DEF Node
    <3>6. Plus(o, p)[q] = o[q] + IF q = p THEN 1 ELSE 0
      BY <3>3 DEF Plus
    <3>. QED
      BY <3>1, <3>2, <3>3, <3>4, <3>5, <3>6
  <2>10. X \subseteq All(g) /\ \A c \in All(g) \ X : At(g, c) \in DOMAIN g \cup Statics
    BY <2>3, <2>7 DEF Good
  <2>. QED
    BY <2>3, <2>5, <2>6, <2>8, <2>9, <2>10 DEF Good, g
<1>. QED
  BY <1>1, <1>2

(* What is freed with v is held by nothing else, when the places X are of a
   value that is held from elsewhere. *)
LEMMA FreedGood ==
  ASSUME NEW h, NEW X, NEW o, Good(h, X, o), NEW v \in DOMAIN h, o[v] > 0, h[v].cnt = 1,
         NEW p, X # {} => X \subseteq Cells(h, {p}) /\ p \in DOMAIN h /\ Minus(o, v)[p] > 0
  PROVE  LET F == Freed(h, v)
         IN  /\ F \subseteq DOMAIN h /\ v \in F
             /\ X # {} => p \notin F
             /\ X \cap Cells(h, F) = {}
             /\ \A q \in F : Minus(o, v)[q] = 0
             /\ \A q \in F : \A c \in All(h) \ X : At(h, c) = q => c \in Cells(h, F)
             /\ \A q \in DOMAIN h \ F : h[q].cnt > Refs(h, F, q)
<1>. DEFINE F == Freed(h, v)
            One(q) == IF q = v THEN 1 ELSE 0
<1>1. HeapTyped(h) /\ v \in Addresses
  BY DEF Good, HeapTyped
<1>2. F \subseteq DOMAIN h /\ F = Unheld(h, F, v)
  BY <1>1, FreedFixed
<1>3. ASSUME NEW S, S \subseteq DOMAIN h, X \cap Cells(h, S) = {}, NEW q \in DOMAIN h
      PROVE  /\ Refs(h, S, q) \in Nat /\ o[q] \in Nat /\ h[q].cnt \in Nat
             /\ Count(h, (All(h) \ X) \ Cells(h, S), q) \in Nat
             /\ h[q].cnt = o[q] + Refs(h, S, q) + Count(h, (All(h) \ X) \ Cells(h, S), q)
  <2>. DEFINE A == Cells(h, S)
              B == (All(h) \ X) \ Cells(h, S)
  <2>1. A \subseteq All(h)
    BY <1>3, CellsOfUnion DEF All
  <2>2. IsFiniteSet(A) /\ IsFiniteSet(B)
    BY <1>1, <1>3, CellsFinite, FS_Subset DEF All
  <2>3. A \cup B = All(h) \ X /\ A \cap B = {}
    BY <1>3, <2>1
  <2>4. Refs(h, S, q) = Count(h, A, q)
    BY <1>1, <1>3, RefsNat
  <2>5. q \in Addresses /\ o[q] \in Nat /\ h[q].cnt = o[q] + Count(h, All(h) \ X, q)
    BY <1>1 DEF Good, HeapTyped
  <2>. HIDE DEF A, B
  <2>6. Count(h, All(h) \ X, q) = Count(h, A, q) + Count(h, B, q)
    <3>1. Count(h, A \cup B, q) = Count(h, A, q) + Count(h, B, q)
      BY <2>2, <2>3, CountSum
    <3>. QED
      BY <2>3, <3>1
  <2>7. Count(h, A, q) \in Nat /\ Count(h, B, q) \in Nat
    BY <2>2, CountFacts
  <2>8. h[q].cnt = o[q] + Count(h, A, q) + Count(h, B, q)
    BY <2>5, <2>6, <2>7
  <2>. QED
    BY <2>4, <2>5, <2>7, <2>8 DEF B
<1>4. ASSUME X # {}, NEW S, p \notin S, S \subseteq DOMAIN h PROVE X \cap Cells(h, S) = {}
  <2>1. {p} \cap S = {} /\ X \subseteq Cells(h, {p})
    BY <1>4
  <2>. QED
    BY <2>1, CellsOfUnion
<1>5. ASSUME X # {} PROVE p \notin F
  <2>1. ASSUME NEW S, S \subseteq DOMAIN h, p \notin S PROVE p \notin Unheld(h, S, v)
    <3>1. X \cap Cells(h, S) = {}
      BY <1>4, <1>5, <2>1
    <3>2. p \in DOMAIN h /\ p \in Addresses /\ Minus(o, v)[p] > 0
      BY <1>1, <1>5 DEF HeapTyped
    <3>3. o[p] - One(p) > 0
      BY <3>2 DEF Minus
    <3>4. /\ Refs(h, S, p) \in Nat /\ o[p] \in Nat /\ h[p].cnt \in Nat
          /\ Count(h, (All(h) \ X) \ Cells(h, S), p) \in Nat
          /\ h[p].cnt = o[p] + Refs(h, S, p) + Count(h, (All(h) \ X) \ Cells(h, S), p)
      BY <1>3, <2>1, <3>1, <3>2
    <3>5. ~(Refs(h, S, p) + One(p) >= h[p].cnt)
      BY <3>3, <3>4
    <3>. QED
      BY <3>5 DEF Unheld
  <2>. QED
    BY <1>1, <2>1, FreedAvoids
<1>6. X \cap Cells(h, F) = {}
  BY <1>2, <1>4, <1>5
<1>. HIDE DEF F
<1>7. ASSUME NEW q \in DOMAIN h
      PROVE  q \in F <=> Refs(h, F, q) + One(q) >= h[q].cnt
  BY <1>2 DEF Unheld
<1>8. v \in F
  <2>1. Refs(h, F, v) \in Nat
    BY <1>2, <1>3, <1>6
  <2>. QED
    BY <1>7, <2>1
<1>9. ASSUME NEW q \in F
      PROVE  /\ Minus(o, v)[q] = 0
             /\ Count(h, (All(h) \ X) \ Cells(h, F), q) = 0
  <2>1. q \in DOMAIN h /\ q \in Addresses
    BY <1>1, <1>2 DEF HeapTyped
  <2>2. /\ Refs(h, F, q) \in Nat /\ o[q] \in Nat /\ h[q].cnt \in Nat
        /\ Count(h, (All(h) \ X) \ Cells(h, F), q) \in Nat
        /\ h[q].cnt = o[q] + Refs(h, F, q) + Count(h, (All(h) \ X) \ Cells(h, F), q)
    BY <1>2, <1>3, <1>6, <2>1
  <2>3. Refs(h, F, q) + One(q) >= h[q].cnt
    BY <1>7, <2>1
  <2>4. Minus(o, v)[q] = o[q] - One(q)
    BY <2>1 DEF Minus
  <2>5. q = v => o[q] > 0
    OBVIOUS
  <2>. QED
    BY <2>2, <2>3, <2>4, <2>5
<1>10. ASSUME NEW q \in F, NEW c \in All(h) \ X, At(h, c) = q PROVE c \in Cells(h, F)
  <2>1. IsFiniteSet((All(h) \ X) \ Cells(h, F))
    BY <1>1, CellsFinite, FS_Subset DEF All
  <2>2. \A d \in (All(h) \ X) \ Cells(h, F) : At(h, d) # q
    BY <1>9, <2>1, CountFacts
  <2>. QED
    BY <1>10, <2>2
<1>11. ASSUME NEW q \in DOMAIN h \ F PROVE h[q].cnt > Refs(h, F, q)
  <2>1. Refs(h, F, q) \in Nat /\ h[q].cnt \in Nat
    BY <1>2, <1>3, <1>6
  <2>2. ~(Refs(h, F, q) + One(q) >= h[q].cnt)
    BY <1>7
  <2>. QED
    BY <2>1, <2>2
<1>. QED
  BY <1>2, <1>5, <1>6, <1>8, <1>9, <1>10, <1>11 DEF F

(* j_release: the references in the places X stay given up, as long as what
   they are in is held from elsewhere. *)
LEMMA ReleasedGood ==
  ASSUME NEW h, NEW X, NEW o, Good(h, X, o), NEW v \in Value, v \in Addresses => o[v] > 0,
         NEW p, X # {} => X \subseteq Cells(h, {p}) /\ p \in DOMAIN h /\ Minus(o, v)[p] > 0
  PROVE  Good(Released(h, v), X, Minus(o, v)) /\ Keeps(h, Released(h, v))
<1>. DEFINE g == Released(h, v)
            r == Minus(o, v)
<1>1. HeapTyped(h)
  BY DEF Good
<1>2. CASE v \notin DOMAIN h
  <2>1. g = h
    BY <1>2 DEF Released
  <2>2. v \notin Addresses
    BY <1>2 DEF Good
  <2>3. r = o
    BY <2>2 DEF Good, Minus
  <2>. QED
    BY <2>1, <2>3 DEF Keeps
<1>3. r \in [Addresses -> Nat]
  <2>1. ASSUME NEW q \in Addresses PROVE o[q] - (IF q = v THEN 1 ELSE 0) \in Nat
    <3>1. o[q] \in Nat /\ (q = v => o[q] > 0)
      BY DEF Good
    <3>. QED
      BY <3>1
  <2>. QED
    BY <2>1 DEF Minus
<1>4. ASSUME NEW q \in Addresses PROVE r[q] > 0 => o[q] > 0
  <2>1. r[q] = o[q] - (IF q = v THEN 1 ELSE 0) /\ o[q] \in Nat
    BY DEF Good, Minus
  <2>. QED
    BY <2>1
<1>5. ASSUME NEW q \in DOMAIN h PROVE Proper(h[q]) /\ h[q] \in Node
  BY <1>1 DEF HeapTyped, Proper
<1>6. CASE v \in DOMAIN h /\ h[v].cnt > 1
  <2>1. /\ DOMAIN g = DOMAIN h
        /\ g = [q \in DOMAIN g |-> g[q]]
        /\ \A q \in DOMAIN h : q # v => g[q] = h[q]
        /\ g[v] = [h[v] EXCEPT !.cnt = h[v].cnt - 1]
    BY <1>1, <1>6 DEF Released, HeapTyped
  <2>2. /\ g[v].kind = h[v].kind /\ g[v].text = h[v].text /\ g[v].items = h[v].items
        /\ g[v].cnt = h[v].cnt - 1 /\ g[v].cnt > 0
        /\ g[v] \in Node
    BY <1>5, <1>6, <2>1 DEF Node
  <2>3. HeapTyped(g)
    <3>1. Proper(g[v])
      BY <1>5, <1>6, <2>2 DEF Proper
    <3>2. \A q \in DOMAIN h : Proper(g[q])
      BY <1>5, <2>1, <3>1
    <3>. HIDE DEF g
    <3>. QED
      BY <1>1, <2>1, <3>2 DEF HeapTyped
  <2>4. Keeps(h, g)
    BY <2>1, <2>2 DEF Keeps
  <2>5. All(g) = All(h) /\ \A c \in All(h) : At(g, c) = At(h, c)
    BY <2>1, <2>4, KeptCells
  <2>6. ASSUME NEW q \in DOMAIN h PROVE g[q].cnt = r[q] + Count(g, All(g) \ X, q)
    <3>1. Count(g, All(g) \ X, q) = Count(h, All(h) \ X, q)
      BY <2>5, CountSame
    <3>2. q \in Addresses /\ o[q] \in Nat /\ h[q].cnt = o[q] + Count(h, All(h) \ X, q)
      BY <1>1 DEF Good, HeapTyped
    <3>3. Count(h, All(h) \ X, q) \in Nat
      BY <1>1, CellsFinite, CountFacts, FS_Subset DEF All
    <3>4. g[q].cnt = h[q].cnt - IF q = v THEN 1 ELSE 0
      BY <1>5, <2>1, <2>2 DEF Node
    <3>5. r[q] = o[q] - IF q = v THEN 1 ELSE 0
      BY <3>2 DEF Minus
    <3>. QED
      BY <3>1, <3>2, <3>3, <3>4, <3>5
  <2>7. X \subseteq All(g) /\ \A c \in All(g) \ X : At(g, c) \in DOMAIN g \cup Statics
    BY <2>1, <2>5 DEF Good
  <2>8. \A q \in Addresses : r[q] > 0 => q \in DOMAIN g
    BY <1>4, <2>1 DEF Good
  <2>. HIDE DEF g, r
  <2>. QED
    BY <1>3, <2>1, <2>3, <2>4, <2>6, <2>7, <2>8 DEF Good, g, r
<1>7. CASE v \in DOMAIN h /\ ~(h[v].cnt > 1)
  <2>. DEFINE F == Freed(h, v)
              D == DOMAIN h \ F
  <2>1. h[v].cnt = 1 /\ v \in Addresses /\ o[v] > 0
    BY <1>1, <1>5, <1>7 DEF Node, Proper, HeapTyped
  <2>2. /\ F \subseteq DOMAIN h /\ v \in F
        /\ X # {} => p \notin F
        /\ X \cap Cells(h, F) = {}
        /\ \A q \in F : r[q] = 0
        /\ \A q \in F : \A c \in All(h) \ X : At(h, c) = q => c \in Cells(h, F)
        /\ \A q \in D : h[q].cnt > Refs(h, F, q)
    BY <1>7, <2>1, FreedGood
  <2>3. g = [q \in D |-> [h[q] EXCEPT !.cnt = h[q].cnt - Refs(h, F, q)]]
    BY <1>7 DEF Released
  <2>. HIDE DEF F, g
  <2>4. ASSUME NEW q \in D
        PROVE  /\ g[q].kind = h[q].kind /\ g[q].items = h[q].items
               /\ g[q].cnt = h[q].cnt - Refs(h, F, q)
               /\ Proper(g[q])
    <3>1. Proper(h[q]) /\ h[q] \in Node /\ Refs(h, F, q) \in Nat /\ h[q].cnt > Refs(h, F, q)
      BY <1>1, <1>5, <2>2, RefsNat
    <3>2. h[q].cnt \in Nat
      BY <3>1 DEF Node
    <3>3. h[q].cnt - Refs(h, F, q) \in Nat /\ h[q].cnt - Refs(h, F, q) > 0
      BY <3>1, <3>2
    <3>4. /\ g[q] \in Node
          /\ g[q].kind = h[q].kind /\ g[q].items = h[q].items
          /\ g[q].cnt = h[q].cnt - Refs(h, F, q)
      BY <2>3, <3>1, <3>3 DEF Node
    <3>. QED
      BY <3>1, <3>3, <3>4 DEF Proper
  <2>5. DOMAIN g = D /\ g = [q \in DOMAIN g |-> g[q]]
    BY <2>3
  <2>6. HeapTyped(g)
    BY <1>1, <2>4, <2>5 DEF HeapTyped
  <2>7. Keeps(h, g)
    BY <2>4, <2>5 DEF Keeps
  <2>8. Cells(h, D) = All(g) /\ \A c \in All(g) : At(g, c) = At(h, c)
    BY <2>5, <2>7, KeptCells
  <2>9. /\ All(h) = Cells(h, D) \cup Cells(h, F)
        /\ Cells(h, D) \cap Cells(h, F) = {}
    <3>1. D \cup F = DOMAIN h /\ D \cap F = {}
      BY <2>2
    <3>2. Cells(h, D \cup F) = Cells(h, D) \cup Cells(h, F) /\ Cells(h, D) \cap Cells(h, F) = {}
      BY <3>1, CellsOfUnion
    <3>. QED
      BY <3>1, <3>2 DEF All
  <2>10. X \subseteq All(g) /\ All(h) \ X = (All(g) \ X) \cup Cells(h, F)
         /\ (All(g) \ X) \cap Cells(h, F) = {}
    BY <2>2, <2>8, <2>9 DEF Good
  <2>11. ASSUME NEW c \in All(g) \ X PROVE At(g, c) \in DOMAIN g \cup Statics
    <3>1. c \in All(h) \ X /\ At(g, c) = At(h, c) /\ c \notin Cells(h, F)
      BY <2>8, <2>10
    <3>2. At(h, c) \in DOMAIN h \cup Statics /\ At(h, c) \notin F
      BY <2>2, <3>1 DEF Good
    <3>. QED
      BY <2>5, <3>1, <3>2
  <2>12. ASSUME NEW q \in DOMAIN g PROVE g[q].cnt = r[q] + Count(g, All(g) \ X, q)
    <3>1. q \in D /\ q \in DOMAIN h /\ q \in Addresses /\ q # v
      BY <1>1, <2>2, <2>5 DEF HeapTyped
    <3>2. h[q].cnt = o[q] + Count(h, All(h) \ X, q) /\ o[q] \in Nat /\ r[q] = o[q]
      <4>1. h[q].cnt = o[q] + Count(h, All(h) \ X, q) /\ o[q] \in Nat
        BY <3>1 DEF Good
      <4>2. r[q] = o[q] - 0
        BY <3>1 DEF Minus
      <4>. QED
        BY <4>1, <4>2
    <3>3. IsFiniteSet(All(g) \ X) /\ IsFiniteSet(Cells(h, F))
      BY <1>1, <2>2, <2>6, CellsFinite, FS_Subset DEF All
    <3>4. Count(h, (All(g) \ X) \cup Cells(h, F), q)
            = Count(h, All(g) \ X, q) + Count(h, Cells(h, F), q)
      BY <2>10, <3>3, CountSum
    <3>5. Count(h, All(h) \ X, q) = Count(h, All(g) \ X, q) + Refs(h, F, q)
      BY <1>1, <2>2, <2>10, <3>4, RefsNat
    <3>6. Count(g, All(g) \ X, q) = Count(h, All(g) \ X, q)
      BY <2>8, CountSame
    <3>7. Count(h, All(g) \ X, q) \in Nat /\ Refs(h, F, q) \in Nat
      BY <1>1, <2>2, <3>3, CountFacts, RefsNat
    <3>8. g[q].cnt = h[q].cnt - Refs(h, F, q)
      BY <2>4, <3>1
    <3>. QED
      BY <3>2, <3>5, <3>6, <3>7, <3>8
  <2>13. ASSUME NEW q \in Addresses, r[q] > 0 PROVE q \in DOMAIN g
    <3>1. q \in DOMAIN h
      BY <1>4, <2>13 DEF Good
    <3>2. q \notin F
      BY <2>2, <2>13
    <3>. QED
      BY <2>5, <3>1, <3>2
  <2>. HIDE DEF r
  <2>. QED
    BY <1>3, <2>6, <2>7, <2>10, <2>11, <2>12, <2>13 DEF Good, g, r
<1>. QED
  BY <1>2, <1>6, <1>7

-------------------------------------------------------------------------------
(* The values of an item *)

(* How often an item refers to q *)
Times(item, q) ==
  (IF item[1] = q THEN 1 ELSE 0) + (IF Len(item) = 2 /\ item[2] = q THEN 1 ELSE 0)

PlusItem(o, item)  == [q \in Addresses |-> o[q] + Times(item, q)]
MinusItem(o, item) == [q \in Addresses |-> o[q] - Times(item, q)]

(* Nothing is added, no kind is changed, and nothing is taken out of a container. *)
Later(h, g) ==
  /\ DOMAIN g \subseteq DOMAIN h
  /\ \A q \in DOMAIN g : g[q].kind = h[q].kind /\ Len(h[q].items) <= Len(g[q].items)

LEMMA KeepsLater ==
  ASSUME NEW h, HeapTyped(h), NEW g, Keeps(h, g)
  PROVE  Later(h, g)
<1>1. ASSUME NEW q \in DOMAIN g PROVE g[q].kind = h[q].kind /\ Len(h[q].items) <= Len(g[q].items)
  <2>1. q \in DOMAIN h /\ g[q].kind = h[q].kind /\ g[q].items = h[q].items
    BY DEF Keeps
  <2>2. h[q].items \in Seq(Item)
    BY <2>1 DEF HeapTyped, Proper, Node
  <2>3. Len(h[q].items) \in Nat
    BY <2>2
  <2>. QED
    BY <2>1, <2>3
<1>. QED
  BY <1>1 DEF Later, Keeps

LEMMA KeepsThrough ==
  ASSUME NEW f, NEW g, NEW h, Keeps(f, g), Keeps(g, h)
  PROVE  Keeps(f, h)
BY DEF Keeps

LEMMA LaterThrough ==
  ASSUME NEW f, HeapTyped(f), NEW g, HeapTyped(g), NEW h, HeapTyped(h), Later(f, g), Later(g, h)
  PROVE  Later(f, h)
<1>1. ASSUME NEW q \in DOMAIN h PROVE h[q].kind = f[q].kind /\ Len(f[q].items) <= Len(h[q].items)
  <2>1. q \in DOMAIN g /\ q \in DOMAIN f
    BY DEF Later
  <2>2. f[q].items \in Seq(Item) /\ g[q].items \in Seq(Item) /\ h[q].items \in Seq(Item)
    BY <2>1 DEF HeapTyped, Proper, Node
  <2>3. Len(f[q].items) \in Nat /\ Len(g[q].items) \in Nat /\ Len(h[q].items) \in Nat
    BY <2>2
  <2>4. Len(f[q].items) <= Len(g[q].items) /\ Len(g[q].items) <= Len(h[q].items)
        /\ h[q].kind = f[q].kind
    BY <2>1 DEF Later
  <2>. QED
    BY <2>3, <2>4
<1>. QED
  BY <1>1 DEF Later

LEMMA TimesFacts ==
  ASSUME NEW item \in Item, NEW q
  PROVE  /\ Times(item, q) \in Nat
         /\ Times(item, q) > 0 <=> \E j \in 1 .. Len(item) : item[j] = q
<1>1. Len(item) \in {1, 2}
  BY ItemFacts
<1>2. CASE Len(item) = 1
  BY <1>2 DEF Times
<1>3. CASE Len(item) = 2
  BY <1>3 DEF Times
<1>. QED
  BY <1>1, <1>2, <1>3

LEMMA AllCopiedGood ==
  ASSUME NEW h, NEW X, NEW o, Good(h, X, o), NEW item \in Item,
         \A j \in 1 .. Len(item) : Alive(h, item[j])
  PROVE  /\ Good(AllCopied(h, item), X, PlusItem(o, item))
         /\ Keeps(h, AllCopied(h, item)) /\ DOMAIN AllCopied(h, item) = DOMAIN h
<1>. DEFINE f == Copied(h, item[1])
            g == Copied(f, item[2])
<1>1. Len(item) \in {1, 2}
  BY ItemFacts
<1>2. Good(f, X, Plus(o, item[1])) /\ Keeps(h, f) /\ DOMAIN f = DOMAIN h
  BY <1>1, CopiedGood
<1>3. \A q \in Addresses : o[q] \in Nat
  BY DEF Good
<1>4. CASE Len(item) = 1
  <2>1. AllCopied(h, item) = f
    BY <1>4 DEF AllCopied
  <2>2. Plus(o, item[1]) = PlusItem(o, item)
    BY <1>3, <1>4 DEF Plus, PlusItem, Times
  <2>. QED
    BY <1>2, <2>1, <2>2
<1>5. CASE Len(item) = 2
  <2>. HIDE DEF f
  <2>1. Alive(f, item[2])
    BY <1>2, <1>5 DEF Alive
  <2>2. Good(g, X, Plus(Plus(o, item[1]), item[2])) /\ Keeps(f, g) /\ DOMAIN g = DOMAIN f
    BY <1>2, <2>1, CopiedGood
  <2>3. AllCopied(h, item) = g
    BY <1>5 DEF AllCopied, f
  <2>4. Plus(Plus(o, item[1]), item[2]) = PlusItem(o, item)
    BY <1>3, <1>5 DEF Plus, PlusItem, Times
  <2>. QED
    BY <1>2, <2>2, <2>3, <2>4, KeepsThrough
<1>. QED
  BY <1>1, <1>4, <1>5

LEMMA AllReleasedGood ==
  ASSUME NEW h, NEW X, NEW o, Good(h, X, o), NEW item \in Item,
         \A q \in Addresses : Times(item, q) <= o[q],
         NEW p, X # {} => X \subseteq Cells(h, {p}) /\ p \in DOMAIN h /\ MinusItem(o, item)[p] > 0
  PROVE  Good(AllReleased(h, item), X, MinusItem(o, item)) /\ Keeps(h, AllReleased(h, item))
<1>. DEFINE f == Released(h, item[1])
            g == Released(f, item[2])
            r == Minus(o, item[1])
<1>1. Len(item) \in {1, 2} /\ item[1] \in Value /\ (Len(item) = 2 => item[2] \in Value)
  BY ItemFacts
<1>2. \A q \in Addresses : o[q] \in Nat
  BY DEF Good
<1>3. item[1] \in Addresses => o[item[1]] > 0
  <2>1. SUFFICES ASSUME item[1] \in Addresses PROVE o[item[1]] > 0
    OBVIOUS
  <2>2. Times(item, item[1]) >= 1
    BY DEF Times
  <2>. QED
    BY <1>2, <2>1, <2>2, TimesFacts
<1>4. X # {} => p \in Addresses /\ r[p] > 0
  <2>1. SUFFICES ASSUME X # {} PROVE p \in Addresses /\ r[p] > 0
    OBVIOUS
  <2>2. p \in Addresses /\ MinusItem(o, item)[p] > 0
    BY <2>1 DEF Good, HeapTyped
  <2>3. o[p] - Times(item, p) > 0 /\ o[p] \in Nat
    BY <1>2, <2>2 DEF MinusItem
  <2>4. r[p] = o[p] - IF p = item[1] THEN 1 ELSE 0
    BY <2>2 DEF Minus
  <2>5. Times(item, p) >= IF p = item[1] THEN 1 ELSE 0
    BY DEF Times
  <2>. QED
    BY <2>2, <2>3, <2>4, <2>5, TimesFacts
<1>5. Good(f, X, r) /\ Keeps(h, f)
  BY <1>1, <1>3, <1>4, ReleasedGood
<1>6. CASE Len(item) = 1
  <2>1. AllReleased(h, item) = f
    BY <1>6 DEF AllReleased
  <2>2. r = MinusItem(o, item)
    BY <1>2, <1>6 DEF Minus, MinusItem, Times
  <2>. QED
    BY <1>5, <2>1, <2>2
<1>7. CASE Len(item) = 2
  <2>1. Minus(r, item[2]) = MinusItem(o, item)
    BY <1>2, <1>7 DEF Minus, MinusItem, Times
  <2>2. item[2] \in Addresses => r[item[2]] > 0
    <3>1. SUFFICES ASSUME item[2] \in Addresses PROVE r[item[2]] > 0
      OBVIOUS
    <3>2. Times(item, item[2]) = 1 + IF item[1] = item[2] THEN 1 ELSE 0
      BY <1>7 DEF Times
    <3>3. r[item[2]] = o[item[2]] - (IF item[2] = item[1] THEN 1 ELSE 0)
      BY <3>1 DEF Minus
    <3>. QED
      BY <1>2, <3>1, <3>2, <3>3
  <2>. HIDE DEF f, r
  <2>3. X # {} => X \subseteq Cells(f, {p}) /\ p \in DOMAIN f /\ Minus(r, item[2])[p] > 0
    <3>1. SUFFICES ASSUME X # {} PROVE X \subseteq Cells(f, {p}) /\ p \in DOMAIN f
      BY <2>1
    <3>2. p \in DOMAIN f
      BY <1>4, <1>5, <3>1 DEF Good
    <3>3. f[p].items = h[p].items
      BY <1>5, <3>2 DEF Keeps
    <3>4. Cells(h, {p}) = Cells(f, {p})
      BY <3>3, CellsSame
    <3>. QED
      BY <3>1, <3>2, <3>4
  <2>4. Good(g, X, Minus(r, item[2])) /\ Keeps(f, g)
    BY <1>1, <1>5, <1>7, <2>2, <2>3, ReleasedGood
  <2>5. AllReleased(h, item) = g
    BY <1>7 DEF AllReleased, f
  <2>. QED
    BY <1>5, <2>1, <2>4, <2>5, KeepsThrough
<1>. QED
  BY <1>1, <1>6, <1>7

(* The places of an item *)
Place(h, p, i) == {c \in Cells(h, {p}) : c[2] = i}

LEMMA PlaceCounts ==
  ASSUME NEW h, HeapTyped(h), NEW p \in DOMAIN h, NEW i \in DOMAIN h[p].items, NEW q
  PROVE  /\ Place(h, p, i) = {<<p, i, j>> : j \in 1 .. Len(h[p].items[i])}
         /\ Count(h, Place(h, p, i), q) = Times(h[p].items[i], q)
<1>. DEFINE item == h[p].items[i]
            P == Place(h, p, i)
            C == {<<p, i, 1>>}
            D == {<<p, i, 2>>}
<1>1. item \in Item
  BY DEF HeapTyped, Proper, Node
<1>2. Len(item) \in {1, 2} /\ DOMAIN item = 1 .. Len(item)
  BY <1>1, ItemFacts
<1>3. P = {<<p, i, j>> : j \in 1 .. Len(item)}
  <2>1. ASSUME NEW c \in P PROVE c \in {<<p, i, j>> : j \in 1 .. Len(item)}
    <3>1. PICK k \in DOMAIN h[p].items : \E j \in DOMAIN h[p].items[k] : c = <<p, k, j>>
      BY CellIs DEF Place
    <3>2. k = i
      BY <3>1 DEF Place
    <3>. QED
      BY <1>2, <3>1, <3>2
  <2>2. ASSUME NEW j \in 1 .. Len(item) PROVE <<p, i, j>> \in P
    BY <1>2, CellIs DEF Place
  <2>. QED
    BY <2>1, <2>2
<1>4. At(h, <<p, i, 1>>) = item[1] /\ At(h, <<p, i, 2>>) = item[2]
  BY DEF At
<1>. HIDE DEF P
<1>5. Count(h, C, q) = IF item[1] = q THEN 1 ELSE 0
  BY <1>4, CountOne
<1>6. CASE Len(item) = 1
  <2>1. P = C
    BY <1>3, <1>6
  <2>2. Times(item, q) = IF item[1] = q THEN 1 ELSE 0
    BY <1>6 DEF Times
  <2>. QED
    BY <1>3, <1>5, <2>1, <2>2 DEF P
<1>7. CASE Len(item) = 2
  <2>1. P = C \cup D /\ C \cap D = {}
    BY <1>3, <1>7
  <2>2. Count(h, D, q) = IF item[2] = q THEN 1 ELSE 0
    BY <1>4, CountOne
  <2>3. IsFiniteSet(C) /\ IsFiniteSet(D)
    BY FS_Singleton
  <2>. HIDE DEF C, D
  <2>4. Count(h, C \cup D, q) = Count(h, C, q) + Count(h, D, q)
    BY <2>1, <2>3, CountSum
  <2>5. Times(item, q) = (IF item[1] = q THEN 1 ELSE 0) + (IF item[2] = q THEN 1 ELSE 0)
    BY <1>7 DEF Times
  <2>. QED
    BY <1>3, <1>5, <2>1, <2>2, <2>4, <2>5 DEF P
<1>. QED
  BY <1>2, <1>6, <1>7

-------------------------------------------------------------------------------
(* An item is stored in a container. *)

(* The references of an item are given up before it is overwritten. *)
LEMMA GivenUp ==
  ASSUME NEW h, NEW o, Good(h, {}, o), NEW p \in DOMAIN h, NEW i \in DOMAIN h[p].items
  PROVE  Good(h, Place(h, p, i), PlusItem(o, h[p].items[i]))
<1>. DEFINE item == h[p].items[i]
            X == Place(h, p, i)
            r == PlusItem(o, item)
<1>1. HeapTyped(h) /\ item \in Item
  BY DEF Good, HeapTyped, Proper, Node
<1>2. X = {<<p, i, j>> : j \in 1 .. Len(item)} /\ \A q : Count(h, X, q) = Times(item, q)
  BY <1>1, PlaceCounts
<1>3. X \subseteq All(h)
  BY CellsOfUnion DEF Place, All
<1>. HIDE DEF X
<1>4. \A q \in Addresses : o[q] \in Nat /\ Times(item, q) \in Nat /\ r[q] = o[q] + Times(item, q)
  BY <1>1, TimesFacts DEF Good, PlusItem
<1>5. r \in [Addresses -> Nat]
  BY <1>4 DEF PlusItem
<1>6. ASSUME NEW q \in Addresses, r[q] > 0 PROVE q \in DOMAIN h
  <2>1. CASE o[q] > 0
    BY <2>1 DEF Good
  <2>2. CASE Times(item, q) > 0
    <3>1. PICK j \in 1 .. Len(item) : item[j] = q
      BY <1>1, <2>2, TimesFacts
    <3>2. <<p, i, j>> \in All(h) /\ At(h, <<p, i, j>>) = q
      BY <1>2, <1>3, <3>1 DEF At
    <3>3. q \in DOMAIN h \cup Statics
      BY <3>2 DEF Good
    <3>. QED
      BY <3>3, StaticsApart
  <2>. QED
    BY <1>4, <1>6, <2>1, <2>2
<1>7. ASSUME NEW q \in DOMAIN h PROVE h[q].cnt = r[q] + Count(h, All(h) \ X, q)
  <2>1. q \in Addresses /\ h[q].cnt = o[q] + Count(h, All(h) \ {}, q)
    BY <1>1 DEF Good, HeapTyped
  <2>2. (All(h) \ X) \cup X = All(h) \ {} /\ (All(h) \ X) \cap X = {}
    BY <1>3
  <2>3. IsFiniteSet(All(h) \ X) /\ IsFiniteSet(X)
    BY <1>1, <1>3, CellsFinite, FS_Subset DEF All
  <2>4. Count(h, (All(h) \ X) \cup X, q) = Count(h, All(h) \ X, q) + Count(h, X, q)
    BY <2>2, <2>3, CountSum
  <2>5. Count(h, All(h) \ {}, q) = Count(h, All(h) \ X, q) + Times(item, q)
    BY <1>2, <2>2, <2>4
  <2>6. Count(h, All(h) \ X, q) \in Nat
    BY <2>3, CountFacts
  <2>7. o[q] \in Nat /\ Times(item, q) \in Nat /\ r[q] = o[q] + Times(item, q)
    BY <1>4, <2>1
  <2>. QED
    BY <2>1, <2>5, <2>6, <2>7
<1>8. \A c \in All(h) \ X : At(h, c) \in DOMAIN h \cup Statics
  BY DEF Good
<1>. HIDE DEF r
<1>. QED
  BY <1>1, <1>3, <1>5, <1>6, <1>7, <1>8 DEF Good, r, X

(* What place i holds after the item is stored there, and what the others hold. *)
Longer(items, i, item) ==
  [j \in 1 .. (IF i > Len(items) THEN i ELSE Len(items)) |->
     IF j = i THEN item ELSE IF j <= Len(items) THEN items[j] ELSE <<Null>>]

LEMMA LongerFacts ==
  ASSUME NEW kind \in Kinds, NEW items \in Seq(ItemOf(kind)), NEW item \in ItemOf(kind),
         NEW i \in Nat \ {0}, kind = "object" => i <= Len(items) + 1
  PROVE  LET n == Len(items)
             m == IF i > n THEN i ELSE n
             new == Longer(items, i, item)
         IN  /\ n \in Nat /\ n <= m /\ i \in 1 .. m
             /\ new \in Seq(ItemOf(kind)) /\ Len(new) = m /\ DOMAIN new = 1 .. m
             /\ new[i] = item
             /\ \A j \in 1 .. n : j # i => new[j] = items[j]
             /\ \A j \in 1 .. m : j # i /\ j > n => new[j] = <<Null>>
<1>. DEFINE n == Len(items)
            m == IF i > n THEN i ELSE n
            new == Longer(items, i, item)
<1>1. n \in Nat /\ \A j \in 1 .. n : items[j] \in ItemOf(kind)
  OBVIOUS
<1>2. m \in Nat /\ n <= m /\ i \in 1 .. m
  BY <1>1
<1>. HIDE DEF n
<1>3. new = [j \in 1 .. m |-> IF j = i THEN item ELSE IF j <= n THEN items[j] ELSE <<Null>>]
  BY DEF Longer, n
<1>. HIDE DEF new, m
<1>4. ASSUME NEW j \in 1 .. m PROVE new[j] \in ItemOf(kind)
  <2>1. CASE j = i
    BY <1>3, <2>1
  <2>2. CASE j # i /\ j <= n
    BY <1>1, <1>2, <1>3, <2>2
  <2>3. CASE j # i /\ ~(j <= n)
    <3>1. new[j] = <<Null>>
      BY <1>3, <2>3
    <3>2. kind # "object"
      <4>1. m <= i
        BY <1>1, <1>2, <2>3 DEF m
      <4>. QED
        BY <1>1, <1>2, <2>3, <4>1 DEF n
    <3>3. Width(kind) = 1
      BY <3>2 DEF Width
    <3>4. <<Null>> \in [1 .. 1 -> Value]
      BY DEF Value, Statics
    <3>. QED
      BY <3>1, <3>3, <3>4 DEF ItemOf
  <2>. QED
    BY <2>1, <2>2, <2>3
<1>5. new \in [1 .. m -> ItemOf(kind)]
  BY <1>3, <1>4
<1>6. new \in Seq(ItemOf(kind))
  BY <1>2, <1>5, IsASeq
<1>7. Len(new) = m
  BY <1>2, <1>5, <1>6, LenProperties
<1>8. \A j \in 1 .. n : j # i => j \in 1 .. m /\ new[j] = items[j]
  BY <1>1, <1>2, <1>3
<1>. QED
  BY <1>1, <1>2, <1>3, <1>5, <1>6, <1>7, <1>8 DEF n, m, new

(* Another heap g, where only the items of p differ. *)
Differ(h, g, p, i, item) ==
  /\ DOMAIN g = DOMAIN h /\ \A q \in DOMAIN h : q # p => g[q] = h[q]
  /\ g[p].kind = h[p].kind /\ g[p].cnt = h[p].cnt
  /\ g[p].items = Longer(h[p].items, i, item)

(* The places that are added without being asked for *)
Skipped(h, g, p, i) == {c \in Cells(g, {p}) : c[2] > Len(h[p].items) /\ c[2] # i}

LEMMA RewrittenOne ==
  ASSUME NEW h, HeapTyped(h), NEW g, HeapTyped(g), NEW p \in DOMAIN h, NEW i \in Nat \ {0},
         NEW item \in ItemOf(h[p].kind), h[p].kind = "object" => i <= Len(h[p].items) + 1,
         Differ(h, g, p, i, item), NEW c
  PROVE  /\ c \in Cells(g, {p}) <=>
              c \in Cells(h, {p}) \ Place(h, p, i) \/ c \in Place(g, p, i) \/ c \in Skipped(h, g, p, i)
         /\ c \in Cells(h, {p}) \ Place(h, p, i) => /\ At(g, c) = At(h, c)
                                                    /\ c \notin Place(g, p, i)
                                                    /\ c \notin Skipped(h, g, p, i)
         /\ c \in Skipped(h, g, p, i) => At(g, c) = Null /\ c \notin Place(g, p, i)
         /\ i \in DOMAIN g[p].items /\ g[p].items[i] = item
<1>. DEFINE items == h[p].items
            n == Len(items)
            m == IF i > n THEN i ELSE n
            new == g[p].items
            X == Place(h, p, i)
            Y == Place(g, p, i)
            Z == Skipped(h, g, p, i)
<1>1. h[p].kind \in Kinds /\ items \in Seq(ItemOf(h[p].kind))
  BY DEF HeapTyped, Proper, Node
<1>2. /\ n \in Nat /\ m \in Nat /\ n <= m /\ i \in 1 .. m
      /\ DOMAIN new = 1 .. m
      /\ new[i] = item
      /\ \A j \in 1 .. n : j # i => new[j] = items[j]
      /\ \A j \in 1 .. m : j # i /\ j > n => new[j] = <<Null>>
  <2>1. new = Longer(items, i, item)
    BY DEF Differ
  <2>. QED
    BY <1>1, <2>1, LongerFacts
<1>3. DOMAIN items = 1 .. n
  BY <1>1
<1>4. /\ c \in Cells(h, {p}) <=> \E k \in DOMAIN items : \E j \in DOMAIN items[k] : c = <<p, k, j>>
      /\ c \in Cells(g, {p}) <=> \E k \in DOMAIN new : \E j \in DOMAIN new[k] : c = <<p, k, j>>
  BY ONLY CellIn
<1>. HIDE DEF items, n, m, new
<1>5. /\ c \in X <=> c \in Cells(h, {p}) /\ c[2] = i
      /\ c \in Y <=> c \in Cells(g, {p}) /\ c[2] = i
      /\ c \in Z <=> c \in Cells(g, {p}) /\ c[2] > n /\ c[2] # i
  BY DEF Place, Skipped, n, items
<1>. HIDE DEF X, Y, Z
<1>6. ASSUME c \in Cells(g, {p}) PROVE c \in Cells(h, {p}) \ X \/ c \in Y \/ c \in Z
  <2>1. PICK k \in DOMAIN new : \E j \in DOMAIN new[k] : c = <<p, k, j>>
    BY <1>4, <1>6
  <2>2. c[2] = k
    BY <2>1
  <2>3. CASE k = i \/ k > n
    BY <1>5, <1>6, <2>2, <2>3
  <2>4. CASE k # i /\ ~(k > n)
    <3>1. k \in 1 .. n /\ new[k] = items[k]
      BY <1>2, <2>4
    <3>2. c \in Cells(h, {p})
      BY <1>3, <1>4, <2>1, <3>1
    <3>. QED
      BY <1>5, <2>2, <2>4, <3>2
  <2>. QED
    BY <2>3, <2>4
<1>7. ASSUME c \in Cells(h, {p}) \ X
      PROVE  c \in Cells(g, {p}) /\ c \notin Y /\ c \notin Z /\ At(g, c) = At(h, c)
  <2>1. PICK k \in DOMAIN items : \E j \in DOMAIN items[k] : c = <<p, k, j>>
    BY <1>4, <1>7
  <2>2. c[1] = p /\ c[2] = k
    BY <2>1
  <2>3. k # i
    BY <1>5, <1>7, <2>2
  <2>4. k \in 1 .. m /\ new[k] = items[k]
    BY <1>2, <1>3, <2>1, <2>3
  <2>5. c \in Cells(g, {p})
    BY <1>2, <1>4, <2>1, <2>4
  <2>6. c \notin Y /\ c \notin Z
    BY <1>2, <1>3, <1>5, <2>1, <2>2, <2>3
  <2>7. At(g, c) = At(h, c)
    BY <2>2, <2>4 DEF At, new, items
  <2>. QED
    BY <2>5, <2>6, <2>7
<1>8. ASSUME c \in Z PROVE At(g, c) = Null /\ c \notin Y
  <2>1. PICK k \in DOMAIN new : \E j \in DOMAIN new[k] : c = <<p, k, j>>
    BY <1>4, <1>5, <1>8
  <2>2. PICK j \in DOMAIN new[k] : c = <<p, k, j>>
    BY <2>1
  <2>3. c[1] = p /\ c[2] = k /\ c[3] = j
    BY <2>2
  <2>4. new[k] = <<Null>>
    BY <1>2, <1>5, <1>8, <2>3
  <2>5. j = 1
    BY <2>2, <2>4
  <2>6. At(g, c) = new[k][j]
    BY <2>3 DEF At, new
  <2>. QED
    BY <1>5, <1>8, <2>4, <2>5, <2>6
<1>9. i \in DOMAIN g[p].items /\ g[p].items[i] = item
  BY <1>2 DEF new
<1>10. c \in Y \/ c \in Z => c \in Cells(g, {p})
  BY <1>5
<1>. QED
  BY <1>6, <1>7, <1>8, <1>9, <1>10 DEF X, Y, Z

LEMMA Rewritten ==
  ASSUME NEW h, HeapTyped(h), NEW g, HeapTyped(g), NEW p \in DOMAIN h, NEW i \in Nat \ {0},
         NEW item \in ItemOf(h[p].kind), h[p].kind = "object" => i <= Len(h[p].items) + 1,
         Differ(h, g, p, i, item)
  PROVE  LET X == Place(h, p, i)
             Y == Place(g, p, i)
             Z == Skipped(h, g, p, i)
         IN  /\ All(g) = (All(h) \ X) \cup (Y \cup Z)
             /\ (All(h) \ X) \cap (Y \cup Z) = {} /\ Y \cap Z = {}
             /\ \A c \in All(h) \ X : At(g, c) = At(h, c)
             /\ \A c \in Z : At(g, c) = Null
             /\ i \in DOMAIN g[p].items /\ g[p].items[i] = item
<1>. DEFINE X == Place(h, p, i)
            Y == Place(g, p, i)
            Z == Skipped(h, g, p, i)
            D == DOMAIN h \ {p}
            P == Cells(h, {p})
            Q == Cells(g, {p})
<1>1. \A c : /\ c \in Q <=> c \in P \ X \/ c \in Y \/ c \in Z
             /\ c \in P \ X => At(g, c) = At(h, c) /\ c \notin Y /\ c \notin Z
             /\ c \in Z => At(g, c) = Null /\ c \notin Y
  BY RewrittenOne
<1>2. i \in DOMAIN g[p].items /\ g[p].items[i] = item
  BY RewrittenOne
<1>3. DOMAIN g = DOMAIN h /\ \A q \in D : h[q].items = g[q].items
  BY DEF Differ
<1>4. Cells(h, D) = Cells(g, D) /\ \A c \in Cells(h, D) : At(h, c) = At(g, c)
  BY <1>3, CellsSame
<1>5. D \cup {p} = DOMAIN h /\ D \cap {p} = {}
  OBVIOUS
<1>6. All(h) = Cells(h, D) \cup P /\ Cells(h, D) \cap P = {}
  <2>1. Cells(h, D \cup {p}) = Cells(h, D) \cup Cells(h, {p}) /\ Cells(h, D) \cap P = {}
    BY <1>5, CellsOfUnion
  <2>. QED
    BY <1>5, <2>1 DEF All
<1>7. All(g) = Cells(g, D) \cup Q /\ Cells(g, D) \cap Q = {}
  <2>1. Cells(g, D \cup {p}) = Cells(g, D) \cup Cells(g, {p}) /\ Cells(g, D) \cap Q = {}
    BY <1>5, CellsOfUnion
  <2>. QED
    BY <1>3, <1>5, <2>1 DEF All
<1>8. X \subseteq P
  BY DEF Place
<1>. HIDE DEF X, Y, Z, D, P, Q
<1>9. All(h) \ X = Cells(h, D) \cup (P \ X)
  BY <1>6, <1>8
<1>10. All(g) = (All(h) \ X) \cup (Y \cup Z)
  BY <1>1, <1>4, <1>7, <1>9
<1>11. (All(h) \ X) \cap (Y \cup Z) = {} /\ Y \cap Z = {}
  BY <1>1, <1>4, <1>7, <1>9
<1>12. \A c \in All(h) \ X : At(g, c) = At(h, c)
  BY <1>1, <1>4, <1>9
<1>. QED
  BY <1>1, <1>2, <1>10, <1>11, <1>12 DEF X, Y, Z

(* The item takes the place of what was given up. *)
LEMMA OverwrittenGood ==
  ASSUME NEW h, NEW o, NEW p \in DOMAIN h, NEW i \in Nat \ {0}, Good(h, Place(h, p, i), o),
         NEW item \in ItemOf(h[p].kind),
         h[p].kind = "object" => i <= Len(h[p].items) + 1,
         \A q \in Addresses : Times(item, q) <= o[q],
         NEW g, HeapTyped(g), Differ(h, g, p, i, item)
  PROVE  Good(g, {}, MinusItem(o, item))
<1>. DEFINE X == Place(h, p, i)
            Y == Place(g, p, i)
            Z == Skipped(h, g, p, i)
            r == MinusItem(o, item)
<1>1. HeapTyped(h) /\ item \in Item /\ DOMAIN g = DOMAIN h
  BY KindItem DEF Good, Differ
<1>2. /\ All(g) = (All(h) \ X) \cup (Y \cup Z)
      /\ (All(h) \ X) \cap (Y \cup Z) = {} /\ Y \cap Z = {}
      /\ \A c \in All(h) \ X : At(g, c) = At(h, c)
      /\ \A c \in Z : At(g, c) = Null
      /\ i \in DOMAIN g[p].items /\ g[p].items[i] = item
  BY <1>1, Rewritten
<1>3. Y = {<<p, i, j>> : j \in 1 .. Len(item)} /\ \A q : Count(g, Y, q) = Times(item, q)
  BY <1>1, <1>2, PlaceCounts
<1>4. \A q \in Addresses : /\ o[q] \in Nat /\ Times(item, q) \in Nat
                           /\ r[q] = o[q] - Times(item, q)
  BY <1>1, TimesFacts DEF Good, MinusItem
<1>5. r \in [Addresses -> Nat]
  <2>1. \A q \in Addresses : o[q] - Times(item, q) \in Nat
    BY <1>4
  <2>. QED
    BY <2>1 DEF MinusItem
<1>6. \A q \in Addresses : r[q] > 0 => q \in DOMAIN g
  <2>1. \A q \in Addresses : r[q] > 0 => o[q] > 0
    BY <1>4
  <2>. QED
    BY <1>1, <2>1 DEF Good
<1>7. \A c \in All(h) \ X : At(h, c) \in DOMAIN h \cup Statics
  BY DEF Good
<1>8. \A q \in DOMAIN h : h[q].cnt = o[q] + Count(h, All(h) \ X, q)
  BY DEF Good
<1>9. \A q \in DOMAIN h : g[q].cnt = h[q].cnt
  BY DEF Differ
<1>. HIDE DEF X, Y, Z, r
<1>10. IsFiniteSet(All(g)) /\ IsFiniteSet(All(h) \ X) /\ IsFiniteSet(Y) /\ IsFiniteSet(Z) /\ IsFiniteSet(Y \cup Z)
  <2>1. IsFiniteSet(All(g)) /\ IsFiniteSet(All(h))
    BY <1>1, CellsFinite DEF All
  <2>2. Y \subseteq All(g) /\ Z \subseteq All(g) /\ Y \cup Z \subseteq All(g)
    BY <1>2
  <2>. QED
    BY <2>1, <2>2, FS_Subset
<1>11. ASSUME NEW q \in DOMAIN g PROVE g[q].cnt = r[q] + Count(g, All(g) \ {}, q)
  <2>1. q \in Addresses /\ q \in DOMAIN h /\ q # Null
    BY <1>1, HandleConstants DEF HeapTyped
  <2>2. Count(g, (All(h) \ X) \cup (Y \cup Z), q) = Count(g, All(h) \ X, q) + Count(g, Y \cup Z, q)
    BY <1>2, <1>10, CountSum
  <2>3. Count(g, Y \cup Z, q) = Count(g, Y, q) + Count(g, Z, q)
    BY <1>2, <1>10, CountSum
  <2>4. Count(g, Z, q) = 0
    BY <1>2, <1>10, <2>1, CountFacts
  <2>5. Count(h, All(h) \ X, q) = Count(g, All(h) \ X, q)
    BY <1>2, CountSame
  <2>6. Count(h, All(h) \ X, q) \in Nat
    BY <1>10, CountFacts
  <2>7. o[q] \in Nat /\ Times(item, q) \in Nat /\ r[q] = o[q] - Times(item, q)
    BY <1>4, <2>1
  <2>8. All(g) \ {} = (All(h) \ X) \cup (Y \cup Z)
    BY <1>2
  <2>9. Count(g, All(g) \ {}, q) = Count(g, All(h) \ X, q) + (Times(item, q) + 0)
    BY <1>3, <2>2, <2>3, <2>4, <2>8
  <2>10. g[q].cnt = o[q] + Count(h, All(h) \ X, q)
    BY <1>8, <1>9, <2>1
  <2>. QED
    BY <2>5, <2>6, <2>7, <2>9, <2>10
<1>12. ASSUME NEW c \in All(g) PROVE At(g, c) \in DOMAIN g \cup Statics
  <2>1. CASE c \in All(h) \ X
    BY <1>1, <1>2, <1>7, <2>1
  <2>2. CASE c \in Y
    <3>1. PICK j \in 1 .. Len(item) : c = <<p, i, j>>
      BY <1>3, <2>2
    <3>2. At(g, c) = item[j]
      BY <1>2, <3>1 DEF At
    <3>3. item[j] \in Value
      BY <1>1, <3>1, ItemFacts
    <3>4. CASE item[j] \in Addresses
      <4>1. Times(item, item[j]) > 0
        BY <1>1, <3>1, TimesFacts
      <4>2. o[item[j]] > 0
        BY <1>4, <3>4, <4>1
      <4>. QED
        BY <1>1, <3>2, <3>4, <4>2 DEF Good
    <3>. QED
      BY <3>2, <3>3, <3>4 DEF Value
  <2>3. CASE c \in Z
    BY <1>2, <2>3 DEF Statics
  <2>. QED
    BY <1>2, <2>1, <2>2, <2>3
<1>. QED
  BY <1>5, <1>6, <1>11, <1>12 DEF Good, r

(* The heap in which only the items of p are others is one again. *)
LEMMA LongerTyped ==
  ASSUME NEW h, HeapTyped(h), NEW p \in DOMAIN h, NEW i \in 1 .. MaxItems,
         NEW item \in ItemOf(h[p].kind), h[p].kind = "object" => i <= Len(h[p].items) + 1
  PROVE  LET g == [h EXCEPT ![p].items = Longer(h[p].items, i, item)]
         IN  HeapTyped(g) /\ Differ(h, g, p, i, item) /\ Later(h, g)
<1>. DEFINE kind == h[p].kind
            items == h[p].items
            n == Len(items)
            m == IF i > n THEN i ELSE n
            new == Longer(items, i, item)
            g == [h EXCEPT ![p].items = Longer(h[p].items, i, item)]
<1>1. Proper(h[p]) /\ h[p] \in Node /\ kind \in Kinds /\ items \in Seq(ItemOf(kind)) /\ n <= MaxItems
  BY DEF HeapTyped, Proper, Node
<1>2. i \in Nat \ {0}
  OBVIOUS
<1>3. /\ n \in Nat /\ n <= m
      /\ new \in Seq(ItemOf(kind)) /\ Len(new) = m
  <2>1. item \in ItemOf(kind) /\ (kind = "object" => i <= Len(items) + 1)
    OBVIOUS
  <2>. HIDE DEF kind, items
  <2>. QED
    BY <1>1, <1>2, <2>1, LongerFacts
<1>. HIDE DEF new
<1>4. /\ DOMAIN g = DOMAIN h /\ g = [q \in DOMAIN g |-> g[q]]
      /\ \A q \in DOMAIN h : q # p => g[q] = h[q]
      /\ g[p] = [h[p] EXCEPT !.items = new]
  BY DEF HeapTyped, new
<1>. HIDE DEF g
<1>5. new \in Seq(Item)
  <2>1. \A j \in 1 .. Len(new) : new[j] \in ItemOf(kind)
    BY <1>3
  <2>2. \A j \in 1 .. Len(new) : new[j] \in Item
    BY <2>1, KindItem
  <2>. QED
    BY <1>3, <2>2, IsASeq
<1>6. /\ g[p].kind = kind /\ g[p].items = new /\ g[p].cnt = h[p].cnt
      /\ g[p] \in Node
  BY <1>1, <1>4, <1>5 DEF Node
<1>. HIDE DEF kind, items, n, m
<1>7. Len(new) <= MaxItems
  BY <1>1, <1>3 DEF m
<1>8. Proper(g[p])
  BY <1>1, <1>3, <1>6, <1>7 DEF Proper
<1>9. HeapTyped(g)
  <2>1. \A q \in DOMAIN h : Proper(g[q])
    BY <1>4, <1>8 DEF HeapTyped
  <2>. QED
    BY <1>4, <2>1 DEF HeapTyped
<1>10. Differ(h, g, p, i, item)
  BY <1>4, <1>6 DEF Differ, new, items, kind
<1>11. Later(h, g)
  <2>1. ASSUME NEW q \in DOMAIN g PROVE g[q].kind = h[q].kind /\ Len(h[q].items) <= Len(g[q].items)
    <3>1. CASE q = p
      BY <1>3, <1>6, <3>1 DEF kind, items, n
    <3>2. CASE q # p
      <4>1. g[q] = h[q] /\ h[q].items \in Seq(Item)
        BY <1>4, <3>2 DEF HeapTyped, Proper, Node
      <4>2. Len(h[q].items) \in Nat
        BY <4>1
      <4>. QED
        BY <4>1, <4>2
    <3>. QED
      BY <3>1, <3>2
  <2>. QED
    BY <1>4, <2>1 DEF Later
<1>. QED
  BY <1>9, <1>10, <1>11 DEF g

(* jarray_put and jobject_put take over the references to the item; what was at
   its place is released. *)
LEMMA StoredGood ==
  ASSUME NEW h, NEW o, Good(h, {}, o), NEW p \in DOMAIN h, o[p] > 0, NEW i \in 1 .. MaxItems,
         NEW item \in ItemOf(h[p].kind), h[p].kind = "object" => i <= Len(h[p].items) + 1,
         \A q \in Addresses : Times(item, q) <= o[q]
  PROVE  Good(Stored(h, p, i, item), {}, MinusItem(o, item)) /\ Later(h, Stored(h, p, i, item))
<1>. DEFINE items == h[p].items
            n == Len(items)
            old == items[i]
            X == Place(h, p, i)
            f == IF i <= n THEN AllReleased(h, old) ELSE h
            g == [f EXCEPT ![p].items = Longer(items, i, item)]
<1>1. HeapTyped(h) /\ items \in Seq(Item) /\ p \in Addresses /\ i \in Nat \ {0}
  BY DEF Good, HeapTyped, Proper, Node
<1>2. n \in Nat /\ DOMAIN items = 1 .. n
  BY <1>1
<1>3. Good(f, X, o) /\ Keeps(h, f)
  <2>1. CASE i <= n
    <3>1. i \in DOMAIN items /\ old \in Item
      BY <1>1, <1>2, <2>1
    <3>. DEFINE r == PlusItem(o, old)
    <3>2. Good(h, X, r)
      BY <3>1, GivenUp
    <3>3. \A q \in Addresses : /\ o[q] \in Nat /\ Times(old, q) \in Nat
                               /\ r[q] = o[q] + Times(old, q)
      BY <3>1, TimesFacts DEF Good, PlusItem
    <3>4. \A q \in Addresses : Times(old, q) <= r[q]
      BY <3>3
    <3>5. MinusItem(r, old) = o
      <4>1. \A q \in Addresses : r[q] - Times(old, q) = o[q]
        BY <3>3
      <4>2. MinusItem(r, old) = [q \in Addresses |-> o[q]]
        BY <4>1 DEF MinusItem
      <4>. QED
        BY <4>2 DEF Good
    <3>6. X \subseteq Cells(h, {p})
      BY DEF Place
    <3>. HIDE DEF X, r, old
    <3>7. Good(AllReleased(h, old), X, MinusItem(r, old)) /\ Keeps(h, AllReleased(h, old))
      BY <3>1, <3>2, <3>4, <3>5, <3>6, AllReleasedGood
    <3>. QED
      BY <2>1, <3>5, <3>7
  <2>2. CASE ~(i <= n)
    <3>1. X = {}
      <4>1. ASSUME NEW c \in Cells(h, {p}) PROVE c[2] # i
        <5>1. c[1] \in {p} /\ c[2] \in 1 .. Len(h[c[1]].items)
          BY <1>1, CellFacts
        <5>. QED
          BY <1>2, <2>2, <5>1
      <4>. QED
        BY <4>1 DEF Place
    <3>2. f = h
      BY <2>2
    <3>. QED
      BY <3>1, <3>2 DEF Keeps
  <2>. QED
    BY <2>1, <2>2
<1>. HIDE DEF f
<1>4. p \in DOMAIN f /\ HeapTyped(f)
  BY <1>1, <1>3 DEF Good
<1>5. f[p].items = items /\ f[p].kind = h[p].kind
  BY <1>3, <1>4 DEF Keeps
<1>6. Place(f, p, i) = X
  <2>1. Cells(f, {p}) = Cells(h, {p})
    BY <1>5, CellsSame
  <2>. QED
    BY <2>1 DEF Place
<1>7. HeapTyped(g) /\ Differ(f, g, p, i, item) /\ Later(f, g)
  BY <1>4, <1>5, LongerTyped
<1>8. Stored(h, p, i, item) = g
  <2>1. Longer(items, i, item) = [j \in 1 .. (IF i > n THEN i ELSE n) |->
            IF j = i THEN item ELSE IF j <= n THEN f[p].items[j] ELSE <<Null>>]
    BY <1>5 DEF Longer
  <2>2. Stored(h, p, i, item) = [f EXCEPT ![p].items = [j \in 1 .. (IF i > n THEN i ELSE n) |->
            IF j = i THEN item ELSE IF j <= n THEN f[p].items[j] ELSE <<Null>>]]
    BY DEF Stored, f
  <2>. QED
    BY <2>1, <2>2
<1>. HIDE DEF g
<1>9. Good(g, {}, MinusItem(o, item))
  BY <1>1, <1>3, <1>4, <1>5, <1>6, <1>7, OverwrittenGood
<1>10. Later(h, g)
  BY <1>1, <1>3, <1>4, <1>7, KeepsLater, LaterThrough
<1>. QED
  BY <1>8, <1>9, <1>10

-------------------------------------------------------------------------------
(* A document becomes part of the heap. *)

DocItem(doc, n) == [1 .. Width(doc[n].kind) -> 2 .. Len(doc)]

LEMMA DocumentFacts ==
  ASSUME NEW doc \in Documents
  PROVE  /\ Len(doc) \in Nat \ {0} /\ DOMAIN doc = 1 .. Len(doc)
         /\ \A n \in 1 .. Len(doc) :
              /\ doc[n].kind \in Kinds /\ doc[n].text \in Texts
              /\ doc[n].items \in Seq(DocItem(doc, n)) /\ Len(doc[n].items) <= MaxItems
         /\ IsFiniteSet(Cells(doc, DOMAIN doc))
<1>1. Len(doc) \in Nat \ {0} /\ DOMAIN doc = 1 .. Len(doc)
  BY DocumentsAreTrees
<1>2. ASSUME NEW n \in 1 .. Len(doc)
      PROVE  /\ doc[n].kind \in Kinds /\ doc[n].text \in Texts
             /\ doc[n].items \in Seq(DocItem(doc, n)) /\ Len(doc[n].items) <= MaxItems
  <2>1. /\ doc[n].kind \in Kinds
        /\ doc[n].items \in Seq([1 .. Width(doc[n].kind) -> 2 .. Len(doc)])
        /\ Len(doc[n].items) <= IF doc[n].kind = "string" THEN 0 ELSE MaxItems
    BY <1>1, DocumentsAreTrees
  <2>2. Len(doc[n].items) <= MaxItems
    BY <2>1, HandleConstants
  <2>3. doc[n].text \in Texts
    BY <1>1 DEF Texts
  <2>. QED
    BY <2>1, <2>2, <2>3 DEF DocItem
<1>3. ASSUME NEW c \in Cells(doc, DOMAIN doc)
      PROVE  /\ c[1] \in DOMAIN doc /\ c[2] \in 1 .. MaxItems /\ c[3] \in {1, 2}
             /\ c = <<c[1], c[2], c[3]>>
  <2>1. PICK n \in 1 .. Len(doc) :
          \E i \in DOMAIN doc[n].items : \E j \in DOMAIN doc[n].items[i] : c = <<n, i, j>>
    BY <1>1, CellIs
  <2>2. PICK i \in DOMAIN doc[n].items : \E j \in DOMAIN doc[n].items[i] : c = <<n, i, j>>
    BY <2>1
  <2>3. PICK j \in DOMAIN doc[n].items[i] : c = <<n, i, j>>
    BY <2>2
  <2>4. doc[n].items \in Seq(DocItem(doc, n)) /\ Len(doc[n].items) <= MaxItems
    BY <1>2
  <2>5. i \in 1 .. Len(doc[n].items) /\ Len(doc[n].items) \in Nat /\ doc[n].items[i] \in DocItem(doc, n)
    BY <2>4
  <2>6. i \in 1 .. MaxItems
    BY <2>4, <2>5, HandleConstants
  <2>7. j \in 1 .. Width(doc[n].kind)
    BY <2>5 DEF DocItem
  <2>8. j \in {1, 2}
    BY <2>7 DEF Width
  <2>. QED
    BY <1>1, <2>3, <2>6, <2>8
<1>4. IsFiniteSet(DOMAIN doc)
  <2>1. 1 \in Int /\ Len(doc) \in Int
    BY <1>1
  <2>. QED
    BY <1>1, <2>1, FS_Interval
<1>. QED
  BY <1>1, <1>2, <1>3, <1>4, CellsBounded

(* The places where a document is laid *)
Laying(h, doc, at) ==
  /\ at \in [1 .. Len(doc) -> Addresses \ DOMAIN h]
  /\ \A n, k \in 1 .. Len(doc) : at[n] = at[k] => n = k

(* The addresses of a document, and its node n there *)
Places(doc, at) == {at[n] : n \in 1 .. Len(doc)}
Inner(doc, at, n) ==
  [i \in DOMAIN doc[n].items |-> [j \in DOMAIN doc[n].items[i] |-> at[doc[n].items[i][j]]]]
Laid(doc, at, n) ==
  [kind |-> doc[n].kind, text |-> doc[n].text, cnt |-> 1, items |-> Inner(doc, at, n)]

LEMMA InnerFacts ==
  ASSUME NEW doc \in Documents, NEW at, \A k \in 1 .. Len(doc) : at[k] \in Addresses,
         NEW n \in 1 .. Len(doc)
  PROVE  /\ Inner(doc, at, n) \in Seq(ItemOf(doc[n].kind))
         /\ Len(Inner(doc, at, n)) = Len(doc[n].items)
         /\ DOMAIN Inner(doc, at, n) = DOMAIN doc[n].items
         /\ \A i \in DOMAIN doc[n].items :
              /\ DOMAIN Inner(doc, at, n)[i] = DOMAIN doc[n].items[i]
              /\ \A j \in DOMAIN doc[n].items[i] :
                   /\ doc[n].items[i][j] \in 2 .. Len(doc)
                   /\ Inner(doc, at, n)[i][j] = at[doc[n].items[i][j]]
<1>. DEFINE items == doc[n].items
            inner == Inner(doc, at, n)
            w == Width(doc[n].kind)
<1>1. items \in Seq([1 .. w -> 2 .. Len(doc)]) /\ Len(doc) \in Nat
  BY DocumentFacts DEF DocItem
<1>2. inner = [i \in DOMAIN items |-> [j \in DOMAIN items[i] |-> at[items[i][j]]]]
  BY DEF Inner
<1>. HIDE DEF items, inner, w
<1>3. /\ Len(items) \in Nat /\ DOMAIN items = 1 .. Len(items)
      /\ \A i \in 1 .. Len(items) : items[i] \in [1 .. w -> 2 .. Len(doc)]
  BY <1>1
<1>4. DOMAIN inner = 1 .. Len(items)
  BY <1>2, <1>3
<1>5. ASSUME NEW i \in 1 .. Len(items)
      PROVE  /\ inner[i] \in ItemOf(doc[n].kind)
             /\ DOMAIN inner[i] = DOMAIN items[i]
             /\ \A j \in DOMAIN items[i] : items[i][j] \in 2 .. Len(doc) /\ inner[i][j] = at[items[i][j]]
  <2>1. inner[i] = [j \in DOMAIN items[i] |-> at[items[i][j]]]
    BY <1>2, <1>3
  <2>2. DOMAIN items[i] = 1 .. w /\ \A j \in 1 .. w : items[i][j] \in 2 .. Len(doc)
    BY <1>3
  <2>3. \A k \in 2 .. Len(doc) : k \in 1 .. Len(doc)
    BY <1>1
  <2>4. \A j \in 1 .. w : at[items[i][j]] \in Value
    BY <2>2, <2>3 DEF Value
  <2>5. inner[i] \in [1 .. w -> Value]
    BY <2>1, <2>2, <2>4
  <2>. QED
    BY <2>1, <2>2, <2>5 DEF ItemOf, w
<1>6. inner \in [1 .. Len(items) -> ItemOf(doc[n].kind)]
  <2>1. inner = [i \in 1 .. Len(items) |-> inner[i]]
    BY <1>2, <1>3
  <2>. QED
    BY <1>5, <2>1
<1>7. inner \in Seq(ItemOf(doc[n].kind))
  BY <1>3, <1>6, IsASeq
<1>8. Len(inner) = Len(items)
  BY <1>3, <1>6, <1>7, LenProperties
<1>9. DOMAIN inner = DOMAIN items
  BY <1>3, <1>4
<1>10. \A i \in DOMAIN items :
         /\ DOMAIN inner[i] = DOMAIN items[i]
         /\ \A j \in DOMAIN items[i] : items[i][j] \in 2 .. Len(doc) /\ inner[i][j] = at[items[i][j]]
  BY <1>3, <1>5
<1>. QED
  BY <1>7, <1>8, <1>9, <1>10 DEF items, inner

LEMMA CreatedIs ==
  ASSUME NEW h, HeapTyped(h), NEW doc \in Documents, NEW at, Laying(h, doc, at)
  PROVE  /\ DOMAIN Created(h, doc, at) = DOMAIN h \cup Places(doc, at)
         /\ \A q \in DOMAIN h : Created(h, doc, at)[q] = h[q]
         /\ \A n \in 1 .. Len(doc) : Created(h, doc, at)[at[n]] = Laid(doc, at, n)
         /\ HeapTyped(Created(h, doc, at))
<1>. DEFINE g == Created(h, doc, at)
            D == DOMAIN h \cup ToSet(at)
            Which(p) == CHOOSE i \in DOMAIN doc : at[i] = p
<1>1. /\ Len(doc) \in Nat \ {0} /\ DOMAIN doc = 1 .. Len(doc)
      /\ \A n \in 1 .. Len(doc) :
           doc[n].kind \in Kinds /\ doc[n].text \in Texts /\ Len(doc[n].items) <= MaxItems
  BY DocumentFacts
<1>2. ToSet(at) = Places(doc, at)
  BY DEF ToSet, Laying, Places
<1>3. g = [p \in D |-> IF p \in DOMAIN h THEN h[p] ELSE Laid(doc, at, Which(p))]
  BY DEF Created, Laid, Inner
<1>. HIDE DEF g
<1>4. ASSUME NEW n \in 1 .. Len(doc) PROVE at[n] \in Addresses /\ g[at[n]] = Laid(doc, at, n)
  <2>1. at[n] \in D /\ at[n] \notin DOMAIN h /\ at[n] \in Addresses
    BY <1>2 DEF Laying, Places
  <2>2. Which(at[n]) = n
    BY <1>1 DEF Laying
  <2>. HIDE DEF Which
  <2>. QED
    BY <1>3, <2>1, <2>2
<1>. HIDE DEF Which
<1>5. DOMAIN g = D /\ g = [q \in DOMAIN g |-> g[q]] /\ \A q \in DOMAIN h : g[q] = h[q]
  BY <1>3
<1>6. ASSUME NEW n \in 1 .. Len(doc) PROVE Proper(Laid(doc, at, n))
  <2>. DEFINE inner == Inner(doc, at, n)
  <2>1. inner \in Seq(ItemOf(doc[n].kind)) /\ Len(inner) <= MaxItems
    <3>1. \A k \in 1 .. Len(doc) : at[k] \in Addresses
      BY <1>4
    <3>2. inner \in Seq(ItemOf(doc[n].kind)) /\ Len(inner) = Len(doc[n].items)
      BY <3>1, InnerFacts
    <3>. QED
      BY <1>1, <3>2
  <2>2. doc[n].kind \in Kinds /\ doc[n].text \in Texts
    BY <1>1
  <2>. HIDE DEF inner
  <2>3. Len(inner) \in Nat /\ inner \in [1 .. Len(inner) -> ItemOf(doc[n].kind)]
    BY <2>1, LenProperties
  <2>4. inner \in [1 .. Len(inner) -> Item]
    BY <2>3, KindItem
  <2>5. inner \in Seq(Item)
    BY <2>3, <2>4, IsASeq
  <2>6. Laid(doc, at, n) = [kind |-> doc[n].kind, text |-> doc[n].text, cnt |-> 1, items |-> inner]
    BY DEF Laid, inner
  <2>. QED
    BY <2>1, <2>2, <2>5, <2>6 DEF Proper, Node
<1>7. ASSUME NEW q \in D PROVE q \in Addresses /\ Proper(g[q])
  <2>1. CASE q \in DOMAIN h
    BY <1>5, <2>1 DEF HeapTyped
  <2>2. CASE q \notin DOMAIN h
    <3>1. PICK n \in 1 .. Len(doc) : q = at[n]
      BY <1>2, <2>2 DEF Places
    <3>. QED
      BY <1>4, <1>6, <3>1
  <2>. QED
    BY <2>1, <2>2
<1>8. HeapTyped(g)
  BY <1>5, <1>7 DEF HeapTyped
<1>. QED
  BY <1>2, <1>4, <1>5, <1>8 DEF g

(* What the places of a laid document refer to *)
LEMMA LaidCells ==
  ASSUME NEW h, HeapTyped(h), NEW doc \in Documents, NEW at, Laying(h, doc, at), NEW g,
         \A k \in 1 .. Len(doc) : g[at[k]] = Laid(doc, at, k), NEW c
  PROVE  /\ c \in Cells(g, Places(doc, at)) <=>
              \E d \in Cells(doc, DOMAIN doc) : c = <<at[d[1]], d[2], d[3]>>
         /\ \A d \in Cells(doc, DOMAIN doc) :
              /\ d[1] \in 1 .. Len(doc) /\ At(doc, d) \in 2 .. Len(doc)
              /\ At(g, <<at[d[1]], d[2], d[3]>>) = at[At(doc, d)]
<1>. DEFINE N == Places(doc, at)
<1>1. DOMAIN doc = 1 .. Len(doc)
  BY DocumentFacts
<1>2. ASSUME NEW n \in 1 .. Len(doc)
      PROVE  /\ DOMAIN Inner(doc, at, n) = DOMAIN doc[n].items
             /\ \A i \in DOMAIN doc[n].items :
                  /\ DOMAIN Inner(doc, at, n)[i] = DOMAIN doc[n].items[i]
                  /\ \A j \in DOMAIN doc[n].items[i] :
                       /\ doc[n].items[i][j] \in 2 .. Len(doc)
                       /\ Inner(doc, at, n)[i][j] = at[doc[n].items[i][j]]
  <2>1. \A k \in 1 .. Len(doc) : at[k] \in Addresses
    BY DEF Laying
  <2>. QED
    BY <2>1, InnerFacts
<1>3. ASSUME NEW n \in 1 .. Len(doc) PROVE g[at[n]].items = Inner(doc, at, n) /\ at[n] \in N
  <2>1. g[at[n]] = Laid(doc, at, n)
    OBVIOUS
  <2>. QED
    BY <2>1 DEF Laid, Places
<1>4. ASSUME NEW n \in 1 .. Len(doc), NEW i \in DOMAIN doc[n].items, NEW j \in DOMAIN doc[n].items[i]
      PROVE  /\ At(doc, <<n, i, j>>) \in 2 .. Len(doc)
             /\ At(g, <<at[n], i, j>>) = at[At(doc, <<n, i, j>>)]
             /\ <<at[n], i, j>> \in Cells(g, N)
             /\ <<n, i, j>> \in Cells(doc, DOMAIN doc)
  <2>1. At(doc, <<n, i, j>>) = doc[n].items[i][j]
    BY DEF At
  <2>2. At(g, <<at[n], i, j>>) = Inner(doc, at, n)[i][j]
    BY <1>3 DEF At
  <2>3. doc[n].items[i][j] \in 2 .. Len(doc) /\ Inner(doc, at, n)[i][j] = at[doc[n].items[i][j]]
    BY <1>2
  <2>4. i \in DOMAIN g[at[n]].items /\ j \in DOMAIN g[at[n]].items[i]
    BY <1>2, <1>3
  <2>5. <<at[n], i, j>> \in Cells(g, N)
    BY <1>3, <2>4, CellIs
  <2>6. <<n, i, j>> \in Cells(doc, DOMAIN doc)
    BY <1>1, CellIs
  <2>. QED
    BY <2>1, <2>2, <2>3, <2>5, <2>6
<1>5. ASSUME c \in Cells(g, N)
      PROVE  \E d \in Cells(doc, DOMAIN doc) : c = <<at[d[1]], d[2], d[3]>>
  <2>1. PICK p \in N : \E i \in DOMAIN g[p].items : \E j \in DOMAIN g[p].items[i] : c = <<p, i, j>>
    BY <1>5, CellIs
  <2>2. PICK n \in 1 .. Len(doc) : p = at[n]
    BY DEF Places
  <2>3. PICK i \in DOMAIN g[p].items : \E j \in DOMAIN g[p].items[i] : c = <<p, i, j>>
    BY <2>1
  <2>4. PICK j \in DOMAIN g[p].items[i] : c = <<p, i, j>>
    BY <2>3
  <2>5. i \in DOMAIN doc[n].items /\ j \in DOMAIN doc[n].items[i]
    BY <1>2, <1>3, <2>2, <2>3, <2>4
  <2>6. <<n, i, j>> \in Cells(doc, DOMAIN doc)
    BY <1>4, <2>5
  <2>. QED
    BY <2>2, <2>4, <2>6
<1>6. ASSUME NEW d \in Cells(doc, DOMAIN doc)
      PROVE  /\ d[1] \in 1 .. Len(doc) /\ At(doc, d) \in 2 .. Len(doc)
             /\ At(g, <<at[d[1]], d[2], d[3]>>) = at[At(doc, d)]
             /\ <<at[d[1]], d[2], d[3]>> \in Cells(g, N)
  <2>1. PICK n \in DOMAIN doc : \E i \in DOMAIN doc[n].items : \E j \in DOMAIN doc[n].items[i] : d = <<n, i, j>>
    BY CellIs
  <2>2. PICK i \in DOMAIN doc[n].items : \E j \in DOMAIN doc[n].items[i] : d = <<n, i, j>>
    BY <2>1
  <2>3. PICK j \in DOMAIN doc[n].items[i] : d = <<n, i, j>>
    BY <2>2
  <2>4. d[1] = n /\ d[2] = i /\ d[3] = j /\ n \in 1 .. Len(doc)
    BY <1>1, <2>3
  <2>5. /\ At(doc, <<n, i, j>>) \in 2 .. Len(doc)
        /\ At(g, <<at[n], i, j>>) = at[At(doc, <<n, i, j>>)]
        /\ <<at[n], i, j>> \in Cells(g, N)
    BY <1>4, <2>4
  <2>. QED
    BY <2>3, <2>4, <2>5
<1>. QED
  BY <1>5, <1>6

(* A document that is made is a good part of the heap: its root is referred to
   by who made it. *)
LEMMA CreatedGood ==
  ASSUME NEW h, NEW o, Good(h, {}, o), NEW doc \in Documents, NEW at, Laying(h, doc, at)
  PROVE  Good(Created(h, doc, at), {}, Plus(o, at[1]))
<1>. DEFINE g == Created(h, doc, at)
            N == Places(doc, at)
            r == Plus(o, at[1])
            A == All(h)
            B == Cells(g, N)
            C == Cells(doc, DOMAIN doc)
<1>1. HeapTyped(h) /\ Len(doc) \in Nat \ {0} /\ DOMAIN doc = 1 .. Len(doc) /\ IsFiniteSet(C)
  BY DocumentFacts DEF Good
<1>2. /\ DOMAIN g = DOMAIN h \cup N
      /\ \A q \in DOMAIN h : g[q] = h[q]
      /\ \A n \in 1 .. Len(doc) : g[at[n]].cnt = 1 /\ g[at[n]] = Laid(doc, at, n)
      /\ HeapTyped(g)
  <2>1. /\ DOMAIN g = DOMAIN h \cup N
        /\ \A q \in DOMAIN h : g[q] = h[q]
        /\ \A n \in 1 .. Len(doc) : g[at[n]] = Laid(doc, at, n)
        /\ HeapTyped(g)
    BY <1>1, CreatedIs
  <2>. HIDE DEF g, N
  <2>2. ASSUME NEW n \in 1 .. Len(doc) PROVE g[at[n]].cnt = 1
    <3>1. g[at[n]] = Laid(doc, at, n)
      BY <2>1
    <3>. QED
      BY <3>1 DEF Laid
  <2>. QED
    BY <2>1, <2>2
<1>3. /\ \A c : c \in B <=> \E d \in C : c = <<at[d[1]], d[2], d[3]>>
      /\ \A d \in C : /\ d[1] \in 1 .. Len(doc) /\ At(doc, d) \in 2 .. Len(doc)
                      /\ At(g, <<at[d[1]], d[2], d[3]>>) = at[At(doc, d)]
  <2>. HIDE DEF g
  <2>. QED
    BY <1>1, <1>2, LaidCells
<1>4. N \cap DOMAIN h = {} /\ N \subseteq Addresses
  BY DEF Laying, Places
<1>. HIDE DEF g, N, C
<1>5. Cells(g, DOMAIN h) = A /\ \A c \in A : At(g, c) = At(h, c)
  <2>1. \A q \in DOMAIN h : h[q].items = g[q].items
    BY <1>2
  <2>2. Cells(h, DOMAIN h) = Cells(g, DOMAIN h) /\ \A c \in Cells(h, DOMAIN h) : At(h, c) = At(g, c)
    BY <2>1, CellsSame
  <2>. QED
    BY <2>2 DEF All
<1>6. All(g) = A \cup B /\ A \cap B = {}
  <2>1. Cells(g, DOMAIN h \cup N) = Cells(g, DOMAIN h) \cup Cells(g, N)
    BY CellsOfUnion
  <2>2. Cells(g, DOMAIN h) \cap Cells(g, N) = {}
    BY <1>4, CellsOfUnion
  <2>3. All(g) = Cells(g, DOMAIN h \cup N)
    BY <1>2 DEF All
  <2>. QED
    BY <1>5, <2>1, <2>2, <2>3
<1>7. IsFiniteSet(A) /\ IsFiniteSet(B)
  BY <1>1, <1>2, CellsFinite DEF All
<1>8. \A q \in Addresses : o[q] \in Nat /\ r[q] = o[q] + (IF q = at[1] THEN 1 ELSE 0)
  BY DEF Good, Plus
<1>9. r \in [Addresses -> Nat]
  BY <1>8 DEF Plus
<1>10. at[1] \in N
  BY <1>1 DEF N, Places
<1>11. \A q \in Addresses : r[q] > 0 => q \in DOMAIN g
  BY <1>2, <1>8, <1>10 DEF Good
<1>12. \A c \in A : At(h, c) \in DOMAIN h \cup Statics
  BY DEF Good
<1>13. \A q \in DOMAIN h : h[q].cnt = o[q] + Count(h, A, q)
  <2>1. A \ {} = A
    OBVIOUS
  <2>. QED
    BY <2>1 DEF Good
<1>14. \A c \in B : At(g, c) \in N \ {at[1]}
  <2>1. SUFFICES ASSUME NEW c \in B PROVE At(g, c) \in N \ {at[1]}
    OBVIOUS
  <2>2. PICK d \in C : c = <<at[d[1]], d[2], d[3]>>
    BY <1>3, <2>1
  <2>3. At(doc, d) \in 2 .. Len(doc) /\ At(g, c) = at[At(doc, d)]
    BY <1>3, <2>2
  <2>4. At(doc, d) \in 1 .. Len(doc) /\ At(doc, d) # 1 /\ 1 \in 1 .. Len(doc)
    BY <1>1, <2>3
  <2>5. at[At(doc, d)] # at[1]
    BY <2>4 DEF Laying
  <2>. QED
    BY <2>3, <2>4, <2>5 DEF N, Places
<1>15. ASSUME NEW k \in 2 .. Len(doc) PROVE Count(g, B, at[k]) = 1
  <2>. DEFINE S == {c \in B : At(g, c) = at[k]}
              T == {d \in C : At(doc, d) = k}
  <2>1. Cardinality(T) = 1
    <3>1. Refs(doc, DOMAIN doc, k) = 1
      BY DocumentsAreTrees
    <3>. QED
      BY <3>1 DEF Refs, C
  <2>2. IsFiniteSet(T)
    BY <1>1, FS_Subset
  <2>3. PICK d : T = {d}
    <3>. HIDE DEF T
    <3>. QED
      BY <2>1, <2>2, FS_Singleton
  <2>4. d \in C /\ At(doc, d) = k
    BY <2>3
  <2>. DEFINE e == <<at[d[1]], d[2], d[3]>>
  <2>5. e \in S
    BY <1>3, <2>4
  <2>6. ASSUME NEW c \in S PROVE c = e
    <3>1. PICK x \in C : c = <<at[x[1]], x[2], x[3]>>
      BY <1>3
    <3>2. at[At(doc, x)] = at[k] /\ At(doc, x) \in 2 .. Len(doc)
      BY <1>3, <3>1
    <3>3. At(doc, x) = k
      <4>1. At(doc, x) \in 1 .. Len(doc) /\ k \in 1 .. Len(doc)
        BY <1>1, <3>2
      <4>. QED
        BY <3>2, <4>1 DEF Laying
    <3>4. x = d
      BY <2>3, <3>3
    <3>. QED
      BY <3>1, <3>4
  <2>7. S = {e}
    BY <2>5, <2>6
  <2>. HIDE DEF e
  <2>. QED
    BY <2>7, FS_Singleton DEF Count
<1>. HIDE DEF A, B, r
<1>16. ASSUME NEW q \in DOMAIN g PROVE g[q].cnt = r[q] + Count(g, All(g) \ {}, q)
  <2>1. q \in Addresses
    BY <1>2 DEF HeapTyped
  <2>2. Count(g, A \cup B, q) = Count(g, A, q) + Count(g, B, q)
    BY <1>6, <1>7, CountSum
  <2>3. Count(g, All(g) \ {}, q) = Count(g, A, q) + Count(g, B, q)
    <3>1. All(g) \ {} = A \cup B
      BY <1>6
    <3>. QED
      BY <2>2, <3>1
  <2>4. Count(h, A, q) = Count(g, A, q)
    BY <1>5, CountSame
  <2>5. Count(g, A, q) \in Nat /\ Count(g, B, q) \in Nat
    BY <1>7, CountFacts
  <2>6. o[q] \in Nat /\ r[q] = o[q] + (IF q = at[1] THEN 1 ELSE 0)
    BY <1>8, <2>1
  <2>7. CASE q \in DOMAIN h
    <3>1. Count(g, B, q) = 0
      <4>1. \A c \in B : At(g, c) # q
        BY <1>4, <1>14, <2>7
      <4>. QED
        BY <1>7, <4>1, CountFacts
    <3>2. g[q].cnt = o[q] + Count(h, A, q)
      BY <1>2, <1>13, <2>7
    <3>3. q # at[1]
      BY <1>4, <1>10, <2>7
    <3>. QED
      BY <2>3, <2>4, <2>5, <2>6, <3>1, <3>2, <3>3
  <2>8. CASE q \in N
    <3>1. PICK k \in 1 .. Len(doc) : q = at[k]
      BY <2>8 DEF N, Places
    <3>2. Count(g, A, q) = 0
      <4>1. \A c \in A : At(g, c) # q
        BY <1>4, <1>5, <1>12, <2>1, <2>8, StaticsApart
      <4>. QED
        BY <1>7, <4>1, CountFacts
    <3>3. o[q] = 0
      <4>1. q \notin DOMAIN h
        BY <1>4, <2>8
      <4>2. ~(o[q] > 0)
        BY <2>1, <4>1 DEF Good
      <4>. QED
        BY <2>6, <4>2
    <3>4. g[q].cnt = 1
      BY <1>2, <3>1
    <3>5. CASE k = 1
      <4>1. Count(g, B, q) = 0
        <5>1. \A c \in B : At(g, c) # q
          BY <1>14, <3>1, <3>5
        <5>. QED
          BY <1>7, <5>1, CountFacts
      <4>. QED
        BY <2>3, <2>6, <3>1, <3>2, <3>3, <3>4, <3>5, <4>1
    <3>6. CASE k # 1
      <4>1. k \in 2 .. Len(doc)
        BY <1>1, <3>6
      <4>2. Count(g, B, q) = 1
        BY <1>15, <3>1, <4>1
      <4>3. q # at[1]
        <5>1. 1 \in 1 .. Len(doc)
          BY <1>1
        <5>. QED
          BY <3>1, <3>6, <5>1 DEF Laying
      <4>. QED
        BY <2>3, <2>6, <3>2, <3>3, <3>4, <4>2, <4>3
    <3>. QED
      BY <3>5, <3>6
  <2>. QED
    BY <1>2, <2>7, <2>8
<1>17. \A c \in All(g) : At(g, c) \in DOMAIN g \cup Statics
  BY <1>2, <1>5, <1>6, <1>12, <1>14
<1>. QED
  BY <1>2, <1>9, <1>11, <1>16, <1>17 DEF Good, g, r

-------------------------------------------------------------------------------
(* What a client can do *)

(* malloc finds room. *)
LEMMA FreshLaying ==
  ASSUME NEW doc \in Documents, HeapTyped(heap), Room(doc)
  PROVE  Laying(heap, doc, Fresh(doc)) /\ Fresh(doc)[1] \in Addresses \ DOMAIN heap
<1>. DEFINE S == Addresses \ DOMAIN heap
            n == Cardinality(S)
            f == SetToSeq(S)
            m == Len(doc)
            at == SubSeq(f, 1, m)
<1>1. IsFiniteSet(S) /\ n \in Nat
  <2>1. S \in SUBSET Addresses
    OBVIOUS
  <2>2. IsFiniteSet(S)
    BY <2>1, HandleConstants, FS_Subset
  <2>. HIDE DEF S
  <2>. QED
    BY <2>2, FS_CardinalityType
<1>2. m \in Nat \ {0} /\ m <= n
  BY DocumentFacts DEF Room
<1>3. Fresh(doc) = at
  BY DEF Fresh
<1>. HIDE DEF S, m
<1>4. f \in [1 .. n -> S] /\ IsInjective(f)
  <2>1. ExistsBijection(1 .. n, S)
    BY <1>1, FS_CardinalityType
  <2>2. \E g \in [1 .. n -> S] : IsInjective(g)
    BY <2>1 DEF ExistsBijection, Bijection, Injection
  <2>. QED
    BY <2>2 DEF SetToSeq
<1>. HIDE DEF n, f
<1>5. f \in Seq(S) /\ Len(f) = n
  <2>1. f \in Seq(S)
    BY <1>1, <1>4, IsASeq
  <2>. QED
    BY <1>1, <1>4, <2>1, LenProperties
<1>6. /\ at \in Seq(S) /\ Len(at) = m
      /\ \A i \in 1 .. m : at[i] = f[i]
  <2>1. /\ at \in Seq(S)
        /\ Len(at) = m - 1 + 1
        /\ \A i \in 1 .. m - 1 + 1 : at[i] = f[1 + i - 1]
    BY <1>1, <1>2, <1>5, SubSeqProperties
  <2>2. m - 1 + 1 = m
    BY <1>2
  <2>3. \A i \in 1 .. m : 1 + i - 1 = i
    BY <1>2
  <2>. QED
    BY <2>1, <2>2, <2>3
<1>7. at \in [1 .. m -> S]
  BY <1>6, LenProperties
<1>8. ASSUME NEW i \in 1 .. m, NEW k \in 1 .. m, at[i] = at[k] PROVE i = k
  <2>1. i \in 1 .. n /\ k \in 1 .. n
    BY <1>1, <1>2
  <2>2. f[i] = f[k]
    BY <1>6, <1>8
  <2>. QED
    BY <1>4, <2>1, <2>2 DEF IsInjective
<1>9. 1 \in 1 .. m
  BY <1>2
<1>. HIDE DEF at
<1>. QED
  BY <1>3, <1>7, <1>8, <1>9 DEF Laying, S, m

(* How many of the elements of S f maps to q *)
Users(S, f, q) == Cardinality({x \in S : f[x] = q})

LEMMA UsersFacts ==
  ASSUME NEW S, IsFiniteSet(S), NEW f, NEW q
  PROVE  /\ Users(S, f, q) \in Nat
         /\ Users(S, f, q) > 0 <=> \E x \in S : f[x] = q
<1>. DEFINE A == {x \in S : f[x] = q}
<1>1. A \in SUBSET S
  OBVIOUS
<1>2. IsFiniteSet(A)
  BY <1>1, FS_Subset
<1>3. A # {} <=> \E x \in S : f[x] = q
  OBVIOUS
<1>. HIDE DEF A
<1>4. Cardinality(A) \in Nat /\ (Cardinality(A) = 0 <=> A = {})
  BY <1>2, FS_CardinalityType, FS_EmptySet
<1>. QED
  BY <1>3, <1>4 DEF Users, A

(* One user of them lets go of its value and takes up r. *)
LEMMA UsersChange ==
  ASSUME NEW S, IsFiniteSet(S), NEW f, NEW x \in S, NEW g,
         \A y \in S : y # x => g[y] = f[y], NEW q
  PROVE  Users(S, g, q) = Users(S, f, q) - (IF f[x] = q THEN 1 ELSE 0) + (IF g[x] = q THEN 1 ELSE 0)
<1>. DEFINE A == {y \in S : f[y] = q}
            B == {y \in S : g[y] = q}
<1>1. A \in SUBSET S /\ B \in SUBSET S
  OBVIOUS
<1>2. IsFiniteSet(A) /\ IsFiniteSet(B)
  BY <1>1, FS_Subset
<1>3. A \ {x} = B \ {x}
  OBVIOUS
<1>4. (x \in A <=> f[x] = q) /\ (x \in B <=> g[x] = q)
  OBVIOUS
<1>. HIDE DEF A, B
<1>5. Cardinality(A \ {x}) = IF x \in A THEN Cardinality(A) - 1 ELSE Cardinality(A)
  BY <1>2, FS_RemoveElement
<1>6. Cardinality(B \ {x}) = IF x \in B THEN Cardinality(B) - 1 ELSE Cardinality(B)
  BY <1>2, FS_RemoveElement
<1>7. Cardinality(A) \in Nat /\ Cardinality(B) \in Nat
  BY <1>2, FS_CardinalityType
<1>8. Cardinality(B) = Cardinality(A) - (IF f[x] = q THEN 1 ELSE 0) + (IF g[x] = q THEN 1 ELSE 0)
  BY <1>3, <1>4, <1>5, <1>6, <1>7
<1>. QED
  BY <1>8 DEF Users, A, B

(* The references that handles and iterators have, and those that are lost *)
Held(a, b, l) ==
  [q \in Addresses |-> Users(Handles, a, q)
                       + Users(Walks, [w \in Walks |-> b[w].object], q) + l[q]]

Losses == [Addresses -> 0 .. MaxLost]

LEMMA HeldFacts ==
  ASSUME NEW a, NEW b, NEW l \in Losses
  PROVE  /\ Held(a, b, l) \in [Addresses -> Nat]
         /\ \A x \in Handles : a[x] \in Addresses => Held(a, b, l)[a[x]] > 0
         /\ \A w \in Walks : b[w].object \in Addresses => Held(a, b, l)[b[w].object] > 0
<1>. DEFINE f == [w \in Walks |-> b[w].object]
            H == Held(a, b, l)
<1>1. ASSUME NEW q \in Addresses
      PROVE  /\ H[q] \in Nat
             /\ H[q] >= Users(Handles, a, q) /\ H[q] >= Users(Walks, f, q)
             /\ Users(Handles, a, q) \in Nat /\ Users(Walks, f, q) \in Nat
  <2>1. Users(Handles, a, q) \in Nat /\ Users(Walks, f, q) \in Nat
    BY HandleConstants, UsersFacts
  <2>2. l[q] \in Nat
    BY HandleConstants DEF Losses
  <2>3. H[q] = Users(Handles, a, q) + Users(Walks, f, q) + l[q]
    BY DEF Held
  <2>. HIDE DEF H, f
  <2>. QED
    BY <2>1, <2>2, <2>3
<1>2. H = [q \in Addresses |-> H[q]]
  BY DEF Held
<1>3. \A x \in Handles : Users(Handles, a, a[x]) > 0
  BY HandleConstants, UsersFacts
<1>4. \A w \in Walks : Users(Walks, f, b[w].object) > 0
  <2>1. \A w \in Walks : f[w] = b[w].object
    OBVIOUS
  <2>. HIDE DEF f
  <2>. QED
    BY <2>1, HandleConstants, UsersFacts
<1>. HIDE DEF H, f
<1>5. H \in [Addresses -> Nat]
  BY <1>1, <1>2
<1>6. \A x \in Handles : a[x] \in Addresses => H[a[x]] > 0
  BY <1>1, <1>3
<1>7. \A w \in Walks : b[w].object \in Addresses => H[b[w].object] > 0
  BY <1>1, <1>4
<1>. QED
  BY <1>5, <1>6, <1>7 DEF H

(* A handle takes a value. *)
LEMMA HeldByHand ==
  ASSUME NEW a, NEW b, NEW l \in Losses, NEW x \in Handles, NEW c,
         \A y \in Handles : y # x => c[y] = a[y]
  PROVE  Held(c, b, l) = Plus(Minus(Held(a, b, l), a[x]), c[x])
<1>. DEFINE f == [w \in Walks |-> b[w].object]
            H == Held(a, b, l)
            K == Held(c, b, l)
            p == c[x]
<1>1. c[x] = p
  OBVIOUS
<1>. HIDE DEF p
<1>2. ASSUME NEW q \in Addresses
      PROVE  K[q] = H[q] - (IF q = a[x] THEN 1 ELSE 0) + (IF q = p THEN 1 ELSE 0)
  <2>1. Users(Handles, c, q)
          = Users(Handles, a, q) - (IF a[x] = q THEN 1 ELSE 0) + (IF c[x] = q THEN 1 ELSE 0)
    BY HandleConstants, UsersChange
  <2>2. Users(Handles, a, q) \in Nat /\ Users(Walks, f, q) \in Nat /\ l[q] \in Nat
    BY HandleConstants, UsersFacts DEF Losses
  <2>3. H[q] = Users(Handles, a, q) + Users(Walks, f, q) + l[q]
    BY DEF Held
  <2>4. K[q] = Users(Handles, c, q) + Users(Walks, f, q) + l[q]
    BY DEF Held
  <2>. HIDE DEF H, K, f
  <2>. QED
    BY <1>1, <2>1, <2>2, <2>3, <2>4
<1>3. K = [q \in Addresses |-> K[q]]
  BY DEF Held
<1>. HIDE DEF H, K
<1>4. Plus(Minus(H, a[x]), p)
        = [q \in Addresses |-> H[q] - (IF q = a[x] THEN 1 ELSE 0) + (IF q = p THEN 1 ELSE 0)]
  BY DEF Plus, Minus
<1>5. K = Plus(Minus(H, a[x]), p)
  BY <1>2, <1>3, <1>4
<1>. QED
  BY <1>5 DEF H, K, p

(* An iterator takes an object. *)
LEMMA HeldByWalk ==
  ASSUME NEW a, NEW b, NEW l \in Losses, NEW w \in Walks, NEW d,
         \A v \in Walks : v # w => d[v].object = b[v].object
  PROVE  Held(a, d, l) = Plus(Minus(Held(a, b, l), b[w].object), d[w].object)
<1>. DEFINE f == [v \in Walks |-> b[v].object]
            g == [v \in Walks |-> d[v].object]
            H == Held(a, b, l)
            K == Held(a, d, l)
            old == b[w].object
            p == d[w].object
<1>1. f[w] = old /\ g[w] = p /\ \A v \in Walks : v # w => g[v] = f[v]
  OBVIOUS
<1>2. \A q \in Addresses :
        /\ H[q] = Users(Handles, a, q) + Users(Walks, f, q) + l[q]
        /\ K[q] = Users(Handles, a, q) + Users(Walks, g, q) + l[q]
  BY DEF Held
<1>3. K = [q \in Addresses |-> K[q]]
  BY DEF Held
<1>. HIDE DEF f, g, H, K, old, p
<1>4. ASSUME NEW q \in Addresses
      PROVE  K[q] = H[q] - (IF q = old THEN 1 ELSE 0) + (IF q = p THEN 1 ELSE 0)
  <2>1. Users(Walks, g, q)
          = Users(Walks, f, q) - (IF f[w] = q THEN 1 ELSE 0) + (IF g[w] = q THEN 1 ELSE 0)
    BY <1>1, HandleConstants, UsersChange
  <2>2. Users(Handles, a, q) \in Nat /\ Users(Walks, f, q) \in Nat /\ l[q] \in Nat
    BY HandleConstants, UsersFacts DEF Losses
  <2>. QED
    BY <1>1, <1>2, <2>1, <2>2
<1>5. Plus(Minus(H, old), p)
        = [q \in Addresses |-> H[q] - (IF q = old THEN 1 ELSE 0) + (IF q = p THEN 1 ELSE 0)]
  BY DEF Plus, Minus
<1>6. K = Plus(Minus(H, old), p)
  BY <1>3, <1>4, <1>5
<1>. QED
  BY <1>6 DEF H, K, old, p

(* References are lost. *)
LEMMA HeldByLoss ==
  ASSUME NEW a, NEW b, NEW l \in Losses, NEW item \in Item, NEW k,
         k = [q \in Addresses |-> l[q] + Times(item, q)]
  PROVE  Held(a, b, k) = PlusItem(Held(a, b, l), item)
<1>. DEFINE f == [w \in Walks |-> b[w].object]
            H == Held(a, b, l)
            K == Held(a, b, k)
<1>1. \A q \in Addresses :
        /\ H[q] = Users(Handles, a, q) + Users(Walks, f, q) + l[q]
        /\ K[q] = Users(Handles, a, q) + Users(Walks, f, q) + k[q]
  BY DEF Held
<1>2. K = [q \in Addresses |-> K[q]]
  BY DEF Held
<1>. HIDE DEF f, H, K
<1>3. ASSUME NEW q \in Addresses PROVE K[q] = H[q] + Times(item, q)
  <2>1. Users(Handles, a, q) \in Nat /\ Users(Walks, f, q) \in Nat /\ l[q] \in Nat
    BY HandleConstants, UsersFacts DEF Losses
  <2>2. Times(item, q) \in Nat
    BY TimesFacts
  <2>3. k[q] = l[q] + Times(item, q)
    OBVIOUS
  <2>. QED
    BY <1>1, <2>1, <2>2, <2>3
<1>4. K = PlusItem(H, item)
  BY <1>2, <1>3 DEF PlusItem
<1>. QED
  BY <1>4 DEF H, K

(* The bound of the losses, and what is lost with an item *)
LEMMA LoseFacts ==
  ASSUME lost \in Losses, NEW item \in Item, Lose(item)
  PROVE  /\ lost' \in Losses
         /\ lost' = [q \in Addresses |-> lost[q] + Times(item, q)]
<1>1. ASSUME NEW q \in Addresses
      PROVE  Cardinality({i \in DOMAIN item : item[i] = q}) = Times(item, q)
  <2>. DEFINE S == {i \in DOMAIN item : item[i] = q}
              one == IF item[1] = q THEN {1} ELSE {}
              two == IF Len(item) = 2 /\ item[2] = q THEN {2} ELSE {}
  <2>1. Len(item) \in {1, 2} /\ DOMAIN item = 1 .. Len(item)
    BY ItemFacts
  <2>2. S = one \cup two /\ one \cap two = {}
    BY <2>1
  <2>3. /\ IsFiniteSet(one) /\ Cardinality(one) = IF item[1] = q THEN 1 ELSE 0
        /\ IsFiniteSet(two) /\ Cardinality(two) = IF Len(item) = 2 /\ item[2] = q THEN 1 ELSE 0
    BY FS_Singleton, FS_EmptySet
  <2>. HIDE DEF one, two
  <2>4. Cardinality(one \cup two) = Cardinality(one) + Cardinality(two) - Cardinality(one \cap two)
    BY <2>3, FS_Union
  <2>5. Cardinality(one \cap two) = 0
    BY <2>2, FS_EmptySet
  <2>. QED
    BY <2>2, <2>3, <2>4, <2>5 DEF Times
<1>2. Added(item) = [q \in Addresses |-> lost[q] + Times(item, q)]
  BY <1>1 DEF Added
<1>. DEFINE B == {r \in Addresses \X (1 .. MaxLost + 1) : r[2] <= Added(item)[r[1]]}
<1>3. IsFiniteSet(B) /\ Cardinality(B) <= MaxLost
  <2>1. IsFiniteSet(1 .. MaxLost + 1)
    BY HandleConstants, FS_Interval
  <2>2. IsFiniteSet(Addresses \X (1 .. MaxLost + 1))
    BY <2>1, HandleConstants, FS_Product
  <2>3. B \in SUBSET (Addresses \X (1 .. MaxLost + 1))
    OBVIOUS
  <2>4. IsFiniteSet(B)
    BY <2>2, <2>3, FS_Subset
  <2>. QED
    BY <2>4 DEF Lose
<1>4. ASSUME NEW q \in Addresses PROVE lost[q] + Times(item, q) \in 0 .. MaxLost
  <2>1. lost[q] + Times(item, q) \in Nat
    <3>1. lost[q] \in Nat
      BY HandleConstants DEF Losses
    <3>2. Times(item, q) \in Nat
      BY TimesFacts
    <3>. QED
      BY <3>1, <3>2
  <2>2. ASSUME lost[q] + Times(item, q) > MaxLost PROVE FALSE
    <3>. DEFINE f == [i \in 1 .. MaxLost + 1 |-> <<q, i>>]
    <3>1. \A i \in 1 .. MaxLost + 1 : <<q, i>> \in B
      BY <1>2, <2>1, <2>2, HandleConstants
    <3>2. f \in Injection(1 .. MaxLost + 1, B)
      <4>. HIDE DEF B
      <4>. QED
        BY <3>1 DEF Injection, IsInjective
    <3>. HIDE DEF f, B
    <3>3. Cardinality(1 .. MaxLost + 1) <= Cardinality(B)
      BY <1>3, <3>2, FS_Injection
    <3>4. Cardinality(1 .. MaxLost + 1) = MaxLost + 1
      BY HandleConstants, FS_Interval
    <3>5. Cardinality(B) \in Nat
      BY <1>3, FS_CardinalityType
    <3>. QED
      BY <1>3, <3>3, <3>4, <3>5, HandleConstants
  <2>. QED
    BY <2>1, <2>2, HandleConstants
<1>5. lost' = [q \in Addresses |-> lost[q] + Times(item, q)]
  BY <1>2 DEF Lose
<1>6. lost' \in Losses
  BY <1>4, <1>5 DEF Losses
<1>. QED
  BY <1>5, <1>6

-------------------------------------------------------------------------------
(* A handle or an iterator takes a value *)

HeldIn(o, p) == p \in Addresses => o[p] > 0

LEMMA SumsCommute ==
  ASSUME NEW o \in [Addresses -> Int], NEW p, NEW r
  PROVE  /\ Plus(o, p) \in [Addresses -> Int] /\ Minus(o, p) \in [Addresses -> Int]
         /\ Minus(Plus(o, p), p) = o /\ Plus(Minus(o, p), p) = o
         /\ Minus(Plus(o, p), r) = Plus(Minus(o, r), p)
<1>1. Plus(o, p) \in [Addresses -> Int] /\ Minus(o, p) \in [Addresses -> Int]
  BY DEF Plus, Minus
<1>2. \A q \in Addresses : /\ Minus(Plus(o, p), p)[q] = o[q]
                           /\ Plus(Minus(o, p), p)[q] = o[q]
                           /\ Minus(Plus(o, p), r)[q] = Plus(Minus(o, r), p)[q]
  BY DEF Plus, Minus
<1>3. /\ Minus(Plus(o, p), p) = [q \in Addresses |-> Minus(Plus(o, p), p)[q]]
      /\ Plus(Minus(o, p), p) = [q \in Addresses |-> Plus(Minus(o, p), p)[q]]
      /\ Minus(Plus(o, p), r) = [q \in Addresses |-> Minus(Plus(o, p), r)[q]]
      /\ Plus(Minus(o, r), p) = [q \in Addresses |-> Plus(Minus(o, r), p)[q]]
      /\ o = [q \in Addresses |-> o[q]]
  BY DEF Plus, Minus
<1>4. Minus(Plus(o, p), p) = o /\ Plus(Minus(o, p), p) = o
  BY <1>2, <1>3
<1>5. Minus(Plus(o, p), r) = Plus(Minus(o, r), p)
  BY <1>2, <1>3
<1>. QED
  BY <1>1, <1>4, <1>5

(* JValue::operator= *)
LEMMA AssignedGood ==
  ASSUME NEW h, NEW o, Good(h, {}, o), NEW old \in Value, HeldIn(o, old),
         NEW p \in Value, HeldIn(o, p)
  PROVE  /\ Good(Assigned(h, old, p), {}, Plus(Minus(o, old), p))
         /\ Keeps(h, Assigned(h, old, p))
<1>1. o \in [Addresses -> Int]
  BY DEF Good
<1>2. CASE old = p
  <2>1. Assigned(h, old, p) = h
    BY <1>2 DEF Assigned
  <2>2. Plus(Minus(o, old), p) = o
    BY <1>1, <1>2, SumsCommute
  <2>3. Keeps(h, h)
    BY DEF Keeps
  <2>. QED
    BY <2>1, <2>2, <2>3
<1>3. CASE old # p
  <2>. DEFINE g == Released(h, old)
  <2>1. Good(g, {}, Minus(o, old)) /\ Keeps(h, g)
    BY ReleasedGood DEF HeldIn
  <2>2. p \in Addresses => Minus(o, old)[p] > 0
    BY <1>1, <1>3 DEF HeldIn, Minus
  <2>3. Assigned(h, old, p) = Copied(g, p)
    BY <1>3 DEF Assigned
  <2>. HIDE DEF g
  <2>4. Alive(g, p)
    BY <2>1, <2>2, HeldAlive
  <2>5. Good(Copied(g, p), {}, Plus(Minus(o, old), p)) /\ Keeps(g, Copied(g, p))
    BY <2>1, <2>4, CopiedGood
  <2>. QED
    BY <2>1, <2>3, <2>5, KeepsThrough
<1>. QED
  BY <1>2, <1>3

(* The temporary is destroyed after it. *)
LEMMA AdoptedGood ==
  ASSUME NEW h, NEW o \in [Addresses -> Nat], NEW p \in Value, Good(h, {}, Plus(o, p)),
         NEW old \in Value, HeldIn(o, old)
  PROVE  /\ Good(Adopted(h, old, p), {}, Plus(Minus(o, old), p))
         /\ Keeps(h, Adopted(h, old, p))
<1>. DEFINE g == Assigned(h, old, p)
            r == Plus(Minus(Plus(o, p), old), p)
<1>1. o \in [Addresses -> Int]
  OBVIOUS
<1>2. HeldIn(Plus(o, p), p) /\ HeldIn(Plus(o, p), old)
  BY DEF HeldIn, Plus
<1>3. Good(g, {}, r) /\ Keeps(h, g)
  BY <1>2, AssignedGood
<1>4. Plus(o, p) \in [Addresses -> Int] /\ Minus(Plus(o, p), old) = Plus(Minus(o, old), p)
  BY <1>1, SumsCommute
<1>5. Minus(Plus(o, p), old) \in [Addresses -> Int]
  BY <1>4, SumsCommute
<1>6. Minus(r, p) = Plus(Minus(o, old), p)
  BY <1>4, <1>5, SumsCommute
<1>7. p \in Addresses => r[p] > 0
  <2>1. \A q \in Addresses : Minus(Plus(o, p), old)[q] >= 0
    BY DEF Plus, Minus, HeldIn
  <2>. QED
    BY <1>5, <2>1 DEF Plus
<1>8. Adopted(h, old, p) = Released(g, p)
  BY DEF Adopted
<1>. HIDE DEF g, r
<1>9. Good(Released(g, p), {}, Minus(r, p)) /\ Keeps(g, Released(g, p))
  BY <1>3, <1>7, ReleasedGood
<1>. QED
  BY <1>3, <1>6, <1>8, <1>9, KeepsThrough

(* The temporary is a copy. *)
LEMMA TakenGood ==
  ASSUME NEW h, NEW o, Good(h, {}, o), NEW p \in Value, Alive(h, p),
         NEW old \in Value, HeldIn(o, old)
  PROVE  /\ Good(Taken(h, old, p), {}, Plus(Minus(o, old), p))
         /\ Keeps(h, Taken(h, old, p))
<1>. DEFINE g == Copied(h, p)
<1>1. o \in [Addresses -> Nat]
  BY DEF Good
<1>2. Good(g, {}, Plus(o, p)) /\ Keeps(h, g)
  BY CopiedGood
<1>3. Taken(h, old, p) = Adopted(g, old, p)
  BY DEF Taken, Adopted
<1>. HIDE DEF g
<1>4. Good(Adopted(g, old, p), {}, Plus(Minus(o, old), p)) /\ Keeps(g, Adopted(g, old, p))
  BY <1>1, <1>2, AdoptedGood
<1>. QED
  BY <1>2, <1>3, <1>4, KeepsThrough

(* ObjectIterator::operator= does not ask whether both are the same. *)
LEMMA StoodGood ==
  ASSUME NEW h, NEW o, Good(h, {}, o), NEW p \in Value, HeldIn(o, p),
         NEW old \in Value, HeldIn(o, old)
  PROVE  LET g == Released(Copied(Released(Copied(h, p), old), p), p)
         IN  Good(g, {}, Plus(Minus(o, old), p)) /\ Keeps(h, g)
<1>. DEFINE g1 == Copied(h, p)
            g2 == Released(g1, old)
            g3 == Copied(g2, p)
            g4 == Released(g3, p)
            o1 == Plus(o, p)
            o2 == Minus(o1, old)
            o3 == Plus(o2, p)
<1>1. o \in [Addresses -> Nat] /\ o \in [Addresses -> Int]
  BY DEF Good
<1>2. Alive(h, p)
  BY HeldAlive DEF HeldIn
<1>3. Good(g1, {}, o1) /\ Keeps(h, g1)
  BY <1>2, CopiedGood
<1>4. old \in Addresses => o1[old] > 0
  BY <1>1 DEF HeldIn, Plus
<1>. HIDE DEF g1
<1>5. Good(g2, {}, o2) /\ Keeps(g1, g2)
  BY <1>3, <1>4, ReleasedGood
<1>6. p \in Addresses => o2[p] > 0
  BY <1>1 DEF HeldIn, Plus, Minus
<1>7. o1 \in [Addresses -> Int] /\ o2 \in [Addresses -> Int] /\ o2 = Plus(Minus(o, old), p)
  <2>1. o1 \in [Addresses -> Int] /\ Minus(Plus(o, p), old) = Plus(Minus(o, old), p)
    BY <1>1, SumsCommute
  <2>. HIDE DEF o1
  <2>2. o2 \in [Addresses -> Int]
    BY <2>1, SumsCommute
  <2>. QED
    BY <2>1, <2>2 DEF o1
<1>. HIDE DEF g2, o2
<1>8. Alive(g2, p)
  BY <1>5, <1>6, HeldAlive
<1>9. Good(g3, {}, o3) /\ Keeps(g2, g3)
  BY <1>5, <1>8, CopiedGood
<1>10. p \in Addresses => o3[p] > 0
  BY <1>6, <1>7 DEF Plus
<1>11. Minus(o3, p) = o2
  BY <1>7, SumsCommute
<1>. HIDE DEF g3, o3
<1>12. Good(g4, {}, o2) /\ Keeps(g3, g4)
  BY <1>9, <1>10, <1>11, ReleasedGood
<1>13. Keeps(h, g4)
  <2>1. Keeps(h, g2)
    BY <1>3, <1>5, KeepsThrough
  <2>2. Keeps(h, g3)
    BY <1>9, <2>1, KeepsThrough
  <2>. HIDE DEF g4
  <2>. QED
    BY <1>12, <2>2, KeepsThrough
<1>. QED
  BY <1>7, <1>12, <1>13 DEF g1, g2, g3, g4

(* The pair an iterator is at is copied, and destroyed after the assignment. *)
LEMMA DerefGood ==
  ASSUME NEW h, NEW o, Good(h, {}, o), NEW old \in Value, HeldIn(o, old),
         NEW pair \in [1 .. 2 -> Value], NEW j \in {1, 2},
         \A i \in {1, 2} : Alive(h, pair[i])
  PROVE  LET g == AllReleased(Assigned(AllCopied(h, pair), old, pair[j]), pair)
         IN  Good(g, {}, Plus(Minus(o, old), pair[j])) /\ Keeps(h, g)
<1>. DEFINE g1 == AllCopied(h, pair)
            p == pair[j]
            g2 == Assigned(g1, old, p)
            g3 == AllReleased(g2, pair)
            o1 == PlusItem(o, pair)
            o2 == Plus(Minus(o1, old), p)
<1>1. /\ pair \in Item /\ Len(pair) = 2 /\ p \in Value
      /\ \A q : Times(pair, q) \in Nat
      /\ Times(pair, p) > 0
  <2>1. pair \in Item
    BY DEF Item
  <2>2. Len(pair) = 2
    <3>1. DOMAIN pair = 1 .. Len(pair) /\ Len(pair) \in {1, 2}
      BY <2>1, ItemFacts
    <3>2. DOMAIN pair = 1 .. 2
      OBVIOUS
    <3>. QED
      BY <3>1, <3>2
  <2>. QED
    BY <2>1, <2>2, TimesFacts
<1>2. o \in [Addresses -> Nat]
  BY DEF Good
<1>3. Good(g1, {}, o1) /\ Keeps(h, g1)
  <2>1. \A i \in 1 .. Len(pair) : Alive(h, pair[i])
    BY <1>1
  <2>. QED
    BY <1>1, <2>1, AllCopiedGood
<1>4. HeldIn(o1, old) /\ HeldIn(o1, p)
  BY <1>1, <1>2 DEF HeldIn, PlusItem
<1>. HIDE DEF g1, p
<1>5. Good(g2, {}, o2) /\ Keeps(g1, g2)
  BY <1>1, <1>3, <1>4, AssignedGood
<1>6. /\ \A q \in Addresses : Times(pair, q) <= o2[q]
      /\ \A q \in Addresses : MinusItem(o2, pair)[q] = Plus(Minus(o, old), p)[q]
  BY <1>1, <1>2 DEF HeldIn, PlusItem, MinusItem, Plus, Minus
<1>7. MinusItem(o2, pair) = Plus(Minus(o, old), p)
  <2>1. /\ MinusItem(o2, pair) = [q \in Addresses |-> MinusItem(o2, pair)[q]]
        /\ Plus(Minus(o, old), p) = [q \in Addresses |-> Plus(Minus(o, old), p)[q]]
    BY DEF MinusItem, Plus
  <2>. QED
    BY <1>6, <2>1
<1>. HIDE DEF g2, o2
<1>8. Good(g3, {}, MinusItem(o2, pair)) /\ Keeps(g2, g3)
  BY <1>1, <1>5, <1>6, AllReleasedGood
<1>9. Keeps(h, g3)
  <2>1. Keeps(h, g2)
    BY <1>3, <1>5, KeepsThrough
  <2>. HIDE DEF g3
  <2>. QED
    BY <1>8, <2>1, KeepsThrough
<1>. QED
  BY <1>7, <1>8, <1>9 DEF g1, g2, g3, p

-------------------------------------------------------------------------------
(* The inductive invariant *)

(* What is in both heaps has kept its kind and what it contained. *)
Grown(h, g) ==
  \A q \in DOMAIN h \cap DOMAIN g : g[q].kind = h[q].kind /\ Len(h[q].items) <= Len(g[q].items)

Iterator == [object : Value, at : Nat]

(* The counts are those of the references that handles, iterators, refused calls
   and containers have: this is what every release relies on. *)
IInv ==
  /\ Good(heap, {}, Held(hand, walk, lost))
  /\ hand \in [Handles -> Value]
  /\ walk \in [Walks -> Iterator]
  /\ \A w \in Walks : walk[w].at <= Pairs(heap, walk[w].object)
  /\ lost \in Losses

LEMMA PairsGrow ==
  ASSUME NEW h, HeapTyped(h), NEW g, HeapTyped(g), Grown(h, g),
         NEW p \in Value, Alive(h, p), Alive(g, p)
  PROVE  Pairs(h, p) \in Nat /\ Pairs(g, p) \in Nat /\ Pairs(h, p) <= Pairs(g, p)
<1>1. CASE p \in Statics
  <2>1. p \notin DOMAIN h /\ p \notin DOMAIN g
    BY <1>1, StaticsApart DEF HeapTyped
  <2>2. Pairs(h, p) = 0 /\ Pairs(g, p) = 0
    BY <2>1 DEF Pairs, Kind
  <2>. QED
    BY <2>2
<1>2. CASE p \notin Statics
  <2>1. p \in DOMAIN h /\ p \in DOMAIN g
    BY <1>2 DEF Alive
  <2>2. /\ Len(h[p].items) \in Nat /\ Len(g[p].items) \in Nat
        /\ Len(h[p].items) <= Len(g[p].items) /\ g[p].kind = h[p].kind
    <3>1. h[p].items \in Seq(ItemOf(h[p].kind)) /\ g[p].items \in Seq(ItemOf(g[p].kind))
      BY <2>1 DEF HeapTyped, Proper
    <3>2. Len(h[p].items) \in Nat /\ Len(g[p].items) \in Nat
      BY <3>1, LenProperties
    <3>. QED
      BY <2>1, <3>2 DEF Grown
  <2>. QED
    BY <2>1, <2>2 DEF Pairs, Kind
<1>. QED
  BY <1>1, <1>2

LEMMA KeepsGrown ==
  ASSUME NEW h, HeapTyped(h), NEW g, Keeps(h, g)
  PROVE  Grown(h, g)
<1>1. \A q \in DOMAIN h : Len(h[q].items) \in Nat
  <2>1. \A q \in DOMAIN h : h[q].items \in Seq(ItemOf(h[q].kind))
    BY DEF HeapTyped, Proper
  <2>. QED
    BY <2>1, LenProperties
<1>2. \A q \in DOMAIN h : Len(h[q].items) <= Len(h[q].items)
  BY <1>1
<1>. QED
  BY <1>2 DEF Keeps, Grown

LEMMA LaterGrown ==
  ASSUME NEW h, NEW g, Later(h, g)
  PROVE  Grown(h, g)
BY DEF Later, Grown

(* What is alive for the handles and the iterators *)
LEMMA InvFacts ==
  ASSUME IInv
  PROVE  LET o == Held(hand, walk, lost)
         IN  /\ HeapTyped(heap) /\ o \in [Addresses -> Nat]
             /\ \A x \in Handles : hand[x] \in Value /\ HeldIn(o, hand[x]) /\ Alive(heap, hand[x])
             /\ \A w \in Walks : /\ walk[w].object \in Value
                                 /\ HeldIn(o, walk[w].object) /\ Alive(heap, walk[w].object)
<1>. DEFINE o == Held(hand, walk, lost)
<1>1. /\ \A x \in Handles : hand[x] \in Value
      /\ \A w \in Walks : walk[w].object \in Value
  BY DEF IInv, Iterator
<1>2. /\ Good(heap, {}, o)
      /\ \A x \in Handles : hand[x] \in Addresses => o[hand[x]] > 0
      /\ \A w \in Walks : walk[w].object \in Addresses => o[walk[w].object] > 0
  BY HeldFacts DEF IInv
<1>3. HeapTyped(heap) /\ o \in [Addresses -> Nat]
  BY <1>2 DEF Good
<1>. HIDE DEF o
<1>4. /\ \A x \in Handles : Alive(heap, hand[x])
      /\ \A w \in Walks : Alive(heap, walk[w].object)
  BY <1>1, <1>2, HeldAlive
<1>. QED
  BY <1>1, <1>2, <1>3, <1>4 DEF HeldIn, o

(* What a step has to show *)
LEMMA InvKept ==
  ASSUME IInv, Good(heap', {}, Held(hand, walk, lost)'), Grown(heap, heap'),
         hand' \in [Handles -> Value], lost' \in Losses,
         walk' \in [Walks -> Iterator],
         \A w \in Walks : /\ walk'[w].at <= Pairs(heap, walk'[w].object)
                          /\ Alive(heap, walk'[w].object)
  PROVE  IInv'
<1>1. HeapTyped(heap) /\ HeapTyped(heap')
  BY DEF IInv, Good
<1>2. \A w \in Walks : walk'[w].object \in Value /\ walk'[w].at \in Nat
  BY DEF Iterator
<1>3. \A w \in Walks : walk'[w].object \in Addresses => Held(hand', walk', lost')[walk'[w].object] > 0
  BY HeldFacts
<1>4. \A w \in Walks : Alive(heap', walk'[w].object)
  BY <1>2, <1>3, HeldAlive DEF Held
<1>5. \A w \in Walks : walk'[w].at <= Pairs(heap', walk'[w].object)
  <2>1. TAKE w \in Walks
  <2>2. /\ Pairs(heap, walk'[w].object) \in Nat /\ Pairs(heap', walk'[w].object) \in Nat
        /\ Pairs(heap, walk'[w].object) <= Pairs(heap', walk'[w].object)
    BY <1>1, <1>2, <1>4, PairsGrow
  <2>. QED
    BY <1>2, <2>2
<1>. QED
  BY <1>5 DEF IInv, Pairs, Kind

-------------------------------------------------------------------------------
(* The steps of handles *)

LEMMA HandKept ==
  ASSUME IInv, NEW x \in Handles, NEW p \in Value,
         Good(heap', {}, Plus(Minus(Held(hand, walk, lost), hand[x]), p)), Grown(heap, heap'),
         hand' = [hand EXCEPT ![x] = p], walk' = walk, lost' = lost
  PROVE  IInv'
<1>1. Held(hand', walk', lost') = Plus(Minus(Held(hand, walk, lost), hand[x]), p)
  <2>1. hand'[x] = p /\ \A y \in Handles : y # x => hand'[y] = hand[y]
    BY DEF IInv
  <2>2. lost \in Losses /\ x \in Handles
    BY DEF IInv
  <2>3. Held(hand', walk, lost) = Plus(Minus(Held(hand, walk, lost), hand[x]), hand'[x])
    BY ONLY <2>1, <2>2, HeldByHand
  <2>. QED
    BY <2>1, <2>3
<1>2. Good(heap', {}, Held(hand, walk, lost)')
  BY <1>1 DEF Held
<1>3. hand' \in [Handles -> Value] /\ lost' \in Losses /\ walk' \in [Walks -> Iterator]
  BY DEF IInv
<1>4. \A w \in Walks : /\ walk'[w].at <= Pairs(heap, walk'[w].object)
                       /\ Alive(heap, walk'[w].object)
  BY InvFacts DEF IInv
<1>. QED
  BY <1>2, <1>3, <1>4, InvKept

(* What is made takes nothing from the heap, and there is no more of it there. *)
LEMMA CreatedGrown ==
  ASSUME NEW h, HeapTyped(h), NEW doc \in Documents, NEW at, Laying(h, doc, at),
         NEW g, HeapTyped(g), Later(Created(h, doc, at), g)
  PROVE  Grown(h, g)
<1>. DEFINE c == Created(h, doc, at)
<1>1. DOMAIN c = DOMAIN h \cup Places(doc, at) /\ \A q \in DOMAIN h : c[q] = h[q]
  BY ZenonT(60), CreatedIs
<1>. HIDE DEF c
<1>2. Later(c, g)
  BY DEF c
<1>3. \A q \in DOMAIN h \cap DOMAIN g : c[q] = h[q] /\ q \in DOMAIN c
  BY <1>1
<1>4. \A q \in DOMAIN g : g[q].kind = c[q].kind /\ Len(c[q].items) <= Len(g[q].items)
  BY <1>2 DEF Later
<1>. QED
  BY <1>3, <1>4 DEF Grown

(* The value of a new document is taken by handle x. *)
LEMMA MadeKept ==
  ASSUME IInv, NEW x \in Handles, NEW doc \in Documents, Room(doc),
         heap' = Adopted(Created(heap, doc, Fresh(doc)), hand[x], Fresh(doc)[1]),
         hand' = [hand EXCEPT ![x] = Fresh(doc)[1]], walk' = walk, lost' = lost
  PROVE  IInv'
<1>. DEFINE o == Held(hand, walk, lost)
            at == Fresh(doc)
            g == Created(heap, doc, at)
            p == at[1]
            old == hand[x]
<1>1. HeapTyped(heap) /\ o \in [Addresses -> Nat] /\ old \in Value /\ HeldIn(o, old)
  BY InvFacts
<1>2. Laying(heap, doc, at) /\ p \in Value
  BY <1>1, FreshLaying DEF Value
<1>3. Good(g, {}, Plus(o, p))
  BY <1>2, CreatedGood DEF IInv
<1>. HIDE DEF o, g, p, old, at
<1>4. Good(Adopted(g, old, p), {}, Plus(Minus(o, old), p)) /\ Keeps(g, Adopted(g, old, p))
  BY <1>1, <1>2, <1>3, AdoptedGood
<1>5. heap' = Adopted(g, old, p) /\ hand' = [hand EXCEPT ![x] = p]
  BY DEF g, p, at, old
<1>6. Grown(heap, heap')
  <2>1. HeapTyped(g) /\ HeapTyped(heap')
    BY <1>3, <1>4, <1>5 DEF Good
  <2>2. Later(g, heap')
    BY <1>4, <1>5, <2>1, KeepsLater
  <2>. QED
    BY <1>1, <1>2, <2>1, <2>2, CreatedGrown DEF g
<1>7. Good(heap', {}, Plus(Minus(Held(hand, walk, lost), hand[x]), p))
  BY <1>4, <1>5 DEF o, old
<1>. QED
  BY <1>2, <1>5, <1>6, <1>7, HandKept

LEMMA ConstructKept ==
  ASSUME IInv, NEW x \in Handles, NEW doc \in Documents, Construct(x, doc)
  PROVE  IInv'
BY MadeKept DEF Construct

LEMMA ParseKept ==
  ASSUME IInv, NEW doc \in Documents, Parse(doc)
  PROVE  IInv'
BY HandleConstants, MadeKept DEF Parse

LEMMA NullFacts ==
  /\ Null \in Value /\ Null \notin Addresses
  /\ \A o \in [Addresses -> Int] : Plus(o, Null) = o /\ Minus(o, Null) = o
<1>1. Null \in Value /\ Null \notin Addresses
  BY HandleConstants DEF Value, Statics
<1>2. ASSUME NEW o \in [Addresses -> Int] PROVE Plus(o, Null) = o /\ Minus(o, Null) = o
  BY <1>1 DEF Plus, Minus
<1>. QED
  BY <1>1, <1>2

LEMMA ParseRefusedKept ==
  ASSUME IInv, ParseRefused
  PROVE  IInv'
<1>. DEFINE o == Held(hand, walk, lost)
            g == Adopted(heap, hand[Dom], Null)
<1>1. /\ HeapTyped(heap) /\ o \in [Addresses -> Nat] /\ Good(heap, {}, o)
      /\ hand[Dom] \in Value /\ HeldIn(o, hand[Dom])
  BY HandleConstants, InvFacts DEF IInv
<1>. HIDE DEF o
<1>2. Plus(o, Null) = o
  BY <1>1, NullFacts
<1>3. Good(g, {}, Plus(Minus(o, hand[Dom]), Null)) /\ Keeps(heap, g)
  BY <1>1, <1>2, NullFacts, AdoptedGood
<1>4. Grown(heap, g)
  BY <1>1, <1>3, KeepsGrown
<1>5. heap' = g /\ hand' = [hand EXCEPT ![Dom] = Null] /\ walk' = walk /\ lost' = lost
  BY DEF ParseRefused
<1>. QED
  BY <1>3, <1>4, <1>5, HandleConstants, NullFacts, HandKept DEF o

LEMMA ScopeKept ==
  ASSUME IInv, NEW x \in Handles, Scope(x)
  PROVE  IInv'
<1>. DEFINE o == Held(hand, walk, lost)
            g == Released(heap, hand[x])
<1>1. /\ HeapTyped(heap) /\ o \in [Addresses -> Nat] /\ Good(heap, {}, o)
      /\ hand[x] \in Value /\ (hand[x] \in Addresses => o[hand[x]] > 0)
  BY InvFacts DEF IInv, HeldIn
<1>. HIDE DEF o
<1>2. Plus(Minus(o, hand[x]), Null) = Minus(o, hand[x])
  BY <1>1, NullFacts, SumsCommute
<1>3. Good(g, {}, Plus(Minus(o, hand[x]), Null)) /\ Keeps(heap, g)
  BY <1>1, <1>2, ReleasedGood
<1>4. Grown(heap, g)
  BY <1>1, <1>3, KeepsGrown
<1>5. heap' = g /\ hand' = [hand EXCEPT ![x] = Null] /\ walk' = walk /\ lost' = lost
  BY DEF Scope
<1>. QED
  BY <1>3, <1>4, <1>5, NullFacts, HandKept DEF o

LEMMA AssignKept ==
  ASSUME IInv, NEW x \in Handles, NEW y \in Handles, Assign(x, y)
  PROVE  IInv'
<1>. DEFINE o == Held(hand, walk, lost)
            p == hand[y]
            g == Assigned(heap, hand[x], p)
<1>1. /\ HeapTyped(heap) /\ Good(heap, {}, o)
      /\ hand[x] \in Value /\ HeldIn(o, hand[x]) /\ p \in Value /\ HeldIn(o, p)
  BY InvFacts DEF IInv
<1>2. heap' = g /\ hand' = [hand EXCEPT ![x] = p] /\ walk' = walk /\ lost' = lost
  BY DEF Assign
<1>. HIDE DEF o, p
<1>3. Good(g, {}, Plus(Minus(o, hand[x]), p)) /\ Keeps(heap, g)
  BY <1>1, AssignedGood
<1>4. Grown(heap, g)
  BY <1>1, <1>3, KeepsGrown
<1>. QED
  BY <1>1, <1>2, <1>3, <1>4, HandKept DEF o

LEMMA FetchKept ==
  ASSUME IInv, NEW x \in Handles, NEW p \in Value, Alive(heap, p), Fetch(x, p)
  PROVE  IInv'
<1>. DEFINE o == Held(hand, walk, lost)
            g == Taken(heap, hand[x], p)
<1>1. HeapTyped(heap) /\ Good(heap, {}, o) /\ hand[x] \in Value /\ HeldIn(o, hand[x])
  BY InvFacts DEF IInv
<1>. HIDE DEF o
<1>2. Good(g, {}, Plus(Minus(o, hand[x]), p)) /\ Keeps(heap, g)
  BY <1>1, TakenGood
<1>3. Grown(heap, g)
  BY <1>1, <1>2, KeepsGrown
<1>4. heap' = g /\ hand' = [hand EXCEPT ![x] = p] /\ walk' = walk /\ lost' = lost
  BY DEF Fetch
<1>. QED
  BY <1>2, <1>3, <1>4, HandKept DEF o

LEMMA GetDomKept ==
  ASSUME IInv, NEW x \in Handles, GetDom(x)
  PROVE  IInv'
<1>1. hand[Dom] \in Value /\ Alive(heap, hand[Dom])
  BY HandleConstants, InvFacts
<1>. QED
  BY <1>1, FetchKept DEF GetDom

(* What is in a container is alive. *)
LEMMA ItemAlive ==
  ASSUME NEW h, NEW o, Good(h, {}, o), NEW p \in DOMAIN h, NEW i \in DOMAIN h[p].items,
         NEW j \in 1 .. Width(h[p].kind)
  PROVE  /\ h[p].items[i] \in ItemOf(h[p].kind)
         /\ h[p].items[i][j] \in Value /\ Alive(h, h[p].items[i][j])
<1>1. h[p].items \in Seq(ItemOf(h[p].kind))
  BY DEF Good, HeapTyped, Proper
<1>2. h[p].items[i] \in ItemOf(h[p].kind)
  BY <1>1
<1>3. DOMAIN h[p].items[i] = 1 .. Width(h[p].kind) /\ h[p].items[i][j] \in Value
  BY <1>2 DEF ItemOf
<1>4. <<p, i, j>> \in All(h) /\ At(h, <<p, i, j>>) = h[p].items[i][j]
  BY <1>3, CellIs DEF All, At
<1>5. h[p].items[i][j] \in DOMAIN h \cup Statics
  BY <1>4 DEF Good
<1>. QED
  BY <1>2, <1>3, <1>5 DEF Alive

LEMMA KindAlive ==
  ASSUME NEW h, NEW p, Kind(h, p) \in {"array", "object"}
  PROVE  p \in DOMAIN h /\ h[p].kind = Kind(h, p)
BY DEF Kind

LEMMA NullAlive == \A h : Alive(h, Null)
BY DEF Alive, Statics

LEMMA ElementKept ==
  ASSUME IInv, NEW x \in Handles, NEW y \in Handles, NEW i \in 1 .. MaxItems, Element(x, y, i)
  PROVE  IInv'
<1>. DEFINE p == hand[y]
            items == heap[p].items
            r == IF i <= Len(items) THEN items[i][1] ELSE Null
<1>1. p \in DOMAIN heap /\ heap[p].kind = "array"
  BY KindAlive DEF Element
<1>2. Good(heap, {}, Held(hand, walk, lost))
  BY DEF IInv
<1>3. DOMAIN items = 1 .. Len(items) /\ Len(items) \in Nat
  <2>1. items \in Seq(ItemOf(heap[p].kind))
    BY <1>1, <1>2 DEF Good, HeapTyped, Proper
  <2>. QED
    BY <2>1, LenProperties
<1>4. Fetch(x, r)
  BY DEF Element
<1>. HIDE DEF p, r
<1>5. r \in Value /\ Alive(heap, r)
  <2>1. CASE i <= Len(items)
    <3>1. r = items[i][1] /\ i \in DOMAIN items
      BY <1>3, <2>1 DEF r
    <3>2. 1 \in 1 .. Width(heap[p].kind)
      BY DEF Width
    <3>. QED
      BY <1>1, <1>2, <3>1, <3>2, ItemAlive
  <2>2. CASE ~(i <= Len(items))
    BY <2>2, NullFacts, NullAlive DEF r
  <2>. QED
    BY <2>1, <2>2
<1>. QED
  BY <1>4, <1>5, FetchKept

LEMMA MemberKept ==
  ASSUME IInv, NEW x \in Handles, NEW y \in Handles, NEW name, Member(x, y, name)
  PROVE  IInv'
<1>. DEFINE p == hand[y]
            items == heap[p].items
            at == Named(heap, p, name)
            i == CHOOSE k \in at : TRUE
            r == IF at = {} THEN Null ELSE items[i][2]
<1>1. p \in DOMAIN heap /\ heap[p].kind = "object"
  BY KindAlive DEF Member
<1>2. Good(heap, {}, Held(hand, walk, lost))
  BY DEF IInv
<1>3. at # {} => i \in DOMAIN items
  BY DEF Named
<1>4. Fetch(x, r)
  BY DEF Member
<1>. HIDE DEF p, at, i
<1>5. r \in Value /\ Alive(heap, r)
  <2>1. CASE at # {}
    <3>1. 2 \in 1 .. Width(heap[p].kind)
      BY <1>1 DEF Width
    <3>. QED
      BY <1>1, <1>2, <1>3, <2>1, <3>1, ItemAlive
  <2>2. CASE at = {}
    BY <2>2, NullFacts, NullAlive
  <2>. QED
    BY <2>1, <2>2
<1>. HIDE DEF r
<1>. QED
  BY <1>4, <1>5, FetchKept

-------------------------------------------------------------------------------
(* The steps that build *)

(* One value, and two, as an item *)
LEMMA ItemMade ==
  ASSUME NEW k \in Value, NEW v \in Value
  PROVE  /\ <<v>> \in Item /\ Len(<<v>>) = 1 /\ <<v>>[1] = v /\ <<v>> \in ItemOf("array")
         /\ <<k, v>> \in Item /\ Len(<<k, v>>) = 2 /\ <<k, v>>[1] = k /\ <<k, v>>[2] = v
         /\ <<k, v>> \in ItemOf("object")
<1>1. <<v>> \in [1 .. 1 -> Value] /\ <<k, v>> \in [1 .. 2 -> Value]
  OBVIOUS
<1>. QED
  BY <1>1 DEF Item, ItemOf, Width

(* Neither a handle nor an iterator takes a value. *)
LEMMA BuildKept ==
  ASSUME IInv, Good(heap', {}, Held(hand, walk, lost')), Grown(heap, heap'),
         hand' = hand, walk' = walk, lost' \in Losses
  PROVE  IInv'
<1>1. Held(hand, walk, lost)' = Held(hand, walk, lost')
  BY DEF Held
<1>2. hand' \in [Handles -> Value] /\ walk' \in [Walks -> Iterator]
  BY DEF IInv
<1>3. \A w \in Walks : /\ walk'[w].at <= Pairs(heap, walk'[w].object)
                       /\ Alive(heap, walk'[w].object)
  BY InvFacts DEF IInv
<1>. QED
  BY <1>1, <1>2, <1>3, InvKept

(* A call refuses what it was given a reference each of. *)
LEMMA RefusedKept ==
  ASSUME IInv, NEW item \in Item, \A j \in 1 .. Len(item) : Alive(heap, item[j]),
         heap' = AllCopied(heap, item), Lose(item), hand' = hand, walk' = walk
  PROVE  IInv'
<1>. DEFINE o == Held(hand, walk, lost)
<1>1. Good(heap, {}, o) /\ HeapTyped(heap) /\ lost \in Losses
  BY InvFacts DEF IInv
<1>2. lost' \in Losses /\ lost' = [q \in Addresses |-> lost[q] + Times(item, q)]
  BY <1>1, LoseFacts
<1>3. Held(hand, walk, lost') = PlusItem(o, item)
  BY <1>1, <1>2, HeldByLoss
<1>. HIDE DEF o
<1>4. Good(heap', {}, PlusItem(o, item)) /\ Keeps(heap, heap')
  BY <1>1, AllCopiedGood
<1>5. Grown(heap, heap')
  BY <1>1, <1>4, KeepsGrown
<1>. QED
  BY <1>2, <1>3, <1>4, <1>5, BuildKept

LEMMA PutKept ==
  ASSUME IInv, NEW x \in Handles, NEW y \in Handles, NEW i \in Nat \ {0}, Put(x, i, y)
  PROVE  IInv'
<1>. DEFINE o == Held(hand, walk, lost)
            p == hand[x]
            v == hand[y]
            g == Copied(heap, v)
            item == <<v>>
<1>1. /\ HeapTyped(heap) /\ Good(heap, {}, o) /\ o \in [Addresses -> Nat]
      /\ p \in Value /\ HeldIn(o, p) /\ v \in Value /\ Alive(heap, v)
      /\ hand' = hand /\ walk' = walk
  BY InvFacts DEF IInv, Put
<1>2. item \in Item /\ Len(item) = 1 /\ item[1] = v /\ item \in ItemOf("array")
  BY <1>1, ItemMade
<1>3. CASE Kind(heap, p) = "array"
  <2>1. i <= MaxItems /\ heap' = Stored(g, p, i, item) /\ lost' = lost
    BY <1>3 DEF Put
  <2>2. p \in DOMAIN heap /\ heap[p].kind = "array"
    BY <1>3, KindAlive
  <2>. HIDE DEF o, p, v, g, item
  <2>3. Good(g, {}, Plus(o, v)) /\ Keeps(heap, g) /\ DOMAIN g = DOMAIN heap
    BY <1>1, CopiedGood DEF g
  <2>4. p \in DOMAIN g /\ g[p].kind = "array" /\ p \in Addresses
    BY <1>1, <2>2, <2>3 DEF Keeps, HeapTyped
  <2>5. \A q \in Addresses :
          /\ Times(item, q) = IF q = v THEN 1 ELSE 0
          /\ Times(item, q) <= Plus(o, v)[q] /\ MinusItem(Plus(o, v), item)[q] = o[q]
    BY <1>1, <1>2 DEF Times, Plus, MinusItem
  <2>6. MinusItem(Plus(o, v), item) = o
    <3>1. /\ MinusItem(Plus(o, v), item) = [q \in Addresses |-> MinusItem(Plus(o, v), item)[q]]
          /\ o = [q \in Addresses |-> o[q]]
      BY <1>1 DEF MinusItem
    <3>. QED
      BY <2>5, <3>1
  <2>7. Plus(o, v)[p] > 0
    BY <1>1, <2>4 DEF HeldIn, Plus
  <2>8. i \in 1 .. MaxItems
    BY <2>1, HandleConstants
  <2>. DEFINE r == Plus(o, v)
  <2>9. /\ item \in ItemOf(g[p].kind) /\ g[p].kind # "object"
        /\ r[p] > 0 /\ Good(g, {}, r) /\ \A q \in Addresses : Times(item, q) <= r[q]
    BY <1>2, <2>3, <2>4, <2>5, <2>7
  <2>. HIDE DEF r
  <2>10. Good(Stored(g, p, i, item), {}, MinusItem(r, item)) /\ Later(g, Stored(g, p, i, item))
    BY <2>4, <2>8, <2>9, StoredGood
  <2>11. Good(heap', {}, o) /\ Later(heap, heap')
    <3>1. Later(heap, g) /\ HeapTyped(g) /\ HeapTyped(heap')
      BY <1>1, <2>1, <2>3, <2>10, KeepsLater DEF Good
    <3>. QED
      BY <1>1, <2>1, <2>6, <2>10, <3>1, LaterThrough DEF r
  <2>. QED
    BY <1>1, <2>1, <2>11, LaterGrown, BuildKept DEF o, IInv
<1>4. CASE Kind(heap, p) # "array"
  <2>1. heap' = Copied(heap, v) /\ Lose(item)
    BY <1>4 DEF Put
  <2>. HIDE DEF v, item
  <2>2. heap' = AllCopied(heap, item)
    BY <1>2, <2>1 DEF AllCopied
  <2>3. \A j \in 1 .. Len(item) : Alive(heap, item[j])
    BY <1>1, <1>2
  <2>. QED
    BY <1>1, <1>2, <2>1, <2>2, <2>3, RefusedKept
<1>. QED
  BY <1>3, <1>4

LEMMA AppendToKept ==
  ASSUME IInv, NEW x \in Handles, NEW y \in Handles, AppendTo(x, y)
  PROVE  IInv'
<1>. DEFINE size == IF Kind(heap, hand[x]) = "array" THEN Len(heap[hand[x]].items) ELSE 0
<1>1. size \in Nat
  <2>1. CASE Kind(heap, hand[x]) = "array"
    <3>1. hand[x] \in DOMAIN heap
      BY <2>1, KindAlive
    <3>2. heap[hand[x]].items \in Seq(ItemOf(heap[hand[x]].kind))
      BY <3>1 DEF IInv, Good, HeapTyped, Proper
    <3>. QED
      BY <2>1, <3>2, LenProperties
  <2>. QED
    BY <2>1
<1>2. Put(x, size + 1, y)
  BY DEF AppendTo
<1>. HIDE DEF size
<1>3. size + 1 \in Nat \ {0}
  BY <1>1
<1>. QED
  BY <1>2, <1>3, PutKept

LEMMA PutNamelessKept ==
  ASSUME IInv, NEW x \in Handles, NEW y \in Handles, PutNameless(x, y)
  PROVE  IInv'
<1>. DEFINE v == hand[y]
            item == <<v>>
<1>1. v \in Value /\ Alive(heap, v)
  BY InvFacts
<1>2. item \in Item /\ Len(item) = 1 /\ item[1] = v
  BY <1>1, ItemMade
<1>3. heap' = Copied(heap, v) /\ Lose(item) /\ hand' = hand /\ walk' = walk
  BY DEF PutNameless
<1>. HIDE DEF v, item
<1>4. heap' = AllCopied(heap, item)
  BY <1>2, <1>3 DEF AllCopied
<1>5. \A j \in 1 .. Len(item) : Alive(heap, item[j])
  BY <1>1, <1>2
<1>. QED
  BY <1>2, <1>3, <1>4, <1>5, RefusedKept

(* The pair of an object with a name is the same if texts and items are. *)
LEMMA SameNamed ==
  ASSUME NEW h, NEW g, NEW p, g[p].items = h[p].items,
         \A i \in DOMAIN h[p].items : Text(g, h[p].items[i][1]) = Text(h, h[p].items[i][1]),
         NEW name
  PROVE  Named(g, p, name) = Named(h, p, name)
BY DEF Named

LEMMA CopiedText ==
  ASSUME NEW h, HeapTyped(h), NEW v, NEW q
  PROVE  /\ Text(Copied(h, v), q) = Text(h, q)
         /\ q \in DOMAIN h => Copied(h, v)[q].items = h[q].items
<1>1. CASE v \notin DOMAIN h
  BY <1>1 DEF Copied
<1>2. CASE v \in DOMAIN h
  <2>. DEFINE g == [h EXCEPT ![v].cnt = @ + 1]
  <2>1. Copied(h, v) = g
    BY <1>2 DEF Copied
  <2>2. h = [p \in DOMAIN h |-> h[p]] /\ \A p \in DOMAIN h : h[p] \in Node
    BY DEF HeapTyped, Proper
  <2>3. /\ DOMAIN g = DOMAIN h
        /\ \A p \in DOMAIN h : g[p].items = h[p].items /\ g[p].text = h[p].text
    BY <1>2, <2>2 DEF Node
  <2>. HIDE DEF g
  <2>. QED
    BY <2>1, <2>3 DEF Text
<1>. QED
  BY <1>1, <1>2

(* jobject_put *)
LEMMA KeyedGood ==
  ASSUME NEW h, NEW o, Good(h, {}, o), NEW p \in DOMAIN h, h[p].kind = "object", o[p] > 0,
         NEW k \in Value, NEW v \in Value,
         \A q \in Addresses : Times(<<k, v>>, q) <= o[q],
         Named(h, p, Text(h, k)) # {} \/ Len(h[p].items) < MaxItems
  PROVE  /\ Good(Keyed(h, p, k, v), {}, MinusItem(o, <<k, v>>))
         /\ Later(h, Keyed(h, p, k, v))
<1>. DEFINE at == Named(h, p, Text(h, k))
            n == Len(h[p].items)
            i == IF at = {} THEN n + 1 ELSE CHOOSE j \in at : TRUE
            item == <<k, v>>
<1>1. item \in ItemOf(h[p].kind)
  BY ItemMade
<1>2. n \in Nat /\ n <= MaxItems /\ DOMAIN h[p].items = 1 .. n
  <2>1. h[p].items \in Seq(ItemOf(h[p].kind)) /\ Len(h[p].items) <= MaxItems
    BY DEF Good, HeapTyped, Proper
  <2>. QED
    BY <2>1, LenProperties
<1>3. Keyed(h, p, k, v) = Stored(h, p, i, item)
  BY DEF Keyed
<1>4. at \subseteq 1 .. n
  BY <1>2 DEF Named
<1>. HIDE DEF at
<1>5. i \in 1 .. MaxItems /\ i <= n + 1
  <2>. HIDE DEF n
  <2>1. CASE at = {}
    <3>1. n < MaxItems
      BY <2>1 DEF at, n
    <3>. QED
      BY <1>2, <2>1, <3>1, HandleConstants
  <2>2. CASE at # {}
    <3>1. i \in 1 .. n
      BY <1>4, <2>2
    <3>. HIDE DEF i
    <3>. QED
      BY <1>2, <3>1, HandleConstants
  <2>. QED
    BY <2>1, <2>2
<1>. HIDE DEF i, item
<1>6. \A q \in Addresses : Times(item, q) <= o[q]
  BY DEF item
<1>7. Good(Stored(h, p, i, item), {}, MinusItem(o, item)) /\ Later(h, Stored(h, p, i, item))
  BY <1>1, <1>5, <1>6, StoredGood
<1>. QED
  BY <1>3, <1>7 DEF item

LEMMA PutPairKept ==
  ASSUME IInv, NEW x \in Handles, NEW k \in Handles, NEW y \in Handles, PutPair(x, k, y)
  PROVE  IInv'
<1>. DEFINE o == Held(hand, walk, lost)
            p == hand[x]
            a == hand[k]
            v == hand[y]
            f == Copied(heap, a)
            g == Copied(f, v)
            item == <<a, v>>
            r == PlusItem(o, item)
<1>1. /\ HeapTyped(heap) /\ Good(heap, {}, o) /\ o \in [Addresses -> Nat]
      /\ p \in Value /\ HeldIn(o, p) /\ a \in Value /\ v \in Value
      /\ Alive(heap, a) /\ Alive(heap, v)
      /\ hand' = hand /\ walk' = walk
  BY InvFacts DEF IInv, PutPair
<1>2. /\ item \in Item /\ Len(item) = 2 /\ item[1] = a /\ item[2] = v
      /\ \A q : Times(item, q) \in Nat
  <2>1. item \in Item /\ Len(item) = 2 /\ item[1] = a /\ item[2] = v
    BY <1>1, ItemMade
  <2>. HIDE DEF item
  <2>. QED
    BY <2>1, TimesFacts
<1>3. p \in DOMAIN heap /\ heap[p].kind = "object" /\ p \in Addresses
  <2>1. p \in DOMAIN heap /\ heap[p].kind = "object"
    BY KindAlive DEF PutPair
  <2>. QED
    BY <1>1, <2>1 DEF HeapTyped
<1>4. \/ /\ PairFits(p, Text(heap, a)) /\ heap' = Keyed(g, p, a, v) /\ lost' = lost
      \/ heap' = g /\ Lose(item)
  BY DEF PutPair
<1>5. g = AllCopied(heap, item)
  BY <1>2 DEF AllCopied
<1>6. \A j \in 1 .. Len(item) : Alive(heap, item[j])
  BY <1>1, <1>2
<1>7. /\ Text(g, a) = Text(heap, a) /\ g[p].items = heap[p].items
      /\ Named(g, p, Text(g, a)) = Named(heap, p, Text(heap, a))
  <2>1. HeapTyped(f) /\ p \in DOMAIN f
    <3>1. Good(f, {}, Plus(o, a)) /\ DOMAIN f = DOMAIN heap
      BY <1>1, CopiedGood
    <3>. QED
      BY <1>3, <3>1 DEF Good
  <2>2. \A q : Text(f, q) = Text(heap, q)
    BY <1>1, CopiedText
  <2>3. \A q : Text(g, q) = Text(f, q)
    BY <2>1, CopiedText
  <2>4. g[p].items = heap[p].items
    <3>1. f[p].items = heap[p].items
      BY <1>1, <1>3, CopiedText
    <3>2. g[p].items = f[p].items
      BY <2>1, CopiedText
    <3>. QED
      BY <3>1, <3>2
  <2>. HIDE DEF f, g, p, a, v
  <2>5. \A q : Text(g, q) = Text(heap, q)
    BY <2>2, <2>3
  <2>6. Named(g, p, Text(heap, a)) = Named(heap, p, Text(heap, a))
    BY <2>4, <2>5, SameNamed
  <2>. QED
    BY <2>4, <2>5, <2>6
<1>. HIDE DEF o, p, a, v, f, g, item
<1>8. Good(g, {}, r) /\ Keeps(heap, g) /\ DOMAIN g = DOMAIN heap
  BY <1>1, <1>2, <1>5, <1>6, AllCopiedGood
<1>9. CASE PairFits(p, Text(heap, a)) /\ heap' = Keyed(g, p, a, v) /\ lost' = lost
  <2>1. p \in DOMAIN g /\ g[p].kind = "object"
    BY <1>3, <1>8 DEF Keeps
  <2>2. /\ r[p] > 0
        /\ \A q \in Addresses : Times(item, q) <= r[q] /\ MinusItem(r, item)[q] = o[q]
    BY <1>1, <1>2, <1>3 DEF HeldIn, PlusItem, MinusItem
  <2>3. MinusItem(r, item) = o
    <3>1. MinusItem(r, item) = [q \in Addresses |-> MinusItem(r, item)[q]] /\ o = [q \in Addresses |-> o[q]]
      BY <1>1 DEF MinusItem
    <3>. QED
      BY <2>2, <3>1
  <2>4. Named(g, p, Text(g, a)) # {} \/ Len(g[p].items) < MaxItems
    BY <1>7, <1>9 DEF PairFits
  <2>. HIDE DEF r
  <2>5. Good(Keyed(g, p, a, v), {}, MinusItem(r, <<a, v>>)) /\ Later(g, Keyed(g, p, a, v))
    BY <1>1, <1>8, <2>1, <2>2, <2>4, KeyedGood DEF item
  <2>6. Good(heap', {}, o) /\ Later(heap, heap')
    <3>1. Later(heap, g) /\ HeapTyped(g) /\ HeapTyped(heap')
      BY <1>1, <1>8, <1>9, <2>5, KeepsLater DEF Good
    <3>2. Good(heap', {}, o)
      BY <1>9, <2>3, <2>5 DEF item
    <3>. QED
      BY <1>1, <1>9, <2>5, <3>1, <3>2, LaterThrough
  <2>. QED
    BY <1>1, <1>9, <2>6, LaterGrown, BuildKept DEF o, IInv
<1>10. CASE heap' = g /\ Lose(item)
  BY <1>1, <1>2, <1>5, <1>6, <1>10, RefusedKept
<1>. QED
  BY <1>4, <1>9, <1>10

LEMMA PutNamedKept ==
  ASSUME IInv, NEW x \in Handles, NEW y \in Handles, NEW name \in Documents, Len(name) = 1,
         PutNamed(x, name, y)
  PROVE  IInv'
<1>. DEFINE o == Held(hand, walk, lost)
            p == hand[x]
            v == hand[y]
            k == Fresh(name)[1]
            c == Created(heap, name, <<k>>)
            f == Copied(c, k)
            g == Copied(f, v)
            item == <<k, v>>
            u == Keyed(g, p, k, v)
            o1 == Plus(o, k)
            o2 == Plus(o1, k)
            o3 == Plus(o2, v)
            o4 == MinusItem(o3, item)
<1>1. /\ HeapTyped(heap) /\ Good(heap, {}, o) /\ o \in [Addresses -> Nat]
      /\ p \in Value /\ HeldIn(o, p) /\ v \in Value /\ Alive(heap, v)
  BY InvFacts DEF IInv
<1>2. /\ Room(name) /\ PairFits(p, name[1].text) /\ heap' = Released(u, k)
      /\ hand' = hand /\ walk' = walk /\ lost' = lost
  BY DEF PutNamed
<1>3. p \in DOMAIN heap /\ heap[p].kind = "object" /\ p \in Addresses
  <2>1. p \in DOMAIN heap /\ heap[p].kind = "object"
    BY KindAlive DEF PutNamed
  <2>. QED
    BY <1>1, <2>1 DEF HeapTyped
<1>. HIDE DEF o, p, v
<1>4. k \in Addresses \ DOMAIN heap
  BY <1>1, <1>2, FreshLaying
<1>. HIDE DEF k
<1>5. Laying(heap, name, <<k>>) /\ <<k>>[1] = k
  BY <1>4 DEF Laying
<1>6. Good(c, {}, o1)
  BY <1>1, <1>5, CreatedGood
<1>7. /\ DOMAIN c = DOMAIN heap \cup {k} /\ \A q \in DOMAIN heap : c[q] = heap[q]
      /\ c[k].text = name[1].text /\ HeapTyped(c)
  <2>1. /\ DOMAIN c = DOMAIN heap \cup Places(name, <<k>>)
        /\ \A q \in DOMAIN heap : c[q] = heap[q]
        /\ \A n \in 1 .. Len(name) : c[<<k>>[n]] = Laid(name, <<k>>, n)
        /\ HeapTyped(c)
    BY <1>1, <1>5, CreatedIs
  <2>. HIDE DEF c
  <2>2. c[k] = Laid(name, <<k>>, 1)
    BY <1>5, <2>1
  <2>3. c[k].text = name[1].text
    BY <2>2 DEF Laid
  <2>4. Places(name, <<k>>) = {k}
    BY DEF Places
  <2>. QED
    BY <2>1, <2>3, <2>4
<1>. HIDE DEF c
<1>8. Good(f, {}, o2) /\ Keeps(c, f) /\ DOMAIN f = DOMAIN c
  <2>1. Alive(c, k)
    BY <1>7 DEF Alive
  <2>. QED
    BY <1>6, <2>1, CopiedGood
<1>9. Good(g, {}, o3) /\ Keeps(f, g) /\ DOMAIN g = DOMAIN c
  <2>1. Alive(f, v)
    BY <1>1, <1>7, <1>8 DEF Alive
  <2>. HIDE DEF f
  <2>. QED
    BY <1>8, <2>1, CopiedGood
<1>10. p \in DOMAIN g /\ g[p].kind = "object" /\ g[p].items = heap[p].items
  <2>1. p \in DOMAIN c /\ p \in DOMAIN f /\ p \in DOMAIN g
    BY <1>3, <1>7, <1>8, <1>9
  <2>2. c[p] = heap[p]
    BY <1>3, <1>7
  <2>3. f[p].kind = c[p].kind /\ f[p].items = c[p].items
    BY <1>8, <2>1 DEF Keeps
  <2>4. g[p].kind = f[p].kind /\ g[p].items = f[p].items
    BY <1>9, <2>1 DEF Keeps
  <2>. QED
    BY <1>3, <2>1, <2>2, <2>3, <2>4
<1>11. Named(g, p, Text(g, k)) = Named(heap, p, name[1].text)
  <2>1. \A q : Text(g, q) = Text(c, q)
    <3>1. \A q : Text(f, q) = Text(c, q)
      BY <1>7, CopiedText
    <3>2. HeapTyped(f)
      BY <1>8 DEF Good
    <3>. HIDE DEF f
    <3>3. \A q : Text(g, q) = Text(f, q)
      BY <3>2, CopiedText
    <3>. QED
      BY <3>1, <3>3
  <2>2. Text(c, k) = name[1].text
    BY <1>7 DEF Text
  <2>3. \A q : Alive(heap, q) => Text(c, q) = Text(heap, q)
    BY <1>4, <1>7, StaticsApart DEF Alive, Text
  <2>4. ASSUME NEW i \in DOMAIN heap[p].items PROVE Alive(heap, heap[p].items[i][1])
    <3>1. 1 \in 1 .. Width(heap[p].kind)
      BY DEF Width
    <3>. QED
      BY <1>1, <1>3, <3>1, ItemAlive
  <2>. HIDE DEF g
  <2>5. \A i \in DOMAIN heap[p].items : Text(g, heap[p].items[i][1]) = Text(heap, heap[p].items[i][1])
    BY <2>1, <2>3, <2>4
  <2>6. Named(g, p, name[1].text) = Named(heap, p, name[1].text)
    BY <1>10, <2>5 DEF Named
  <2>. QED
    BY <2>1, <2>2, <2>6
<1>. HIDE DEF f, g
<1>12. /\ item \in Item /\ Len(item) = 2 /\ item[1] = k /\ item[2] = v
       /\ k \in Value
  BY <1>1, <1>4, ItemMade DEF Value
<1>13. /\ o3[p] > 0
       /\ \A q \in Addresses : /\ Times(item, q) <= o3[q]
                               /\ o4[q] = o1[q] /\ Minus(o4, k)[q] = o[q]
  <2>. HIDE DEF item
  <2>1. \A q \in Addresses :
          /\ Times(item, q) = (IF q = k THEN 1 ELSE 0) + (IF q = v THEN 1 ELSE 0)
          /\ o3[q] = o[q] + (IF q = k THEN 1 ELSE 0) + (IF q = k THEN 1 ELSE 0) + (IF q = v THEN 1 ELSE 0)
          /\ o4[q] = o3[q] - Times(item, q) /\ o1[q] = o[q] + (IF q = k THEN 1 ELSE 0)
          /\ Minus(o4, k)[q] = o4[q] - (IF q = k THEN 1 ELSE 0)
          /\ o[q] \in Nat
    BY <1>1, <1>12 DEF Times, Plus, MinusItem, Minus
  <2>2. o[p] > 0
    BY <1>1, <1>3 DEF HeldIn
  <2>. HIDE DEF o1, o2, o3, o4
  <2>. QED
    BY <1>3, <2>1, <2>2
<1>14. Minus(o4, k) = o
  <2>1. Minus(o4, k) = [q \in Addresses |-> Minus(o4, k)[q]] /\ o = [q \in Addresses |-> o[q]]
    BY <1>1 DEF Minus
  <2>. HIDE DEF o4
  <2>. QED
    BY <1>13, <2>1
<1>15. Named(g, p, Text(g, k)) # {} \/ Len(g[p].items) < MaxItems
  BY <1>2, <1>10, <1>11 DEF PairFits
<1>16. k \in Addresses => o4[k] > 0
  <2>1. o1[k] = o[k] + 1 /\ o[k] \in Nat
    BY <1>1, <1>4 DEF Plus
  <2>. HIDE DEF o1, o4
  <2>. QED
    BY <1>13, <2>1
<1>. HIDE DEF o3
<1>17. Good(u, {}, o4) /\ Later(g, u)
  BY <1>1, <1>9, <1>10, <1>12, <1>13, <1>15, KeyedGood
<1>. HIDE DEF u, o4
<1>18. Good(heap', {}, o) /\ Keeps(u, heap')
  BY <1>2, <1>12, <1>14, <1>16, <1>17, ReleasedGood
<1>19. Grown(heap, heap')
  <2>1. HeapTyped(f) /\ HeapTyped(g) /\ HeapTyped(u) /\ HeapTyped(heap')
    BY <1>8, <1>9, <1>17, <1>18 DEF Good
  <2>2. Later(c, f) /\ Later(f, g) /\ Later(u, heap')
    BY <1>7, <1>8, <1>9, <1>18, <2>1, KeepsLater
  <2>3. Later(c, g)
    BY <1>7, <2>1, <2>2, LaterThrough
  <2>4. Later(c, u)
    BY <1>7, <1>17, <2>1, <2>3, LaterThrough
  <2>5. Later(c, heap')
    BY <1>7, <2>1, <2>2, <2>4, LaterThrough
  <2>. QED
    BY <1>1, <1>5, <2>1, <2>5, CreatedGrown DEF c
<1>. QED
  BY <1>2, <1>18, <1>19, BuildKept DEF o, IInv

-------------------------------------------------------------------------------
(* The steps of iterators *)

(* An iterator takes object p, at a place of it. *)
LEMMA WalkKept ==
  ASSUME IInv, NEW w \in Walks, NEW p \in Value, NEW at \in Nat, Alive(heap, p),
         at <= Pairs(heap, p),
         Good(heap', {}, Plus(Minus(Held(hand, walk, lost), walk[w].object), p)), Grown(heap, heap'),
         walk' = [walk EXCEPT ![w] = [object |-> p, at |-> at]], hand' = hand, lost' = lost
  PROVE  IInv'
<1>1. walk \in [Walks -> Iterator] /\ lost \in Losses /\ w \in Walks
  BY DEF IInv
<1>2. [object |-> p, at |-> at] \in Iterator
  BY DEF Iterator
<1>3. /\ walk' \in [Walks -> Iterator] /\ walk'[w].object = p /\ walk'[w].at = at
      /\ \A v \in Walks : v # w => walk'[v] = walk[v]
  BY <1>1, <1>2
<1>4. \A v \in Walks : v # w => walk'[v].object = walk[v].object
  BY <1>3
<1>5. Held(hand, walk', lost) = Plus(Minus(Held(hand, walk, lost), walk[w].object), walk'[w].object)
  BY ONLY <1>1, <1>4, HeldByWalk
<1>6. Held(hand, walk, lost)' = Plus(Minus(Held(hand, walk, lost), walk[w].object), p)
  BY <1>3, <1>5 DEF Held
<1>7. Good(heap', {}, Held(hand, walk, lost)')
  BY <1>6
<1>8. \A v \in Walks : /\ walk'[v].at <= Pairs(heap, walk'[v].object)
                       /\ Alive(heap, walk'[v].object)
  <2>1. \A v \in Walks : /\ walk[v].at <= Pairs(heap, walk[v].object)
                         /\ Alive(heap, walk[v].object)
    BY InvFacts DEF IInv
  <2>. QED
    BY <1>3, <2>1
<1>9. hand' \in [Handles -> Value] /\ lost' \in Losses
  BY DEF IInv
<1>. QED
  BY <1>3, <1>7, <1>8, <1>9, InvKept

LEMMA StandKept ==
  ASSUME IInv, NEW w \in Walks, NEW x \in Handles, NEW at \in Nat, at <= Pairs(heap, hand[x]),
         Stand(w, hand[x], at)
  PROVE  IInv'
<1>. DEFINE o == Held(hand, walk, lost)
            p == hand[x]
            old == walk[w].object
            g == Released(Copied(Released(Copied(heap, p), old), p), p)
<1>1. /\ HeapTyped(heap) /\ Good(heap, {}, o) /\ p \in Value /\ HeldIn(o, p) /\ Alive(heap, p)
      /\ old \in Value /\ HeldIn(o, old)
  BY InvFacts DEF IInv
<1>2. /\ heap' = g /\ walk' = [walk EXCEPT ![w] = [object |-> p, at |-> at]]
      /\ hand' = hand /\ lost' = lost /\ at <= Pairs(heap, p)
  BY DEF Stand
<1>3. Good(g, {}, Plus(Minus(o, old), p)) /\ Keeps(heap, g)
  <2>. HIDE DEF o, p, old
  <2>. QED
    BY <1>1, StoodGood
<1>4. Grown(heap, g)
  BY <1>1, <1>3, KeepsGrown
<1>. HIDE DEF g, p
<1>. QED
  BY <1>1, <1>2, <1>3, <1>4, WalkKept DEF o, old

LEMMA PairsNat ==
  ASSUME IInv, NEW p \in Value, Alive(heap, p)
  PROVE  Pairs(heap, p) \in Nat
<1>1. HeapTyped(heap) /\ Keeps(heap, heap)
  BY InvFacts DEF Keeps
<1>2. Grown(heap, heap)
  BY <1>1, KeepsGrown
<1>. QED
  BY <1>1, <1>2, PairsGrow

LEMMA BeginKept ==
  ASSUME IInv, NEW w \in Walks, NEW x \in Handles, Begin(w, x)
  PROVE  IInv'
<1>. DEFINE at == IF Pairs(heap, hand[x]) > 0 THEN 1 ELSE 0
<1>1. Pairs(heap, hand[x]) \in Nat
  BY InvFacts, PairsNat
<1>2. at \in Nat /\ at <= Pairs(heap, hand[x])
  BY <1>1
<1>3. Stand(w, hand[x], at)
  BY DEF Begin
<1>. HIDE DEF at
<1>. QED
  BY <1>2, <1>3, StandKept

LEMMA EndKept ==
  ASSUME IInv, NEW w \in Walks, NEW x \in Handles, End(w, x)
  PROVE  IInv'
<1>1. Pairs(heap, hand[x]) \in Nat
  BY InvFacts, PairsNat
<1>2. 0 \in Nat /\ 0 <= Pairs(heap, hand[x])
  BY <1>1
<1>3. Stand(w, hand[x], 0)
  BY DEF End
<1>. QED
  BY <1>2, <1>3, StandKept

LEMMA CopyWalkKept ==
  ASSUME IInv, NEW w \in Walks, NEW v \in Walks, CopyWalk(w, v)
  PROVE  IInv'
<1>. DEFINE o == Held(hand, walk, lost)
            p == walk[v].object
            old == walk[w].object
            g == Released(heap, old)
            free == [walk EXCEPT ![w] = [object |-> Null, at |-> 0]]
<1>1. /\ HeapTyped(heap) /\ Good(heap, {}, o) /\ o \in [Addresses -> Nat]
      /\ p \in Value /\ Alive(heap, p) /\ old \in Value /\ HeldIn(o, old)
      /\ walk[v].at \in Nat /\ walk[v].at <= Pairs(heap, p)
  BY InvFacts DEF IInv, Iterator
<1>2. /\ heap' = Copied(g, p) /\ hand' = hand /\ lost' = lost /\ w # v
      /\ walk' = [walk EXCEPT ![w] = [object |-> p, at |-> walk[v].at]]
  <2>1. walk[v] = [object |-> p, at |-> walk[v].at]
    BY DEF IInv, Iterator
  <2>. QED
    BY <2>1 DEF CopyWalk
(* Without iterator w, v still has its reference. *)
<1>3. p \in Addresses => Minus(o, old)[p] > 0
  <2>1. /\ free[v].object = p /\ free[w].object = Null
        /\ \A u \in Walks : u # w => free[u].object = walk[u].object
    BY <1>2 DEF IInv
  <2>2. lost \in Losses
    BY DEF IInv
  <2>. HIDE DEF free
  <2>3. Held(hand, free, lost) = Plus(Minus(o, old), Null)
    BY <2>1, <2>2, HeldByWalk
  <2>4. Held(hand, free, lost) = Minus(o, old)
    <3>1. o \in [Addresses -> Int]
      BY <1>1
    <3>. HIDE DEF o
    <3>. QED
      BY <2>3, <3>1, NullFacts, SumsCommute
  <2>5. p \in Addresses => Held(hand, free, lost)[p] > 0
    <3>1. \A u \in Walks : free[u].object \in Addresses => Held(hand, free, lost)[free[u].object] > 0
      BY <2>2, HeldFacts
    <3>. QED
      BY <2>1, <3>1
  <2>. QED
    BY <2>4, <2>5
<1>. HIDE DEF o, p, old
<1>4. Good(g, {}, Minus(o, old)) /\ Keeps(heap, g)
  BY <1>1, ReleasedGood DEF HeldIn
<1>. HIDE DEF g
<1>5. Alive(g, p)
  BY <1>1, <1>3, <1>4, HeldAlive
<1>6. Good(heap', {}, Plus(Minus(o, old), p)) /\ Keeps(g, heap')
  BY <1>2, <1>4, <1>5, CopiedGood
<1>7. Grown(heap, heap')
  <2>1. Keeps(heap, heap')
    BY <1>4, <1>6, KeepsThrough
  <2>. QED
    BY <1>1, <2>1, KeepsGrown
<1>. DEFINE at == walk[v].at
<1>8. at \in Nat /\ at <= Pairs(heap, p) /\ walk' = [walk EXCEPT ![w] = [object |-> p, at |-> at]]
  BY <1>1, <1>2
<1>. HIDE DEF at
<1>. QED
  BY <1>1, <1>2, <1>6, <1>7, <1>8, WalkKept DEF o, old

(* Only the place of iterator w changes. *)
LEMMA MovedKept ==
  ASSUME IInv, NEW w \in Walks, NEW at \in Nat, at <= Pairs(heap, walk[w].object),
         walk' = [walk EXCEPT ![w].at = at], heap' = heap, hand' = hand, lost' = lost
  PROVE  IInv'
<1>. DEFINE o == Held(hand, walk, lost)
            p == walk[w].object
<1>1. HeapTyped(heap) /\ Good(heap, {}, o) /\ o \in [Addresses -> Int] /\ p \in Value /\ Alive(heap, p)
  BY InvFacts DEF IInv
<1>2. walk' = [walk EXCEPT ![w] = [object |-> p, at |-> at]]
  <2>1. walk[w] \in Iterator
    BY DEF IInv
  <2>2. [walk[w] EXCEPT !.at = at] = [object |-> p, at |-> at]
    BY <2>1 DEF Iterator
  <2>. HIDE DEF p
  <2>. QED
    BY <2>2
<1>3. Plus(Minus(o, p), p) = o
  <2>. HIDE DEF o, p
  <2>. QED
    BY <1>1, SumsCommute
<1>4. Grown(heap, heap)
  BY <1>1, KeepsGrown DEF Keeps
<1>5. at <= Pairs(heap, p)
  OBVIOUS
<1>6. Good(heap', {}, Plus(Minus(o, p), p)) /\ Grown(heap, heap') /\ hand' = hand /\ lost' = lost
  BY <1>1, <1>3, <1>4
<1>7. IInv /\ w \in Walks /\ at \in Nat
  OBVIOUS
<1>8. p = walk[w].object /\ o = Held(hand, walk, lost)
  OBVIOUS
<1>. HIDE DEF p, o
<1>. QED
  BY ONLY <1>1, <1>2, <1>5, <1>6, <1>7, <1>8, WalkKept

LEMMA ForwardKept ==
  ASSUME IInv, NEW w \in Walks, Forward(w)
  PROVE  IInv'
<1>. DEFINE n == walk[w].at
            m == Pairs(heap, walk[w].object)
            at == IF n = 0 \/ n = m THEN 0 ELSE n + 1
<1>1. n \in Nat /\ n <= m /\ m \in Nat
  BY InvFacts, PairsNat DEF IInv, Iterator
<1>2. at \in Nat /\ at <= m
  <2>. HIDE DEF n, m
  <2>. QED
    BY <1>1
<1>3. walk' = [walk EXCEPT ![w].at = at] /\ heap' = heap /\ hand' = hand /\ lost' = lost
  BY DEF Forward
<1>. HIDE DEF at
<1>. QED
  BY <1>2, <1>3, MovedKept

LEMMA BackwardKept ==
  ASSUME IInv, NEW w \in Walks, Backward(w)
  PROVE  IInv'
<1>. DEFINE n == walk[w].at
            m == Pairs(heap, walk[w].object)
            at == IF n = 0 THEN 0 ELSE n - 1
<1>1. n \in Nat /\ n <= m /\ m \in Nat
  BY InvFacts, PairsNat DEF IInv, Iterator
<1>2. at \in Nat /\ at <= m
  <2>. HIDE DEF n, m
  <2>. QED
    BY <1>1
<1>3. walk' = [walk EXCEPT ![w].at = at] /\ heap' = heap /\ hand' = hand /\ lost' = lost
  BY DEF Backward
<1>. HIDE DEF at
<1>. QED
  BY <1>2, <1>3, MovedKept

LEMMA DerefKept ==
  ASSUME IInv, NEW w \in Walks, NEW x \in Handles, NEW j \in {1, 2}, Deref(w, x, j)
  PROVE  IInv'
<1>. DEFINE o == Held(hand, walk, lost)
            p == walk[w].object
            n == walk[w].at
            pair == IF n = 0 THEN <<Null, Null>> ELSE heap[p].items[n]
            g == AllReleased(Assigned(AllCopied(heap, pair), hand[x], pair[j]), pair)
<1>1. /\ HeapTyped(heap) /\ Good(heap, {}, o) /\ hand[x] \in Value /\ HeldIn(o, hand[x])
      /\ p \in Value /\ n \in Nat /\ n <= Pairs(heap, p)
  BY InvFacts DEF IInv, Iterator
<1>2. /\ heap' = g /\ hand' = [hand EXCEPT ![x] = pair[j]]
      /\ walk' = walk /\ lost' = lost
  BY DEF Deref
<1>3. pair \in [1 .. 2 -> Value] /\ \A i \in {1, 2} : Alive(heap, pair[i])
  <2>. HIDE DEF p, n, o
  <2>1. CASE n = 0
    BY <2>1, NullFacts, NullAlive
  <2>2. CASE n # 0
    <3>1. Kind(heap, p) = "object" /\ n <= Len(heap[p].items)
      <4>1. Pairs(heap, p) # 0
        BY <1>1, <2>2
      <4>. QED
        BY <1>1, <4>1 DEF Pairs
    <3>2. p \in DOMAIN heap /\ heap[p].kind = "object"
      BY <3>1, KindAlive
    <3>3. n \in DOMAIN heap[p].items
      <4>1. heap[p].items \in Seq(ItemOf(heap[p].kind))
        BY <1>1, <3>2 DEF HeapTyped, Proper
      <4>2. DOMAIN heap[p].items = 1 .. Len(heap[p].items) /\ Len(heap[p].items) \in Nat
        BY <4>1, LenProperties
      <4>. QED
        BY <1>1, <2>2, <3>1, <4>2
    <3>4. Width(heap[p].kind) = 2
      BY <3>2 DEF Width
    <3>5. \A i \in 1 .. 2 : /\ heap[p].items[n] \in ItemOf(heap[p].kind)
                            /\ Alive(heap, heap[p].items[n][i])
      BY <1>1, <3>2, <3>3, <3>4, ItemAlive
    <3>6. pair = heap[p].items[n]
      BY <2>2
    <3>7. 1 \in 1 .. 2 /\ 2 \in 1 .. 2
      OBVIOUS
    <3>. HIDE DEF pair
    <3>8. pair \in ItemOf(heap[p].kind) /\ \A i \in {1, 2} : Alive(heap, pair[i])
      BY <3>5, <3>6, <3>7
    <3>. QED
      BY <3>4, <3>8 DEF ItemOf
  <2>. QED
    BY <2>1, <2>2
<1>. HIDE DEF o, pair
<1>4. Good(g, {}, Plus(Minus(o, hand[x]), pair[j])) /\ Keeps(heap, g)
  BY <1>1, <1>3, DerefGood
<1>5. Grown(heap, g)
  BY <1>1, <1>4, KeepsGrown
<1>. HIDE DEF g
<1>6. pair[j] \in Value
  BY <1>3
<1>. DEFINE r == pair[j]
<1>7. /\ r \in Value /\ hand' = [hand EXCEPT ![x] = r] /\ Grown(heap, heap')
      /\ Good(heap', {}, Plus(Minus(o, hand[x]), r))
  BY <1>2, <1>4, <1>5, <1>6
<1>. HIDE DEF r
<1>. QED
  BY <1>2, <1>7, HandKept DEF o

-------------------------------------------------------------------------------
(* The theorems *)

LEMMA InitInv == Init => IInv
<1>. SUFFICES ASSUME Init PROVE IInv
  OBVIOUS
<1>. DEFINE o == Held(hand, walk, lost)
<1>1. /\ DOMAIN heap = {} /\ heap = [p \in DOMAIN heap |-> heap[p]]
      /\ hand = [x \in Handles |-> Null]
      /\ walk = [w \in Walks |-> [object |-> Null, at |-> 0]]
      /\ lost = [p \in Addresses |-> 0]
  BY DEF Init
<1>2. lost \in Losses
  BY <1>1, HandleConstants DEF Losses
<1>3. \A q \in Addresses : o[q] = 0
  <2>. SUFFICES ASSUME NEW q \in Addresses PROVE o[q] = 0
    OBVIOUS
  <2>. DEFINE f == [w \in Walks |-> walk[w].object]
  <2>1. \A x \in Handles : hand[x] # q
    BY <1>1, NullFacts
  <2>2. \A w \in Walks : f[w] # q
    BY <1>1, NullFacts
  <2>3. o[q] = Users(Handles, hand, q) + Users(Walks, f, q) + lost[q]
    BY DEF Held
  <2>. HIDE DEF f, o
  <2>4. Users(Handles, hand, q) = 0 /\ Users(Walks, f, q) = 0
    <3>1. /\ Users(Handles, hand, q) \in Nat /\ ~(Users(Handles, hand, q) > 0)
          /\ Users(Walks, f, q) \in Nat /\ ~(Users(Walks, f, q) > 0)
      BY <2>1, <2>2, HandleConstants, UsersFacts
    <3>. QED
      BY <3>1
  <2>. QED
    BY <1>1, <2>3, <2>4
<1>4. o \in [Addresses -> Nat]
  BY <1>2, HeldFacts
<1>5. All(heap) = {}
  BY <1>1, CellsOfUnion DEF All
<1>6. HeapTyped(heap)
  BY <1>1 DEF HeapTyped
<1>. HIDE DEF o
<1>7. Good(heap, {}, o)
  BY <1>1, <1>3, <1>4, <1>5, <1>6 DEF Good
<1>8. hand \in [Handles -> Value] /\ walk \in [Walks -> Iterator]
  BY <1>1, NullFacts DEF Iterator
<1>9. \A w \in Walks : walk[w].at <= Pairs(heap, walk[w].object)
  <2>1. \A w \in Walks : walk[w].at = 0 /\ walk[w].object = Null
    BY <1>1
  <2>2. Pairs(heap, Null) = 0
    BY <1>1 DEF Pairs, Kind
  <2>. QED
    BY <2>1, <2>2
<1>. QED
  BY <1>2, <1>7, <1>8, <1>9 DEF IInv, o

LEMMA NextInv == IInv /\ [Next]_vars => IInv'
<1>. SUFFICES ASSUME IInv, [Next]_vars PROVE IInv'
  OBVIOUS
<1>1. ASSUME NEW doc \in Documents, Parse(doc) PROVE IInv'
  BY <1>1, ParseKept
<1>2. ASSUME NEW doc \in Documents, NEW x \in Handles \ {Dom}, Construct(x, doc) PROVE IInv'
  BY <1>2, ConstructKept
<1>3. CASE ParseRefused
  BY <1>3, ParseRefusedKept
<1>4. ASSUME NEW x \in Handles \ {Dom}, Scope(x) \/ GetDom(x) PROVE IInv'
  BY <1>4, ScopeKept, GetDomKept
<1>5. ASSUME NEW x \in Handles \ {Dom}, NEW y \in Handles \ {Dom}, Assign(x, y) PROVE IInv'
  BY <1>5, AssignKept
<1>6. ASSUME NEW x \in Handles \ {Dom}, NEW y \in Handles \ {Dom}, NEW i \in 1 .. MaxItems,
             Element(x, y, i)
      PROVE  IInv'
  BY <1>6, ElementKept
<1>7. ASSUME NEW x \in Handles \ {Dom}, NEW y \in Handles \ {Dom}, NEW i \in 1 .. MaxItems,
             Put(x, i, y)
      PROVE  IInv'
  <2>1. i \in Nat \ {0}
    BY HandleConstants
  <2>. QED
    BY <1>7, <2>1, PutKept
<1>8. ASSUME NEW x \in Handles \ {Dom}, NEW y \in Handles \ {Dom}, AppendTo(x, y) PROVE IInv'
  BY <1>8, AppendToKept
<1>9. ASSUME NEW x \in Handles \ {Dom}, NEW y \in Handles \ {Dom}, NEW name \in Names,
             Member(x, y, name[1].text)
      PROVE  IInv'
  BY <1>9, MemberKept
<1>10. ASSUME NEW x \in Handles \ {Dom}, NEW y \in Handles \ {Dom}, NEW name \in Names,
              PutNamed(x, name, y)
       PROVE  IInv'
  <2>1. name \in Documents /\ Len(name) = 1
    BY DEF Names
  <2>. QED
    BY <1>10, <2>1, PutNamedKept
<1>11. ASSUME NEW x \in Handles \ {Dom}, NEW y \in Handles \ {Dom}, PutNameless(x, y) PROVE IInv'
  BY <1>11, PutNamelessKept
<1>12. ASSUME NEW x \in Handles \ {Dom}, NEW y \in Handles \ {Dom}, NEW k \in Handles \ {Dom},
              PutPair(x, k, y)
       PROVE  IInv'
  BY <1>12, PutPairKept
<1>13. ASSUME NEW x \in Handles \ {Dom}, NEW w \in Walks, Begin(w, x) \/ End(w, x) PROVE IInv'
  BY <1>13, BeginKept, EndKept
<1>14. ASSUME NEW x \in Handles \ {Dom}, NEW w \in Walks, NEW j \in {1, 2}, Deref(w, x, j)
       PROVE  IInv'
  BY <1>14, DerefKept
<1>15. ASSUME NEW w \in Walks, Forward(w) \/ Backward(w) PROVE IInv'
  BY <1>15, ForwardKept, BackwardKept
<1>16. ASSUME NEW w \in Walks, NEW v \in Walks, CopyWalk(w, v) PROVE IInv'
  BY <1>16, CopyWalkKept
<1>17. CASE UNCHANGED vars
  <2>1. heap' = heap /\ hand' = hand /\ walk' = walk /\ lost' = lost
    BY <1>17 DEF vars
  <2>. QED
    BY <2>1 DEF IInv, Held, Pairs, Kind
<1>. QED
  BY <1>1, <1>2, <1>3, <1>4, <1>5, <1>6, <1>7, <1>8, <1>9, <1>10, <1>11, <1>12, <1>13, <1>14,
     <1>15, <1>16, <1>17 DEF Next

THEOREM Invariance == Spec => []IInv
BY InitInv, NextInv, PTL DEF Spec

(* What the invariant says of TypeOK *)
LEMMA InvTypeOK == IInv => TypeOK
<1>. SUFFICES ASSUME IInv PROVE TypeOK
  OBVIOUS
<1>. DEFINE o == Held(hand, walk, lost)
<1>1. Good(heap, {}, o) /\ HeapTyped(heap)
  BY InvFacts DEF IInv
<1>2. ASSUME NEW p \in DOMAIN heap
      PROVE  /\ p \in Addresses /\ heap[p].cnt > 0
             /\ heap[p].kind \in {"object", "array", "string"}
             /\ Len(heap[p].items) <= MaxItems
  BY <1>1 DEF HeapTyped, Proper, Node, Kinds
<1>3. ElementsRemain
  <2>1. All(heap) \ {} = All(heap)
    OBVIOUS
  <2>2. \A c \in All(heap) : At(heap, c) \in DOMAIN heap \cup Statics
    BY <1>1, <2>1 DEF Good
  <2>. QED
    BY <2>2 DEF ElementsRemain, All
<1>4. \A x \in Handles : hand[x] \in DOMAIN heap \cup Statics
  BY InvFacts DEF Alive
<1>5. ASSUME NEW w \in Walks
      PROVE  /\ walk[w].object \in DOMAIN heap \cup Statics
             /\ walk[w].at \in 0 .. Pairs(heap, walk[w].object)
  <2>1. Alive(heap, walk[w].object) /\ Pairs(heap, walk[w].object) \in Nat
    BY InvFacts, PairsNat
  <2>2. walk[w].at \in Nat /\ walk[w].at <= Pairs(heap, walk[w].object)
    BY DEF IInv, Iterator
  <2>. QED
    BY <2>1, <2>2 DEF Alive
<1>6. lost \in [Addresses -> 0 .. MaxLost]
  BY DEF IInv, Losses
<1>. QED
  BY <1>2, <1>3, <1>4, <1>5, <1>6 DEF TypeOK

(* No handle, no iterator and no container is left pointing to a value that was
   freed (JValue.cpp 134-163, 298-346, 537-558; jobject.c 262-339). *)
THEOREM TypesHold == Spec => []TypeOK
<1>1. IInv => TypeOK
  BY InvTypeOK
<1>. QED
  BY <1>1, Invariance, PTL

LEMMA InvCounted == IInv => Counted
<1>. SUFFICES ASSUME IInv, NEW p \in DOMAIN heap
     PROVE  heap[p].cnt = Cardinality({x \in Handles : hand[x] = p})
                          + Cardinality({w \in Walks : walk[w].object = p})
                          + Refs(heap, DOMAIN heap, p)
                          + lost[p]
  BY DEF Counted
<1>. DEFINE o == Held(hand, walk, lost)
            f == [w \in Walks |-> walk[w].object]
<1>1. Good(heap, {}, o) /\ HeapTyped(heap)
  BY InvFacts DEF IInv
<1>2. p \in Addresses
  BY <1>1 DEF HeapTyped
<1>3. heap[p].cnt = o[p] + Count(heap, All(heap), p)
  <2>1. All(heap) \ {} = All(heap)
    OBVIOUS
  <2>2. heap[p].cnt = o[p] + Count(heap, All(heap) \ {}, p)
    BY <1>1 DEF Good
  <2>. QED
    BY <2>1, <2>2
<1>4. o[p] = Users(Handles, hand, p) + Users(Walks, f, p) + lost[p]
  BY <1>2 DEF Held
<1>5. {w \in Walks : f[w] = p} = {w \in Walks : walk[w].object = p}
  OBVIOUS
<1>6. /\ Users(Handles, hand, p) = Cardinality({x \in Handles : hand[x] = p})
      /\ Users(Walks, f, p) = Cardinality({w \in Walks : walk[w].object = p})
      /\ Count(heap, All(heap), p) = Refs(heap, DOMAIN heap, p)
  BY <1>5 DEF Users, Count, All, Refs
<1>7. /\ Users(Handles, hand, p) \in Nat /\ Users(Walks, f, p) \in Nat /\ lost[p] \in Nat
      /\ Count(heap, All(heap), p) \in Nat
  <2>1. Users(Handles, hand, p) \in Nat /\ Users(Walks, f, p) \in Nat
    BY HandleConstants, UsersFacts
  <2>2. lost[p] \in Nat
    BY <1>2, HandleConstants DEF IInv, Losses
  <2>3. IsFiniteSet(All(heap))
    BY <1>1, CellsFinite DEF All
  <2>4. Count(heap, All(heap), p) \in Nat
    BY <2>3, CountFacts
  <2>. QED
    BY <2>1, <2>2, <2>4
<1>. HIDE DEF o, f
<1>. QED
  BY <1>3, <1>4, <1>6, <1>7

(* Every reference that is counted is held by a handle, an iterator or a container,
   or was left with a call that refused it: none is released that another still
   uses, and none is forgotten otherwise (JValue.cpp 134-163, 298-346, 537-558). *)
THEOREM CountedHolds == Spec => []Counted
<1>1. IInv => Counted
  BY InvCounted
<1>. QED
  BY <1>1, Invariance, PTL

-------------------------------------------------------------------------------
(* What a client sees of the heap: the values its handles and iterators lead *)
(* to, without their counts.                                                 *)

Contents(h, p) == UNION {ToSet(item) : item \in ToSet(h[p].items)}
More(h, S) == S \cup ((UNION {Contents(h, p) : p \in S}) \cap DOMAIN h)

UnderSteps(h, R, k, f) ==
  f = [n \in 0 .. k |-> IF n = 0 THEN R \cap DOMAIN h ELSE More(h, f[n - 1])]

LEMMA UnderStepsExist ==
  ASSUME NEW h, NEW R, NEW m \in Nat
  PROVE  \E f : UnderSteps(h, R, m, f)
<1>. DEFINE T == {k \in Nat : ~ \E f : UnderSteps(h, R, k, f)}
<1>1. SUFFICES ASSUME T # {} PROVE FALSE
  OBVIOUS
<1>2. PICK k \in T : \A j \in T : ~(j < k)
  BY <1>1, LeastOf
<1>3. k \in Nat /\ ~ \E f : UnderSteps(h, R, k, f)
  BY <1>2
<1>4. CASE k = 0
  <2>. DEFINE f == [n \in 0 .. 0 |-> R \cap DOMAIN h]
  <2>1. UnderSteps(h, R, 0, f)
    BY DEF UnderSteps
  <2>. QED
    BY <1>3, <1>4, <2>1
<1>5. CASE k # 0
  <2>1. k - 1 \in Nat /\ k - 1 < k
    BY <1>3, <1>5
  <2>2. PICK f : UnderSteps(h, R, k - 1, f)
    BY <1>2, <2>1
  <2>. DEFINE g == [n \in 0 .. k |-> IF n = k THEN More(h, f[k - 1]) ELSE f[n]]
  <2>3. \A n \in 0 .. k - 1 : f[n] = IF n = 0 THEN R \cap DOMAIN h ELSE More(h, f[n - 1])
    BY <2>2 DEF UnderSteps
  <2>4. \A n \in 0 .. k : g[n] = IF n = 0 THEN R \cap DOMAIN h ELSE More(h, g[n - 1])
    <3>. TAKE n \in 0 .. k
    <3>1. CASE n = k
      BY <1>3, <1>5, <2>1, <3>1
    <3>2. CASE n # k /\ n # 0
      <4>1. n \in 0 .. k - 1 /\ n - 1 \in 0 .. k /\ n - 1 # k
        BY <1>3, <3>2
      <4>. QED
        BY <2>3, <3>2, <4>1
    <3>3. CASE n # k /\ n = 0
      BY <1>3, <2>1, <2>3, <3>3
    <3>. QED
      BY <3>1, <3>2, <3>3
  <2>5. UnderSteps(h, R, k, g)
    BY <2>4 DEF UnderSteps
  <2>. QED
    BY <1>3, <2>5
<1>. QED
  BY <1>4, <1>5

LEMMA UnderIs ==
  ASSUME NEW h, NEW R, IsFiniteSet(DOMAIN h)
  PROVE  \E f : /\ UnderSteps(h, R, Cardinality(DOMAIN h), f)
                /\ Under(h, R) = f[Cardinality(DOMAIN h)]
<1>. DEFINE k == Cardinality(DOMAIN h)
            f == CHOOSE g : UnderSteps(h, R, k, g)
<1>1. k \in Nat
  BY FS_CardinalityType
<1>2. UnderSteps(h, R, k, f)
  BY <1>1, UnderStepsExist
<1>3. Under(h, R) = f[k]
  BY DEF Under, UnderSteps, More, Contents
<1>. QED
  BY <1>2, <1>3

(* The values under some roots are the roots and whatever is in one of them. *)
LEMMA UnderClosed ==
  ASSUME NEW h, NEW R, IsFiniteSet(DOMAIN h)
  PROVE  /\ Under(h, R) \subseteq DOMAIN h
         /\ R \cap DOMAIN h \subseteq Under(h, R)
         /\ \A p \in Under(h, R) : Contents(h, p) \cap DOMAIN h \subseteq Under(h, R)
<1>. DEFINE k == Cardinality(DOMAIN h)
<1>1. k \in Nat
  BY FS_CardinalityType
<1>2. PICK f : UnderSteps(h, R, k, f) /\ Under(h, R) = f[k]
  BY UnderIs
<1>3. ASSUME NEW n \in 0 .. k
      PROVE  f[n] = IF n = 0 THEN R \cap DOMAIN h ELSE More(h, f[n - 1])
  BY <1>2 DEF UnderSteps
<1>. HIDE DEF k
<1>. DEFINE Fine(n) == R \cap DOMAIN h \subseteq f[n] /\ f[n] \subseteq DOMAIN h
            Long(n) == More(h, f[n]) = f[n] \/ Cardinality(f[n]) >= n
            T == {n \in 0 .. k : ~(Fine(n) /\ Long(n))}
<1>4. T = {}
  <2>1. SUFFICES ASSUME T # {} PROVE FALSE
    OBVIOUS
  <2>2. PICK n \in T : \A m \in T : ~(m < n)
    <3>1. T \subseteq Nat
      BY <1>1
    <3>. HIDE DEF T
    <3>. QED
      BY <2>1, <3>1, LeastOf
  <2>3. n \in 0 .. k /\ ~(Fine(n) /\ Long(n))
    BY <2>2
  <2>4. CASE n = 0
    <3>1. f[0] = R \cap DOMAIN h
      BY <1>1, <1>3
    <3>2. f[0] \in SUBSET DOMAIN h
      BY <3>1
    <3>3. Cardinality(f[0]) \in Nat
      BY <3>2, FS_Subset, FS_CardinalityType
    <3>. QED
      BY <2>3, <2>4, <3>1, <3>3
  <2>5. CASE n # 0
    <3>1. n - 1 \in 0 .. k /\ n - 1 < n
      BY <1>1, <2>3, <2>5
    <3>2. Fine(n - 1) /\ Long(n - 1)
      BY <2>2, <3>1
    <3>. DEFINE A == f[n - 1]
                B == f[n]
    <3>3. B = More(h, A) /\ A \subseteq B /\ A \subseteq DOMAIN h /\ B \subseteq DOMAIN h
      BY <1>3, <2>3, <2>5, <3>2 DEF More
    <3>4. More(h, B) = B \/ Cardinality(B) >= n
      <4>1. CASE More(h, A) = A
        BY <3>3, <4>1
      <4>2. CASE A # B
        <5>1. Cardinality(A) >= n - 1
          BY <3>2, <3>3, <4>2
        <5>2. IsFiniteSet(A) /\ IsFiniteSet(B)
          BY <3>3, FS_Subset
        <5>3. Cardinality(A) <= Cardinality(B) /\ Cardinality(A) # Cardinality(B)
          BY <3>3, <4>2, <5>2, FS_Subset
        <5>4. Cardinality(A) \in Nat /\ Cardinality(B) \in Nat /\ n \in Nat
          BY <1>1, <2>3, <5>2, FS_CardinalityType
        <5>. QED
          BY <5>1, <5>3, <5>4
      <4>. QED
        BY <3>3, <4>1, <4>2
    <3>. QED
      BY <2>3, <3>2, <3>3, <3>4
  <2>. QED
    BY <2>4, <2>5
<1>5. Fine(k) /\ Long(k)
  BY <1>1, <1>4
<1>6. More(h, f[k]) = f[k]
  <2>1. CASE Cardinality(f[k]) >= k
    <3>1. Cardinality(f[k]) <= Cardinality(DOMAIN h)
          /\ (Cardinality(DOMAIN h) = Cardinality(f[k]) => DOMAIN h = f[k])
      BY <1>5, FS_Subset
    <3>2. Cardinality(f[k]) \in Nat
      BY <1>5, FS_CardinalityType, FS_Subset
    <3>3. f[k] = DOMAIN h
      BY <1>1, <2>1, <3>1, <3>2 DEF k
    <3>. QED
      BY <3>3 DEF More
  <2>. QED
    BY <1>5, <2>1
<1>. QED
  BY <1>2, <1>5, <1>6 DEF More

LEMMA UnderLeast ==
  ASSUME NEW h, NEW R, IsFiniteSet(DOMAIN h), NEW S, R \cap DOMAIN h \subseteq S,
         \A p \in S \cap DOMAIN h : Contents(h, p) \cap DOMAIN h \subseteq S
  PROVE  Under(h, R) \subseteq S
<1>. DEFINE k == Cardinality(DOMAIN h)
<1>1. k \in Nat
  BY FS_CardinalityType
<1>2. PICK f : UnderSteps(h, R, k, f) /\ Under(h, R) = f[k]
  BY UnderIs
<1>3. ASSUME NEW n \in 0 .. k
      PROVE  f[n] = IF n = 0 THEN R \cap DOMAIN h ELSE More(h, f[n - 1])
  BY <1>2 DEF UnderSteps
<1>. HIDE DEF k
<1>. DEFINE T == {n \in 0 .. k : ~(f[n] \subseteq S \cap DOMAIN h)}
<1>4. T = {}
  <2>1. SUFFICES ASSUME T # {} PROVE FALSE
    OBVIOUS
  <2>2. PICK n \in T : \A m \in T : ~(m < n)
    <3>1. T \subseteq Nat
      BY <1>1
    <3>. HIDE DEF T
    <3>. QED
      BY <2>1, <3>1, LeastOf
  <2>3. n \in 0 .. k /\ ~(f[n] \subseteq S \cap DOMAIN h)
    BY <2>2
  <2>4. n # 0
    BY <1>3, <2>3
  <2>5. n - 1 \in 0 .. k /\ n - 1 < n /\ f[n] = More(h, f[n - 1])
    BY <1>1, <1>3, <2>3, <2>4
  <2>6. f[n - 1] \subseteq S \cap DOMAIN h
    BY <2>2, <2>5
  <2>7. \A p \in f[n - 1] : Contents(h, p) \cap DOMAIN h \subseteq S
    BY <2>6
  <2>. QED
    BY <2>3, <2>5, <2>6, <2>7 DEF More
<1>. QED
  BY <1>1, <1>2, <1>4

View(node) == [kind |-> node.kind, text |-> node.text, items |-> node.items]
Leading(a, b) == {a[x] : x \in Handles} \cup {b[w].object : w \in Walks}
Graph(h, a, b) == [p \in Under(h, Leading(a, b)) |-> View(h[p])]

(* What is left of a graph g once the handles are a and the iterators b. *)
LiveOf(a, b, g) == [p \in Under(g, Leading(a, b)) |-> g[p]]

LEMMA LiveIs ==
  ASSUME NEW a, NEW b, NEW g
  PROVE  Shared!Live(a, b, g) = LiveOf(a, b, g)
<1>1. Shared!Roots(a, b) = Leading(a, b)
  BY DEF Shared!Roots, Leading
<1>2. ASSUME NEW R PROVE Shared!Reach(g, R) = Under(g, R)
  <2>. DEFINE k == Cardinality(DOMAIN g)
  <2>1. Under(g, R) = (CHOOSE f : UnderSteps(g, R, k, f))[k]
    BY DEF Under, UnderSteps, More, Contents
  <2>2. Shared!Reach(g, R) = (CHOOSE f : UnderSteps(g, R, k, f))[k]
    BY DEF Shared!Reach, Shared!Inside, UnderSteps, More, Contents, Shared!ToSet, ToSet,
           Shared!Cardinality, Cardinality
  <2>. QED
    BY <2>1, <2>2
<1>. QED
  BY <1>1, <1>2 DEF Shared!Live, LiveOf

(* Handles, iterators and containers lead to values of the heap. *)
Tied(h, a, b) ==
  /\ HeapTyped(h)
  /\ \A p \in DOMAIN h : Contents(h, p) \subseteq DOMAIN h \cup Statics
  /\ Leading(a, b) \subseteq DOMAIN h \cup Statics

LEMMA ContentIs ==
  ASSUME NEW h, NEW p, NEW q
  PROVE  q \in Contents(h, p) <=>
           \E i \in DOMAIN h[p].items : \E j \in DOMAIN h[p].items[i] : q = h[p].items[i][j]
BY DEF Contents, ToSet

LEMMA TiedInv ==
  ASSUME NEW h, NEW a \in [Handles -> Value], NEW b \in [Walks -> Iterator], NEW l \in Losses,
         Good(h, {}, Held(a, b, l))
  PROVE  Tied(h, a, b)
<1>. DEFINE o == Held(a, b, l)
<1>1. /\ \A x \in Handles : a[x] \in Value /\ (a[x] \in Addresses => o[a[x]] > 0)
      /\ \A w \in Walks : b[w].object \in Value /\ (b[w].object \in Addresses => o[b[w].object] > 0)
  <2>1. /\ \A x \in Handles : a[x] \in Value
        /\ \A w \in Walks : b[w].object \in Value
    BY DEF Iterator
  <2>. QED
    BY <2>1, HeldFacts
<1>. HIDE DEF o
<1>2. Good(h, {}, o)
  BY DEF o
<1>3. Leading(a, b) \subseteq DOMAIN h \cup Statics
  <2>1. /\ \A x \in Handles : Alive(h, a[x])
        /\ \A w \in Walks : Alive(h, b[w].object)
    BY <1>1, <1>2, HeldAlive
  <2>. QED
    BY <2>1 DEF Leading, Alive
<1>4. ASSUME NEW p \in DOMAIN h, NEW q \in Contents(h, p) PROVE q \in DOMAIN h \cup Statics
  <2>1. PICK i \in DOMAIN h[p].items : \E j \in DOMAIN h[p].items[i] : q = h[p].items[i][j]
    BY ContentIs
  <2>2. PICK j \in DOMAIN h[p].items[i] : q = h[p].items[i][j]
    BY <2>1
  <2>3. h[p].items[i] \in ItemOf(h[p].kind)
    <3>1. h[p].items \in Seq(ItemOf(h[p].kind))
      BY <1>2 DEF Good, HeapTyped, Proper
    <3>. QED
      BY <3>1
  <2>4. j \in 1 .. Width(h[p].kind)
    BY <2>2, <2>3 DEF ItemOf
  <2>. QED
    BY <1>2, <2>2, <2>4, ItemAlive DEF Alive
<1>5. HeapTyped(h)
  BY <1>2 DEF Good
<1>. QED
  BY <1>3, <1>4, <1>5 DEF Tied

LEMMA GraphFacts ==
  ASSUME NEW h, NEW a, NEW b, Tied(h, a, b)
  PROVE  LET g == Graph(h, a, b)
         IN  /\ DOMAIN g \subseteq DOMAIN h /\ DOMAIN g \subseteq Addresses
             /\ Leading(a, b) \subseteq DOMAIN g \cup Statics
             /\ \A p \in DOMAIN g :
                  /\ g[p] = View(h[p])
                  /\ Contents(g, p) = Contents(h, p)
                  /\ Contents(g, p) \subseteq DOMAIN g \cup Statics
<1>. DEFINE g == Graph(h, a, b)
            U == Under(h, Leading(a, b))
<1>1. /\ U \subseteq DOMAIN h /\ Leading(a, b) \cap DOMAIN h \subseteq U
      /\ \A p \in U : Contents(h, p) \cap DOMAIN h \subseteq U
  <2>1. IsFiniteSet(DOMAIN h)
    BY HeapFinite DEF Tied
  <2>. QED
    BY <2>1, UnderClosed
<1>2. DOMAIN g = U /\ \A p \in U : g[p] = View(h[p])
  BY DEF Graph
<1>. HIDE DEF g, U
<1>3. \A p \in U : Contents(g, p) = Contents(h, p)
  BY <1>2 DEF Contents, View
<1>4. \A p \in U : Contents(h, p) \subseteq U \cup Statics
  BY <1>1 DEF Tied
<1>5. Leading(a, b) \subseteq U \cup Statics
  BY <1>1 DEF Tied
<1>6. U \subseteq Addresses
  BY <1>1 DEF Tied, HeapTyped
<1>. QED
  BY <1>1, <1>2, <1>3, <1>4, <1>5, <1>6 DEF g

(* A graph that agrees with the heap and leads nowhere else becomes what the
   client sees, once the values nobody leads to are gone from it. *)
LEMMA BecomesLive ==
  ASSUME NEW h, NEW a, NEW b, Tied(h, a, b), NEW g, DOMAIN g \subseteq Addresses,
         Leading(a, b) \subseteq DOMAIN g \cup Statics,
         \A p \in DOMAIN g : Contents(g, p) \subseteq DOMAIN g \cup Statics,
         \A p \in DOMAIN g \cap DOMAIN h : g[p] = View(h[p])
  PROVE  Graph(h, a, b) = LiveOf(a, b, g)
<1>. DEFINE L == Leading(a, b)
            U == Under(h, L)
            V == Under(g, L)
<1>1. IsFiniteSet(DOMAIN h) /\ IsFiniteSet(DOMAIN g)
  BY HeapFinite, HandleConstants, FS_Subset DEF Tied
<1>2. /\ DOMAIN h \cap Statics = {} /\ DOMAIN g \cap Statics = {}
      /\ L \subseteq DOMAIN h \cup Statics /\ L \subseteq DOMAIN g \cup Statics
      /\ \A p \in DOMAIN h : Contents(h, p) \subseteq DOMAIN h \cup Statics
  BY StaticsApart DEF Tied, HeapTyped
<1>3. \A p \in DOMAIN g \cap DOMAIN h : Contents(g, p) = Contents(h, p)
  BY DEF Contents, View
<1>. HIDE DEF L
<1>4. /\ U \subseteq DOMAIN h /\ L \cap DOMAIN h \subseteq U
      /\ \A p \in U : Contents(h, p) \cap DOMAIN h \subseteq U
  BY <1>1, UnderClosed
<1>5. /\ V \subseteq DOMAIN g /\ L \cap DOMAIN g \subseteq V
      /\ \A p \in V : Contents(g, p) \cap DOMAIN g \subseteq V
  BY <1>1, UnderClosed
<1>6. U \subseteq DOMAIN g
  <2>1. L \cap DOMAIN h \subseteq DOMAIN g
    BY <1>2
  <2>2. \A p \in DOMAIN g \cap DOMAIN h : Contents(h, p) \cap DOMAIN h \subseteq DOMAIN g
    BY <1>2, <1>3
  <2>. QED
    BY <1>1, <2>1, <2>2, UnderLeast
<1>7. V \subseteq U
  <2>1. L \cap DOMAIN g \subseteq U
    BY <1>2, <1>4
  <2>2. \A p \in U \cap DOMAIN g : Contents(g, p) \cap DOMAIN g \subseteq U
    <3>1. TAKE p \in U \cap DOMAIN g
    <3>2. Contents(g, p) = Contents(h, p) /\ Contents(h, p) \subseteq DOMAIN h \cup Statics
      BY <1>2, <1>3, <1>4, <3>1
    <3>3. Contents(h, p) \cap DOMAIN h \subseteq U
      BY <1>4, <3>1
    <3>. QED
      BY <1>2, <3>2, <3>3
  <2>. HIDE DEF U
  <2>. QED
    BY <1>1, <2>1, <2>2, UnderLeast
<1>8. U \subseteq V
  <2>1. L \cap DOMAIN h \subseteq V
    BY <1>2, <1>5
  <2>2. \A p \in V \cap DOMAIN h : Contents(h, p) \cap DOMAIN h \subseteq V
    <3>1. TAKE p \in V \cap DOMAIN h
    <3>2. Contents(g, p) = Contents(h, p) /\ Contents(g, p) \subseteq DOMAIN g \cup Statics
      BY <1>3, <1>5, <3>1
    <3>3. Contents(g, p) \cap DOMAIN g \subseteq V
      BY <1>5, <3>1
    <3>. QED
      BY <1>2, <3>2, <3>3
  <2>. HIDE DEF V
  <2>. QED
    BY <1>1, <2>1, <2>2, UnderLeast
<1>9. U = V /\ \A p \in U : g[p] = View(h[p])
  BY <1>4, <1>6, <1>7, <1>8
<1>. HIDE DEF U, V
<1>10. Graph(h, a, b) = [p \in U |-> View(h[p])] /\ LiveOf(a, b, g) = [p \in V |-> g[p]]
  BY DEF Graph, LiveOf, U, V, L
<1>. QED
  BY <1>9, <1>10

(* Nothing is added, and what remains is the same but for its count. *)
Prunes(h, g) == DOMAIN g \subseteq DOMAIN h /\ \A q \in DOMAIN g : View(g[q]) = View(h[q])

LEMMA PrunedLive ==
  ASSUME NEW h, NEW a, NEW b, Tied(h, a, b), NEW k, NEW c, NEW d, Tied(k, c, d), Prunes(h, k),
         Leading(c, d) \subseteq DOMAIN Graph(h, a, b) \cup Statics
  PROVE  Graph(k, c, d) = LiveOf(c, d, Graph(h, a, b))
<1>. DEFINE g == Graph(h, a, b)
<1>1. /\ DOMAIN g \subseteq Addresses
      /\ \A p \in DOMAIN g : g[p] = View(h[p]) /\ Contents(g, p) \subseteq DOMAIN g \cup Statics
  BY GraphFacts
<1>2. Leading(c, d) \subseteq DOMAIN g \cup Statics
  OBVIOUS
<1>. HIDE DEF g
<1>3. \A p \in DOMAIN g \cap DOMAIN k : g[p] = View(k[p])
  BY <1>1 DEF Prunes
<1>4. Graph(k, c, d) = LiveOf(c, d, g)
  BY <1>1, <1>2, <1>3, BecomesLive
<1>. QED
  BY <1>4 DEF g

(* The fields of a value, whatever they are *)
Shaped(h) ==
  /\ h = [q \in DOMAIN h |-> h[q]]
  /\ \A q \in DOMAIN h : h[q] = [kind |-> h[q].kind, text |-> h[q].text, cnt |-> h[q].cnt,
                                 items |-> h[q].items]

LEMMA TypedShaped ==
  ASSUME NEW h, HeapTyped(h)
  PROVE  Shaped(h)
<1>1. \A q \in DOMAIN h : h[q] \in Node
  BY DEF HeapTyped, Proper
<1>. QED
  BY <1>1 DEF HeapTyped, Shaped, Node

LEMMA PrunesThrough ==
  ASSUME NEW f, NEW g, NEW h, Prunes(f, g), Prunes(g, h)
  PROVE  Prunes(f, h)
BY DEF Prunes

LEMMA CopiedPrunes ==
  ASSUME NEW h, Shaped(h), NEW p
  PROVE  Shaped(Copied(h, p)) /\ Prunes(h, Copied(h, p)) /\ DOMAIN Copied(h, p) = DOMAIN h
<1>. DEFINE g == Copied(h, p)
<1>1. CASE p \notin DOMAIN h
  BY <1>1 DEF Copied, Prunes
<1>2. CASE p \in DOMAIN h
  <2>1. /\ DOMAIN g = DOMAIN h /\ g = [q \in DOMAIN g |-> g[q]]
        /\ \A q \in DOMAIN h : q # p => g[q] = h[q]
        /\ g[p] = [h[p] EXCEPT !.cnt = h[p].cnt + 1]
    BY <1>2 DEF Copied
  <2>. HIDE DEF g
  <2>2. h[p] = [kind |-> h[p].kind, text |-> h[p].text, cnt |-> h[p].cnt, items |-> h[p].items]
    BY <1>2 DEF Shaped
  <2>3. g[p] = [kind |-> h[p].kind, text |-> h[p].text, cnt |-> h[p].cnt + 1, items |-> h[p].items]
    BY <2>1, <2>2
  <2>4. \A q \in DOMAIN h :
          /\ g[q].kind = h[q].kind /\ g[q].text = h[q].text /\ g[q].items = h[q].items
          /\ g[q] = [kind |-> g[q].kind, text |-> g[q].text, cnt |-> g[q].cnt, items |-> g[q].items]
    BY <2>1, <2>3 DEF Shaped
  <2>. QED
    BY <2>1, <2>4 DEF Shaped, Prunes, View, g
<1>. QED
  BY <1>1, <1>2

LEMMA ReleasedPrunes ==
  ASSUME NEW h, Shaped(h), NEW p
  PROVE  Shaped(Released(h, p)) /\ Prunes(h, Released(h, p))
<1>. DEFINE g == Released(h, p)
<1>1. CASE p \notin DOMAIN h
  BY <1>1 DEF Released, Prunes
<1>2. CASE p \in DOMAIN h /\ h[p].cnt > 1
  <2>1. /\ DOMAIN g = DOMAIN h /\ g = [q \in DOMAIN g |-> g[q]]
        /\ \A q \in DOMAIN h : q # p => g[q] = h[q]
        /\ g[p] = [h[p] EXCEPT !.cnt = h[p].cnt - 1]
    BY <1>2 DEF Released
  <2>. HIDE DEF g
  <2>2. h[p] = [kind |-> h[p].kind, text |-> h[p].text, cnt |-> h[p].cnt, items |-> h[p].items]
    BY <1>2 DEF Shaped
  <2>3. g[p] = [kind |-> h[p].kind, text |-> h[p].text, cnt |-> h[p].cnt - 1, items |-> h[p].items]
    BY <2>1, <2>2
  <2>4. \A q \in DOMAIN h :
          /\ g[q].kind = h[q].kind /\ g[q].text = h[q].text /\ g[q].items = h[q].items
          /\ g[q] = [kind |-> g[q].kind, text |-> g[q].text, cnt |-> g[q].cnt, items |-> g[q].items]
    BY <2>1, <2>3 DEF Shaped
  <2>. QED
    BY <2>1, <2>4 DEF Shaped, Prunes, View, g
<1>3. CASE p \in DOMAIN h /\ ~(h[p].cnt > 1)
  <2>. DEFINE F == Freed(h, p)
  <2>1. g = [q \in DOMAIN h \ F |-> [h[q] EXCEPT !.cnt = @ - Refs(h, F, q)]]
    BY <1>3 DEF Released
  <2>. HIDE DEF g, F
  <2>2. DOMAIN g = DOMAIN h \ F /\ g = [q \in DOMAIN g |-> g[q]]
    BY <2>1
  <2>3. ASSUME NEW q \in DOMAIN g
        PROVE  /\ g[q].kind = h[q].kind /\ g[q].text = h[q].text /\ g[q].items = h[q].items
               /\ g[q] = [kind |-> g[q].kind, text |-> g[q].text, cnt |-> g[q].cnt, items |-> g[q].items]
    <3>1. h[q] = [kind |-> h[q].kind, text |-> h[q].text, cnt |-> h[q].cnt, items |-> h[q].items]
      BY <2>2 DEF Shaped
    <3>. DEFINE n == h[q].cnt - Refs(h, F, q)
    <3>2. g[q] = [h[q] EXCEPT !.cnt = n]
      BY <2>1, <2>2
    <3>. HIDE DEF n
    <3>3. g[q] = [kind |-> h[q].kind, text |-> h[q].text, cnt |-> n, items |-> h[q].items]
      BY <3>1, <3>2
    <3>. QED
      BY <3>3
  <2>. QED
    BY <2>2, <2>3 DEF Shaped, Prunes, View, g
<1>. QED
  BY <1>1, <1>2, <1>3

LEMMA AssignedPrunes ==
  ASSUME NEW h, Shaped(h), NEW old, NEW p
  PROVE  /\ Shaped(Assigned(h, old, p)) /\ Prunes(h, Assigned(h, old, p))
         /\ Prunes(h, Taken(h, old, p)) /\ Prunes(h, Adopted(h, old, p))
<1>1. ASSUME NEW g, Shaped(g) PROVE Shaped(Assigned(g, old, p)) /\ Prunes(g, Assigned(g, old, p))
  <2>1. CASE old = p
    BY <1>1, <2>1 DEF Assigned, Prunes
  <2>2. CASE old # p
    <3>. DEFINE f == Released(g, old)
    <3>1. Shaped(f) /\ Prunes(g, f)
      BY <1>1, ReleasedPrunes
    <3>. HIDE DEF f
    <3>2. Shaped(Copied(f, p)) /\ Prunes(f, Copied(f, p))
      BY <3>1, CopiedPrunes
    <3>3. Assigned(g, old, p) = Copied(f, p)
      BY <2>2 DEF Assigned, f
    <3>. QED
      BY <3>1, <3>2, <3>3, PrunesThrough
  <2>. QED
    BY <2>1, <2>2
<1>2. Prunes(h, Taken(h, old, p))
  <2>. DEFINE f == Copied(h, p)
              g == Assigned(f, old, p)
              k == Released(g, p)
  <2>1. Shaped(f) /\ Prunes(h, f)
    BY CopiedPrunes
  <2>. HIDE DEF f
  <2>2. Shaped(g) /\ Prunes(f, g)
    BY <1>1, <2>1
  <2>. HIDE DEF g
  <2>3. Prunes(g, k)
    BY <2>2, ReleasedPrunes
  <2>. HIDE DEF k
  <2>4. Prunes(h, k)
    BY <2>1, <2>2, <2>3, PrunesThrough
  <2>. QED
    BY <2>4 DEF Taken, f, g, k
<1>3. Prunes(h, Adopted(h, old, p))
  <2>. DEFINE g == Assigned(h, old, p)
              k == Released(g, p)
  <2>2. Shaped(g) /\ Prunes(h, g)
    BY <1>1
  <2>. HIDE DEF g
  <2>3. Prunes(g, k)
    BY <2>2, ReleasedPrunes
  <2>. HIDE DEF k
  <2>4. Prunes(h, k)
    BY <2>2, <2>3, PrunesThrough
  <2>. QED
    BY <2>4 DEF Adopted, g, k
<1>. QED
  BY <1>1, <1>2, <1>3

LEMMA AllPrunes ==
  ASSUME NEW h, Shaped(h), NEW item
  PROVE  /\ Shaped(AllCopied(h, item)) /\ Prunes(h, AllCopied(h, item))
         /\ DOMAIN AllCopied(h, item) = DOMAIN h
         /\ Shaped(AllReleased(h, item)) /\ Prunes(h, AllReleased(h, item))
<1>1. /\ Shaped(AllCopied(h, item)) /\ Prunes(h, AllCopied(h, item))
      /\ DOMAIN AllCopied(h, item) = DOMAIN h
  <2>. DEFINE f == Copied(h, item[1])
              g == Copied(f, item[2])
  <2>1. Shaped(f) /\ Prunes(h, f) /\ DOMAIN f = DOMAIN h
    BY CopiedPrunes
  <2>. HIDE DEF f
  <2>2. Shaped(g) /\ Prunes(f, g) /\ DOMAIN g = DOMAIN f
    BY <2>1, CopiedPrunes
  <2>. HIDE DEF g
  <2>3. Prunes(h, g)
    BY <2>1, <2>2, PrunesThrough
  <2>. QED
    BY <2>1, <2>2, <2>3 DEF AllCopied, f, g
<1>2. Shaped(AllReleased(h, item)) /\ Prunes(h, AllReleased(h, item))
  <2>. DEFINE f == Released(h, item[1])
              g == Released(f, item[2])
  <2>1. Shaped(f) /\ Prunes(h, f)
    BY ReleasedPrunes
  <2>. HIDE DEF f
  <2>2. Shaped(g) /\ Prunes(f, g)
    BY <2>1, ReleasedPrunes
  <2>. HIDE DEF g
  <2>3. Prunes(h, g)
    BY <2>1, <2>2, PrunesThrough
  <2>. QED
    BY <2>1, <2>2, <2>3 DEF AllReleased, f, g
<1>. QED
  BY <1>1, <1>2

(* The graph of JShared in every state *)
LEMMA SeenIs ==
  Seen = Graph(heap, hand, walk) /\ Seen' = Graph(heap', hand', walk')
BY DEF Seen, Graph, Leading, View, Reachable

LEMMA StepIs == Shared!Step(Graph(heap, hand, walk)) => Shared!Next
BY DEF Shared!Next, Seen, Graph, Leading, View, Reachable

LEMMA StutterIs ==
  ASSUME hand' = hand, walk' = walk, Graph(heap', hand', walk') = Graph(heap, hand, walk)
  PROVE  UNCHANGED Shared!svars
BY DEF Shared!svars, Seen, Graph, Leading, View, Reachable

(* What a handle can be assigned: a static value, the value of a handle, or one
   in a container that a handle or an iterator has. *)
Known(g) ==
  Statics \cup {hand[x] : x \in Handles}
  \cup UNION {Contents(g, p) : p \in Leading(hand, walk) \cap DOMAIN g}

LEMMA KnownIs ==
  ASSUME NEW g
  PROVE  Shared!Known(g) = Known(g)
<1>1. Shared!Roots(hand, walk) = Leading(hand, walk)
  BY DEF Shared!Roots, Leading
<1>2. \A p : Shared!Inside(g[p]) = Contents(g, p)
  BY DEF Shared!Inside, Contents, Shared!ToSet, ToSet
<1>. QED
  BY <1>1, <1>2 DEF Shared!Known, Known, Shared!Statics, Statics, Shared!Held

LEMMA KnownLeads ==
  ASSUME Tied(heap, hand, walk), NEW p \in Known(Graph(heap, hand, walk))
  PROVE  p \in DOMAIN Graph(heap, hand, walk) \cup Statics
<1>. DEFINE g == Graph(heap, hand, walk)
<1>1. /\ Leading(hand, walk) \subseteq DOMAIN g \cup Statics
      /\ \A q \in DOMAIN g : Contents(g, q) \subseteq DOMAIN g \cup Statics
  BY GraphFacts
<1>2. \A x \in Handles : hand[x] \in Leading(hand, walk)
  BY DEF Leading
<1>. HIDE DEF g
<1>3. p \in Known(g)
  BY DEF g
<1>4. p \in DOMAIN g \cup Statics
  BY <1>1, <1>2, <1>3 DEF Known
<1>. QED
  BY <1>4 DEF g

LEMMA InvTied ==
  ASSUME IInv
  PROVE  Tied(heap, hand, walk)
BY TiedInv DEF IInv

LEMMA NextTied ==
  ASSUME IInv'
  PROVE  Tied(heap', hand', walk')
<1>1. Good(heap', {}, Held(hand', walk', lost'))
  BY DEF IInv, Held
<1>2. hand' \in [Handles -> Value] /\ walk' \in [Walks -> Iterator] /\ lost' \in Losses
  BY DEF IInv
<1>. QED
  BY <1>1, <1>2, TiedInv

LEMMA NextLive ==
  ASSUME Tied(heap, hand, walk), Tied(heap', hand', walk'), Prunes(heap, heap'),
         Leading(hand', walk') \subseteq DOMAIN Graph(heap, hand, walk) \cup Statics
  PROVE  Graph(heap', hand', walk') = LiveOf(hand', walk', Graph(heap, hand, walk))
BY PrunedLive

(* A handle is assigned a value that is known. *)
LEMMA HoldMaps ==
  ASSUME IInv, Tied(heap', hand', walk'), NEW x \in Handles,
         NEW p \in Known(Graph(heap, hand, walk)), Prunes(heap, heap'),
         hand' = [hand EXCEPT ![x] = p], walk' = walk
  PROVE  Shared!Next
<1>. DEFINE g == Graph(heap, hand, walk)
<1>1. Tied(heap, hand, walk)
  BY InvTied
<1>2. p \in DOMAIN g \cup Statics /\ Leading(hand, walk) \subseteq DOMAIN g \cup Statics
  BY <1>1, GraphFacts, KnownLeads
<1>3. hand' = [hand EXCEPT ![x] = hand'[x]] /\ hand'[x] = p
  BY DEF IInv
<1>. HIDE DEF g
<1>4. Leading(hand', walk') \subseteq DOMAIN g \cup Statics
  <2>1. ASSUME NEW y \in Handles PROVE hand'[y] \in DOMAIN g \cup Statics
    <3>1. hand'[y] = p \/ hand'[y] = hand[y]
      BY DEF IInv
    <3>2. hand[y] \in Leading(hand, walk)
      BY DEF Leading
    <3>. QED
      BY <1>2, <3>1, <3>2
  <2>2. ASSUME NEW w \in Walks PROVE walk'[w].object \in DOMAIN g \cup Statics
    BY <1>2 DEF Leading
  <2>. QED
    BY <2>1, <2>2 DEF Leading
<1>5. Graph(heap', hand', walk') = LiveOf(hand', walk', g)
  BY <1>1, <1>4, NextLive DEF g
<1>6. Shared!Become([hand EXCEPT ![x] = hand'[x]], walk, g)
  <2>1. Seen' = Shared!Live(hand', walk', g)
    BY <1>5, SeenIs, LiveIs
  <2>. QED
    BY <1>3, <2>1 DEF Shared!Become, Seen
<1>7. hand'[x] \in Shared!Known(g)
  BY <1>3, KnownIs DEF g
<1>8. Shared!Step(g)
  BY <1>6, <1>7 DEF Shared!Step, Shared!Hold
<1>. QED
  BY <1>8, StepIs DEF g

(* Nothing a client sees changes. *)
LEMMA NothingMaps ==
  ASSUME IInv, Tied(heap', hand', walk'), Prunes(heap, heap'), hand' = hand, walk' = walk
  PROVE  UNCHANGED Shared!svars
<1>. DEFINE g == Graph(heap, hand, walk)
<1>1. Tied(heap, hand, walk) /\ Prunes(heap, heap)
  BY InvTied DEF Prunes
<1>2. Leading(hand, walk) \subseteq DOMAIN g \cup Statics
  BY <1>1, GraphFacts
<1>3. Graph(heap', hand', walk') = LiveOf(hand', walk', g)
  BY <1>1, <1>2, PrunedLive
<1>4. Graph(heap, hand, walk) = LiveOf(hand, walk, g)
  BY <1>1, <1>2, PrunedLive
<1>. HIDE DEF g
<1>5. Graph(heap', hand', walk') = Graph(heap, hand, walk)
  BY <1>3, <1>4
<1>. QED
  BY <1>5, StutterIs

(* An iterator takes an object, at a pair of it or at its end. *)
LEMMA WalkMaps ==
  ASSUME IInv, Tied(heap', hand', walk'), NEW w \in Walks, NEW p \in Leading(hand, walk),
         NEW at \in Nat, at > 0 => Kind(heap, p) = "object" /\ at <= Len(heap[p].items),
         Prunes(heap, heap'), hand' = hand, walk' = [walk EXCEPT ![w] = [object |-> p, at |-> at]]
  PROVE  Shared!Next
<1>. DEFINE g == Graph(heap, hand, walk)
<1>1. Tied(heap, hand, walk)
  BY InvTied
<1>2. /\ Leading(hand, walk) \subseteq DOMAIN g \cup Statics
      /\ \A q \in DOMAIN g : g[q] = View(heap[q])
  BY <1>1, GraphFacts
<1>3. walk'[w].object = p /\ walk'[w].at = at
  BY DEF IInv
<1>. HIDE DEF g
<1>4. Leading(hand', walk') \subseteq Leading(hand, walk)
  <2>1. ASSUME NEW v \in Walks PROVE walk'[v].object \in Leading(hand, walk)
    <3>1. CASE v = w
      BY <1>3, <3>1
    <3>2. CASE v # w
      BY <3>2 DEF IInv, Leading
    <3>. QED
      BY <3>1, <3>2
  <2>. QED
    BY <2>1 DEF Leading
<1>5. Leading(hand', walk') \subseteq DOMAIN g \cup Statics
  BY <1>2, <1>4
<1>6. Graph(heap', hand', walk') = LiveOf(hand', walk', g)
  BY <1>1, <1>5, NextLive DEF g
<1>7. walk' = [walk EXCEPT ![w] = [object |-> walk'[w].object, at |-> walk'[w].at]]
  BY <1>3
<1>8. Shared!Become(hand, [walk EXCEPT ![w] = [object |-> walk'[w].object, at |-> walk'[w].at]], g)
  <2>1. Seen' = Shared!Live(hand', walk', g)
    BY <1>6, SeenIs, LiveIs
  <2>. QED
    BY <1>7, <2>1 DEF Shared!Become, Seen
<1>9. at > 0 => Shared!KindIn(g, p) = "object" /\ at <= Len(g[p].items)
  <2>1. SUFFICES ASSUME at > 0 PROVE Shared!KindIn(g, p) = "object" /\ at <= Len(g[p].items)
    OBVIOUS
  <2>2. p \in DOMAIN heap /\ heap[p].kind = "object" /\ at <= Len(heap[p].items)
    BY <2>1, KindAlive
  <2>3. p \in DOMAIN g
    BY <1>1, <1>2, <2>2, StaticsApart DEF Tied, HeapTyped
  <2>. QED
    BY <1>2, <2>2, <2>3 DEF Shared!KindIn, View
<1>10. p \in Shared!Roots(hand, walk)
  BY DEF Shared!Roots, Leading
<1>11. Shared!Walk(g, w)
  BY <1>3, <1>8, <1>9, <1>10 DEF Shared!Walk
<1>12. Shared!Step(g)
  BY <1>11 DEF Shared!Step
<1>. QED
  BY <1>12, StepIs DEF g

(* What becomes of a graph when a document is laid, or a container stored into. *)

LEMMA LaidView ==
  ASSUME NEW h, HeapTyped(h), NEW doc \in Documents, NEW at, Laying(h, doc, at),
         NEW n \in 1 .. Len(doc)
  PROVE  /\ Shared!ToSet(at) = Places(doc, at)
         /\ at[n] \in Addresses \ DOMAIN h
         /\ Shared!Laid(doc, at)[at[n]] = View(Laid(doc, at, n))
         /\ \A g : g[at[n]].items = Laid(doc, at, n).items => Contents(g, at[n]) \subseteq Places(doc, at)
<1>1. DOMAIN doc = 1 .. Len(doc)
  BY DocumentFacts
<1>2. Shared!ToSet(at) = Places(doc, at)
  BY DEF Shared!ToSet, Laying, Places
<1>3. at[n] \in Addresses \ DOMAIN h /\ at[n] \in Places(doc, at)
  BY DEF Laying, Places
<1>. DEFINE Which(p) == CHOOSE i \in DOMAIN doc : at[i] = p
<1>4. Which(at[n]) = n
  BY <1>1 DEF Laying
<1>. DEFINE Node0(p) == LET node == doc[Which(p)]
                        IN  [node EXCEPT !.items =
                               [i \in DOMAIN @ |-> [j \in DOMAIN @[i] |-> at[@[i][j]]]]]
<1>5. Shared!Laid(doc, at) = [p \in Shared!ToSet(at) |-> Node0(p)]
  BY DEF Shared!Laid
<1>6. Node0(at[n]) = [doc[n] EXCEPT !.items = Inner(doc, at, n)]
  <2>. HIDE DEF Which
  <2>. QED
    BY <1>4 DEF Inner
<1>. HIDE DEF Node0, Which
<1>7. Shared!Laid(doc, at)[at[n]] = [doc[n] EXCEPT !.items = Inner(doc, at, n)]
  BY <1>2, <1>3, <1>5, <1>6
<1>8. doc[n] = [kind |-> doc[n].kind, text |-> doc[n].text, items |-> doc[n].items]
  BY <1>1, DocumentNodes
<1>9. [doc[n] EXCEPT !.items = Inner(doc, at, n)] = View(Laid(doc, at, n))
  BY <1>8 DEF View, Laid
<1>10. ASSUME NEW g, g[at[n]].items = Laid(doc, at, n).items, NEW q \in Contents(g, at[n])
       PROVE  q \in Places(doc, at)
  <2>. DEFINE inner == Inner(doc, at, n)
  <2>1. g[at[n]].items = inner
    BY <1>10 DEF Laid
  <2>. HIDE DEF inner
  <2>2. PICK i \in DOMAIN inner : \E j \in DOMAIN inner[i] : q = inner[i][j]
    BY <2>1, ContentIs
  <2>3. PICK j \in DOMAIN inner[i] : q = inner[i][j]
    BY <2>2
  <2>4. /\ DOMAIN inner = DOMAIN doc[n].items
        /\ \A k \in DOMAIN doc[n].items :
             /\ DOMAIN inner[k] = DOMAIN doc[n].items[k]
             /\ \A l \in DOMAIN doc[n].items[k] : inner[k][l] = at[doc[n].items[k][l]]
    BY DEF inner, Inner
  <2>5. doc[n].items[i] \in DocItem(doc, n)
    <3>1. doc[n].items \in Seq(DocItem(doc, n))
      BY DocumentFacts
    <3>. QED
      BY <2>4, <3>1
  <2>6. doc[n].items[i][j] \in 2 .. Len(doc)
    BY <2>3, <2>4, <2>5 DEF DocItem
  <2>7. doc[n].items[i][j] \in 1 .. Len(doc)
    BY <2>6
  <2>. QED
    BY <2>3, <2>4, <2>7 DEF Places
<1>. QED
  BY <1>2, <1>3, <1>7, <1>9, <1>10

(* The graph with the document laid *)
WithLaid(g, doc, at) ==
  [p \in DOMAIN g \cup Places(doc, at) |-> IF p \in DOMAIN g THEN g[p] ELSE Shared!Laid(doc, at)[p]]

(* A graph that agrees with a heap and leads nowhere else *)
Shows(g, h) ==
  /\ DOMAIN g \subseteq DOMAIN h /\ DOMAIN g \subseteq Addresses
  /\ \A p \in DOMAIN g : g[p] = View(h[p]) /\ Contents(g, p) \subseteq DOMAIN g \cup Statics

LEMMA LaidShows ==
  ASSUME NEW h, HeapTyped(h), NEW g, Shows(g, h), NEW doc \in Documents, NEW at, Laying(h, doc, at)
  PROVE  Shows(WithLaid(g, doc, at), Created(h, doc, at))
<1>. DEFINE c == Created(h, doc, at)
            u == WithLaid(g, doc, at)
            N == Places(doc, at)
<1>1. /\ DOMAIN c = DOMAIN h \cup N
      /\ \A q \in DOMAIN h : c[q] = h[q]
      /\ \A n \in 1 .. Len(doc) : c[at[n]] = Laid(doc, at, n)
  <2>1. /\ DOMAIN Created(h, doc, at) = DOMAIN h \cup Places(doc, at)
        /\ \A q \in DOMAIN h : Created(h, doc, at)[q] = h[q]
        /\ \A n \in 1 .. Len(doc) : Created(h, doc, at)[at[n]] = Laid(doc, at, n)
        /\ HeapTyped(Created(h, doc, at))
    BY CreatedIs
  <2>. QED
    BY <2>1
<1>2. DOMAIN u = DOMAIN g \cup N
  BY DEF WithLaid
<1>3. \A q \in DOMAIN g : u[q] = g[q]
  BY DEF WithLaid
<1>4. ASSUME NEW q \in N
      PROVE  q \in Addresses /\ u[q] = View(c[q]) /\ Contents(u, q) \subseteq N
  <2>1. PICK n \in 1 .. Len(doc) : q = at[n]
    BY DEF Places
  <2>2. /\ at[n] \in Addresses \ DOMAIN h
        /\ Shared!Laid(doc, at)[at[n]] = View(Laid(doc, at, n))
        /\ \A k : k[at[n]].items = Laid(doc, at, n).items => Contents(k, at[n]) \subseteq N
    BY LaidView
  <2>3. u[q] = Shared!Laid(doc, at)[q]
    BY <2>1, <2>2 DEF WithLaid, Shows
  <2>. HIDE DEF u, c
  <2>4. u[at[n]].items = Laid(doc, at, n).items
    BY <2>1, <2>2, <2>3 DEF View
  <2>. QED
    BY <1>1, <2>1, <2>2, <2>3, <2>4
<1>. HIDE DEF u, c
<1>5. ASSUME NEW q \in DOMAIN g
      PROVE  u[q] = View(c[q]) /\ Contents(u, q) \subseteq DOMAIN g \cup Statics
  <2>1. u[q] = View(c[q])
    BY <1>1, <1>3 DEF Shows
  <2>2. Contents(u, q) = Contents(g, q)
    BY <1>3 DEF Contents
  <2>. QED
    BY <2>1, <2>2 DEF Shows
<1>6. Shows(u, c)
  BY <1>1, <1>2, <1>4, <1>5 DEF Shows
<1>. QED
  BY <1>6 DEF u, c

LEMMA GraphShows ==
  ASSUME NEW h, NEW a, NEW b, Tied(h, a, b)
  PROVE  Shows(Graph(h, a, b), h)
BY GraphFacts DEF Shows

(* What is pruned from a heap that a graph shows *)
LEMMA ShownLive ==
  ASSUME Tied(heap', hand', walk'), NEW g, NEW c, Shows(g, c), Prunes(c, heap'),
         Leading(hand', walk') \subseteq DOMAIN g \cup Statics
  PROVE  Graph(heap', hand', walk') = LiveOf(hand', walk', g)
<1>1. \A p \in DOMAIN g \cap DOMAIN heap' : g[p] = View(heap'[p])
  BY DEF Shows, Prunes
<1>. QED
  BY <1>1, BecomesLive DEF Shows

(* A document is made, and a handle takes its root. *)
LEMMA MadeMaps ==
  ASSUME IInv, Tied(heap', hand', walk'), NEW x \in Handles, NEW doc \in Documents, Room(doc),
         heap' = Adopted(Created(heap, doc, Fresh(doc)), hand[x], Fresh(doc)[1]),
         hand' = [hand EXCEPT ![x] = Fresh(doc)[1]], walk' = walk
  PROVE  Shared!Next
<1>. DEFINE g == Graph(heap, hand, walk)
            at == Fresh(doc)
            c == Created(heap, doc, at)
            u == WithLaid(g, doc, at)
<1>1. Tied(heap, hand, walk) /\ HeapTyped(heap)
  BY InvTied DEF Tied
<1>2. Laying(heap, doc, at)
  BY <1>1, FreshLaying
<1>3. /\ Shows(g, heap) /\ Leading(hand, walk) \subseteq DOMAIN g \cup Statics
      /\ DOMAIN g \subseteq DOMAIN heap
  BY <1>1, GraphShows, GraphFacts
<1>4. /\ Len(doc) \in Nat \ {0} /\ DOMAIN doc = 1 .. Len(doc)
  BY DocumentFacts
<1>5. 1 \in 1 .. Len(doc)
  BY <1>4
<1>. HIDE DEF g, at
<1>6. Shared!ToSet(at) = Places(doc, at) /\ at[1] \in Addresses \ DOMAIN heap
  BY <1>1, <1>2, <1>5, LaidView
<1>7. Shows(u, c)
  BY <1>1, <1>2, <1>3, LaidShows
<1>8. DOMAIN u = DOMAIN g \cup Places(doc, at) /\ at[1] \in Places(doc, at)
  BY <1>5 DEF WithLaid, Places
<1>9. Prunes(c, heap')
  <2>1. HeapTyped(c)
    BY <1>1, <1>2, CreatedIs
  <2>. HIDE DEF c
  <2>2. Shaped(c)
    BY <2>1, TypedShaped
  <2>3. Prunes(c, Adopted(c, hand[x], at[1]))
    BY <2>2, AssignedPrunes
  <2>. QED
    BY <2>3 DEF c, at
<1>. HIDE DEF c, u
<1>10. hand'[x] = at[1] /\ hand' = [hand EXCEPT ![x] = at[1]] /\ walk' = walk
  BY DEF IInv, at
<1>11. Leading(hand', walk') \subseteq DOMAIN u \cup Statics
  <2>1. ASSUME NEW y \in Handles PROVE hand'[y] \in DOMAIN u \cup Statics
    <3>1. hand'[y] = at[1] \/ hand'[y] = hand[y]
      BY <1>10 DEF IInv
    <3>2. hand[y] \in Leading(hand, walk)
      BY DEF Leading
    <3>. QED
      BY <1>3, <1>8, <3>1, <3>2
  <2>2. ASSUME NEW w \in Walks PROVE walk'[w].object \in DOMAIN u \cup Statics
    BY <1>3, <1>8, <1>10 DEF Leading
  <2>. QED
    BY <2>1, <2>2 DEF Leading
<1>12. Graph(heap', hand', walk') = LiveOf(hand', walk', u)
  BY <1>7, <1>9, <1>11, ShownLive
<1>13. u = [p \in DOMAIN g \cup Shared!ToSet(at) |-> IF p \in DOMAIN g THEN g[p] ELSE Shared!Laid(doc, at)[p]]
  BY <1>6 DEF u, WithLaid
<1>14. Shared!Become([hand EXCEPT ![x] = at[1]], walk,
                     [p \in DOMAIN g \cup Shared!ToSet(at) |->
                        IF p \in DOMAIN g THEN g[p] ELSE Shared!Laid(doc, at)[p]])
  <2>1. Seen' = Shared!Live(hand', walk', u)
    BY <1>12, SeenIs, LiveIs
  <2>. QED
    BY <1>10, <1>13, <2>1 DEF Shared!Become, Seen
<1>15. at \in [DOMAIN doc -> Addresses \ DOMAIN g]
  BY <1>2, <1>3, <1>4 DEF Laying
<1>16. hand'[x] \in Addresses \ DOMAIN g
  BY <1>3, <1>6, <1>10
<1>17. Shared!Make(g, x, doc)
  BY <1>14, <1>15, <1>16 DEF Shared!Make
<1>18. Shared!Step(g)
  BY <1>17 DEF Shared!Step
<1>. QED
  BY <1>18, StepIs DEF g

LEMMA LongerContents ==
  ASSUME NEW h, NEW g, NEW p, h[p].items \in Seq(Item), NEW i \in Nat \ {0}, NEW item \in Item,
         g[p].items = Longer(h[p].items, i, item)
  PROVE  Contents(g, p) \subseteq Contents(h, p) \cup {item[j] : j \in 1 .. Len(item)} \cup {Null}
<1>. DEFINE items == h[p].items
            new == Longer(items, i, item)
<1>1. DOMAIN items = 1 .. Len(items) /\ Len(items) \in Nat
  OBVIOUS
<1>2. SUFFICES ASSUME NEW q \in Contents(g, p)
               PROVE  q \in Contents(h, p) \cup {item[j] : j \in 1 .. Len(item)} \cup {Null}
  OBVIOUS
<1>3. PICK n \in DOMAIN new : \E j \in DOMAIN new[n] : q = new[n][j]
  BY ContentIs
<1>4. PICK j \in DOMAIN new[n] : q = new[n][j]
  BY <1>3
<1>5. n \in 1 .. (IF i > Len(items) THEN i ELSE Len(items))
      /\ new[n] = IF n = i THEN item ELSE IF n <= Len(items) THEN items[n] ELSE <<Null>>
  BY DEF Longer
<1>. HIDE DEF new
<1>6. CASE n = i
  <2>1. DOMAIN item = 1 .. Len(item)
    BY ItemFacts
  <2>. QED
    BY <1>4, <1>5, <1>6, <2>1
<1>7. CASE n # i /\ n <= Len(items)
  <2>1. n \in DOMAIN items /\ new[n] = items[n]
    BY <1>1, <1>5, <1>7
  <2>. QED
    BY <1>4, <2>1, ContentIs
<1>8. CASE n # i /\ ~(n <= Len(items))
  <2>1. new[n] = <<Null>>
    BY <1>5, <1>8
  <2>2. j \in {1}
    BY <1>4, <2>1
  <2>. QED
    BY <1>4, <2>1, <2>2
<1>. QED
  BY <1>6, <1>7, <1>8

(* The heap after a store, but for what is released on the way *)
LEMMA StoredViews ==
  ASSUME NEW h, Shaped(h), NEW p \in DOMAIN h, NEW i, NEW item,
         p \in DOMAIN Stored(h, p, i, item)
  PROVE  LET k == Stored(h, p, i, item)
         IN  /\ Shaped(k) /\ DOMAIN k \subseteq DOMAIN h
             /\ \A q \in DOMAIN k : q # p => View(k[q]) = View(h[q])
             /\ View(k[p]) = [View(h[p]) EXCEPT !.items = Longer(h[p].items, i, item)]
<1>. DEFINE n == Len(h[p].items)
            f == IF i <= n THEN AllReleased(h, h[p].items[i]) ELSE h
            k == Stored(h, p, i, item)
<1>1. Shaped(f) /\ Prunes(h, f)
  <2>1. Shaped(AllReleased(h, h[p].items[i])) /\ Prunes(h, AllReleased(h, h[p].items[i]))
    BY AllPrunes
  <2>2. Prunes(h, h)
    BY DEF Prunes
  <2>. QED
    BY <2>1, <2>2
<1>2. k = [f EXCEPT ![p].items = [j \in 1 .. (IF i > n THEN i ELSE n) |->
            IF j = i THEN item ELSE IF j <= n THEN f[p].items[j] ELSE <<Null>>]]
  BY DEF Stored
<1>3. DOMAIN k = DOMAIN f /\ k = [q \in DOMAIN k |-> k[q]]
  BY <1>1, <1>2
<1>4. p \in DOMAIN f
  BY <1>3
<1>. HIDE DEF f
<1>5. f[p].items = h[p].items /\ f[p].kind = h[p].kind /\ f[p].text = h[p].text
  BY <1>1, <1>4 DEF Prunes, View
<1>6. /\ \A q \in DOMAIN f : q # p => k[q] = f[q]
      /\ k[p] = [f[p] EXCEPT !.items = Longer(h[p].items, i, item)]
  <2>1. Longer(h[p].items, i, item) = [j \in 1 .. (IF i > n THEN i ELSE n) |->
            IF j = i THEN item ELSE IF j <= n THEN f[p].items[j] ELSE <<Null>>]
    BY <1>5 DEF Longer
  <2>. DEFINE new == Longer(h[p].items, i, item)
  <2>2. k = [f EXCEPT ![p].items = new]
    BY <1>2, <2>1
  <2>. HIDE DEF new, k
  <2>3. /\ \A q \in DOMAIN f : q # p => k[q] = f[q]
        /\ k[p] = [f[p] EXCEPT !.items = new]
    BY <1>4, <2>2
  <2>. QED
    BY <2>3 DEF new
<1>. DEFINE new == Longer(h[p].items, i, item)
<1>. HIDE DEF k, new
<1>7. k[p] = [kind |-> f[p].kind, text |-> f[p].text, cnt |-> f[p].cnt, items |-> new]
  <2>1. f[p] = [kind |-> f[p].kind, text |-> f[p].text, cnt |-> f[p].cnt, items |-> f[p].items]
    BY <1>1, <1>4 DEF Shaped
  <2>2. k[p] = [f[p] EXCEPT !.items = new]
    BY <1>6 DEF new
  <2>. QED
    BY <2>1, <2>2
<1>8. \A q \in DOMAIN k : k[q] = [kind |-> k[q].kind, text |-> k[q].text, cnt |-> k[q].cnt,
                                  items |-> k[q].items]
  <2>1. TAKE q \in DOMAIN k
  <2>2. CASE q = p
    BY <1>7, <2>2
  <2>3. CASE q # p
    BY <1>1, <1>3, <1>6, <2>3 DEF Shaped
  <2>. QED
    BY <2>2, <2>3
<1>9. Shaped(k)
  BY <1>3, <1>8 DEF Shaped
<1>10. \A q \in DOMAIN k : q # p => View(k[q]) = View(h[q])
  BY <1>1, <1>3, <1>6 DEF Prunes
<1>11. View(k[p]) = [View(h[p]) EXCEPT !.items = new]
  BY <1>5, <1>7 DEF View
<1>12. DOMAIN k \subseteq DOMAIN h
  BY <1>1, <1>3 DEF Prunes
<1>. QED
  BY <1>9, <1>10, <1>11, <1>12 DEF k, new

(* An item is stored into a container of graph g. *)
Storing(g, p, i, item) == [g EXCEPT ![p].items = Longer(@, i, item)]

LEMMA StoringLive ==
  ASSUME Tied(heap', hand', walk'), NEW c, HeapTyped(c), NEW g, Shows(g, c),
         NEW h, Shaped(h), Prunes(c, h), DOMAIN h = DOMAIN c,
         NEW p \in DOMAIN g, NEW i \in Nat \ {0}, NEW item \in Item,
         \A j \in 1 .. Len(item) : item[j] \in DOMAIN g \cup Statics,
         p \in DOMAIN Stored(h, p, i, item), Prunes(Stored(h, p, i, item), heap'),
         Leading(hand', walk') \subseteq DOMAIN g \cup Statics
  PROVE  Graph(heap', hand', walk') = LiveOf(hand', walk', Storing(g, p, i, item))
<1>. DEFINE k == Stored(h, p, i, item)
            u == Storing(g, p, i, item)
            new == Longer(c[p].items, i, item)
<1>1. p \in DOMAIN c /\ p \in DOMAIN h /\ g[p] = View(c[p]) /\ c[p].items \in Seq(Item)
  BY DEF Shows, HeapTyped, Proper, Node
<1>2. h[p].items = c[p].items /\ View(h[p]) = View(c[p])
  BY <1>1 DEF Prunes, View
<1>3. /\ DOMAIN k \subseteq DOMAIN h
      /\ \A q \in DOMAIN k : q # p => View(k[q]) = View(h[q])
      /\ View(k[p]) = [View(h[p]) EXCEPT !.items = new]
  BY <1>1, <1>2, StoredViews
<1>4. g[p].items = c[p].items
  BY <1>1 DEF View
<1>5. /\ DOMAIN u = DOMAIN g
      /\ \A q \in DOMAIN g : q # p => u[q] = g[q]
      /\ u[p] = [View(c[p]) EXCEPT !.items = new]
  <2>1. u = [g EXCEPT ![p] = [g[p] EXCEPT !.items = new]]
    BY <1>4 DEF Storing
  <2>. HIDE DEF u, new
  <2>2. /\ DOMAIN u = DOMAIN g
        /\ \A q \in DOMAIN g : q # p => u[q] = g[q]
        /\ u[p] = [g[p] EXCEPT !.items = new]
    BY <2>1
  <2>. QED
    BY <1>1, <2>2
<1>. HIDE DEF k, u, new
<1>6. ASSUME NEW q \in DOMAIN u, q \in DOMAIN heap'
      PROVE  u[q] = View(heap'[q])
  <2>1. q \in DOMAIN k /\ View(heap'[q]) = View(k[q])
    BY <1>6 DEF Prunes, k
  <2>2. CASE q = p
    BY <1>2, <1>3, <1>5, <2>1, <2>2
  <2>3. CASE q # p
    <3>1. u[q] = View(c[q])
      BY <1>5, <2>3 DEF Shows
    <3>2. View(k[q]) = View(h[q]) /\ View(h[q]) = View(c[q])
      BY <1>3, <2>1, <2>3 DEF Prunes
    <3>. QED
      BY <2>1, <3>1, <3>2
  <2>. QED
    BY <2>2, <2>3
<1>7. ASSUME NEW q \in DOMAIN u PROVE Contents(u, q) \subseteq DOMAIN u \cup Statics
  <2>1. CASE q # p
    <3>1. Contents(u, q) = Contents(g, q)
      BY <1>5, <2>1 DEF Contents
    <3>. QED
      BY <1>5, <3>1 DEF Shows
  <2>2. CASE q = p
    <3>1. u[p].items = Longer(g[p].items, i, item)
      BY <1>4, <1>5 DEF View, new
    <3>2. Contents(u, p) \subseteq Contents(g, p) \cup {item[j] : j \in 1 .. Len(item)} \cup {Null}
      BY <1>1, <1>4, <3>1, LongerContents
    <3>. QED
      BY <1>5, <2>2, <3>2 DEF Shows, Statics
  <2>. QED
    BY <2>1, <2>2
<1>8. DOMAIN u \subseteq Addresses /\ Leading(hand', walk') \subseteq DOMAIN u \cup Statics
  BY <1>5 DEF Shows
<1>9. \A q \in DOMAIN u \cap DOMAIN heap' : u[q] = View(heap'[q])
  BY <1>6
<1>10. Graph(heap', hand', walk') = LiveOf(hand', walk', u)
  BY <1>7, <1>8, <1>9, BecomesLive
<1>. QED
  BY <1>10 DEF u

-------------------------------------------------------------------------------
(* What each call does to the heap is a step on what the client sees. *)

LEMMA WithIs ==
  ASSUME NEW items, NEW i, NEW item
  PROVE  Shared!With(items, i, item) = Longer(items, i, item)
BY DEF Shared!With, Longer

(* Beyond the end, an element is inserted where it is put. *)
LEMMA InsertedIs ==
  ASSUME NEW items, Len(items) \in Nat, NEW i \in Nat, i > Len(items), NEW v
  PROVE  Shared!Inserted(items, i, v) = Longer(items, i, <<v>>)
<1>. DEFINE n == Len(items)
            at(j) == CASE j < i /\ j <= n -> items[j]
                       [] j < i /\ j > n -> <<Null>>
                       [] j = i -> <<v>>
                       [] j > i -> items[j - 1]
            to(j) == IF j = i THEN <<v>> ELSE IF j <= n THEN items[j] ELSE <<Null>>
<1>. HIDE DEF n
<1>1. n \in Nat /\ i > n
  BY DEF n
<1>2. ASSUME NEW j \in 1 .. i PROVE at(j) = to(j)
  <2>1. CASE j = i
    BY <2>1
  <2>2. CASE j < i /\ j <= n
    BY <1>1, <2>2
  <2>3. CASE j < i /\ j > n
    BY <1>1, <2>3
  <2>. QED
    BY <1>1, <2>1, <2>2, <2>3
<1>. HIDE DEF at, to
<1>3. [j \in 1 .. i |-> at(j)] = [j \in 1 .. i |-> to(j)]
  BY <1>2
<1>. QED
  BY <1>1, <1>3 DEF Shared!Inserted, Longer, at, to, n

LEMMA HandsLead ==
  ASSUME IInv, NEW x \in Handles
  PROVE  hand[x] \in DOMAIN Graph(heap, hand, walk) \cup Statics
<1>1. Leading(hand, walk) \subseteq DOMAIN Graph(heap, hand, walk) \cup Statics
  BY InvTied, GraphFacts
<1>. QED
  BY <1>1 DEF Leading

(* A value with a container's kind is in the graph if the client has it. *)
LEMMA KindSeen ==
  ASSUME IInv, NEW p \in Leading(hand, walk), Kind(heap, p) \in {"array", "object"}
  PROVE  LET g == Graph(heap, hand, walk)
         IN  /\ p \in DOMAIN g /\ p \in DOMAIN heap
             /\ Shared!KindIn(g, p) = Kind(heap, p)
             /\ g[p] = View(heap[p]) /\ heap[p].kind = Kind(heap, p)
             /\ Contents(g, p) = Contents(heap, p)
<1>. DEFINE g == Graph(heap, hand, walk)
<1>1. p \in DOMAIN heap /\ heap[p].kind = Kind(heap, p)
  BY KindAlive
<1>2. /\ Leading(hand, walk) \subseteq DOMAIN g \cup Statics
      /\ \A q \in DOMAIN g : g[q] = View(heap[q]) /\ Contents(g, q) = Contents(heap, q)
  BY InvTied, GraphFacts
<1>. HIDE DEF g
<1>3. p \in DOMAIN g
  BY <1>1, <1>2, InvTied, StaticsApart DEF Tied, HeapTyped
<1>4. g[p] = View(heap[p]) /\ Contents(g, p) = Contents(heap, p)
  BY <1>2, <1>3
<1>5. Shared!KindIn(g, p) = Kind(heap, p)
  BY <1>1, <1>3, <1>4 DEF Shared!KindIn, View
<1>. QED
  BY <1>1, <1>3, <1>4, <1>5 DEF g

LEMMA HandLeads ==
  ASSUME NEW x \in Handles
  PROVE  hand[x] \in Leading(hand, walk)
BY DEF Leading

LEMMA WalkLeads ==
  ASSUME NEW w \in Walks
  PROVE  walk[w].object \in Leading(hand, walk)
BY DEF Leading

LEMMA HeapShaped ==
  ASSUME IInv
  PROVE  Shaped(heap) /\ HeapTyped(heap)
BY InvTied, TypedShaped DEF Tied

LEMMA FetchMaps ==
  ASSUME IInv, Tied(heap', hand', walk'), NEW x \in Handles,
         NEW p \in Known(Graph(heap, hand, walk)), Fetch(x, p)
  PROVE  Shared!Next
<1>1. Prunes(heap, heap')
  BY HeapShaped, AssignedPrunes DEF Fetch
<1>2. hand' = [hand EXCEPT ![x] = p] /\ walk' = walk
  BY DEF Fetch
<1>. QED
  BY <1>1, <1>2, HoldMaps

LEMMA ParseRefusedMaps ==
  ASSUME IInv, Tied(heap', hand', walk'), ParseRefused
  PROVE  Shared!Next
<1>1. Prunes(heap, heap')
  BY HeapShaped, AssignedPrunes DEF ParseRefused
<1>2. hand' = [hand EXCEPT ![Dom] = Null] /\ walk' = walk
  BY DEF ParseRefused
<1>3. Null \in Known(Graph(heap, hand, walk))
  BY DEF Known, Statics
<1>. QED
  BY <1>1, <1>2, <1>3, HandleConstants, HoldMaps

LEMMA ScopeMaps ==
  ASSUME IInv, Tied(heap', hand', walk'), NEW x \in Handles, Scope(x)
  PROVE  Shared!Next
<1>1. Prunes(heap, heap')
  BY HeapShaped, ReleasedPrunes DEF Scope
<1>2. hand' = [hand EXCEPT ![x] = Null] /\ walk' = walk
  BY DEF Scope
<1>3. Null \in Known(Graph(heap, hand, walk))
  BY DEF Known, Statics
<1>. QED
  BY <1>1, <1>2, <1>3, HoldMaps

LEMMA AssignMaps ==
  ASSUME IInv, Tied(heap', hand', walk'), NEW x \in Handles, NEW y \in Handles, Assign(x, y)
  PROVE  Shared!Next
<1>1. Prunes(heap, heap')
  BY HeapShaped, AssignedPrunes DEF Assign
<1>2. hand' = [hand EXCEPT ![x] = hand[y]] /\ walk' = walk
  BY DEF Assign
<1>3. hand[y] \in Known(Graph(heap, hand, walk))
  BY DEF Known
<1>. QED
  BY <1>1, <1>2, <1>3, HoldMaps

LEMMA GetDomMaps ==
  ASSUME IInv, Tied(heap', hand', walk'), NEW x \in Handles, GetDom(x)
  PROVE  Shared!Next
<1>1. hand[Dom] \in Known(Graph(heap, hand, walk))
  BY HandleConstants DEF Known
<1>. QED
  BY <1>1, FetchMaps DEF GetDom

(* What stands in a container the client has is known. *)
LEMMA ItemKnown ==
  ASSUME IInv, NEW p \in Leading(hand, walk), Kind(heap, p) \in {"array", "object"},
         NEW i \in 1 .. Len(heap[p].items), NEW j \in 1 .. Width(Kind(heap, p))
  PROVE  heap[p].items[i][j] \in Known(Graph(heap, hand, walk))
<1>. DEFINE g == Graph(heap, hand, walk)
<1>1. /\ p \in DOMAIN g /\ p \in DOMAIN heap /\ heap[p].kind = Kind(heap, p)
      /\ Contents(g, p) = Contents(heap, p)
  BY KindSeen
<1>2. heap[p].items \in Seq(ItemOf(heap[p].kind))
  BY <1>1, HeapShaped DEF HeapTyped, Proper
<1>3. i \in DOMAIN heap[p].items /\ heap[p].items[i] \in ItemOf(heap[p].kind)
  BY <1>2
<1>4. j \in DOMAIN heap[p].items[i]
  BY <1>1, <1>3 DEF ItemOf
<1>5. heap[p].items[i][j] \in Contents(heap, p)
  BY <1>3, <1>4, ContentIs
<1>. HIDE DEF g
<1>6. heap[p].items[i][j] \in Known(g)
  BY <1>1, <1>5 DEF Known
<1>. QED
  BY <1>6 DEF g

LEMMA ElementMaps ==
  ASSUME IInv, Tied(heap', hand', walk'), NEW x \in Handles, NEW y \in Handles,
         NEW i \in 1 .. MaxItems, Element(x, y, i)
  PROVE  Shared!Next
<1>. DEFINE p == hand[y]
            r == IF i <= Len(heap[p].items) THEN heap[p].items[i][1] ELSE Null
<1>1. Kind(heap, p) = "array" /\ Fetch(x, r)
  BY DEF Element
<1>2. p \in Leading(hand, walk)
  BY HandLeads
<1>. HIDE DEF p
<1>3. r \in Known(Graph(heap, hand, walk))
  <2>1. CASE i <= Len(heap[p].items)
    <3>1. 1 \in 1 .. Width(Kind(heap, p))
      BY DEF Width
    <3>2. Len(heap[p].items) \in Nat
      <4>1. p \in DOMAIN heap
        BY <1>1, KindAlive
      <4>2. heap[p].items \in Seq(Item)
        BY <4>1, HeapShaped DEF HeapTyped, Proper, Node
      <4>. QED
        BY <4>2
    <3>3. i \in 1 .. Len(heap[p].items)
      BY <2>1, <3>2
    <3>4. heap[p].items[i][1] \in Known(Graph(heap, hand, walk))
      BY <1>1, <1>2, <3>1, <3>3, ItemKnown
    <3>. QED
      BY <2>1, <3>4
  <2>2. CASE ~(i <= Len(heap[p].items))
    BY <2>2 DEF Known, Statics
  <2>. QED
    BY <2>1, <2>2
<1>. HIDE DEF r
<1>. QED
  BY <1>1, <1>3, FetchMaps

LEMMA MemberMaps ==
  ASSUME IInv, Tied(heap', hand', walk'), NEW x \in Handles, NEW y \in Handles, NEW name,
         Member(x, y, name)
  PROVE  Shared!Next
<1>. DEFINE p == hand[y]
            at == Named(heap, p, name)
            i == CHOOSE k \in at : TRUE
            r == IF at = {} THEN Null ELSE heap[p].items[i][2]
<1>1. Kind(heap, p) = "object" /\ Fetch(x, r)
  BY DEF Member
<1>2. p \in Leading(hand, walk)
  BY HandLeads
<1>3. at # {} => i \in DOMAIN heap[p].items
  BY DEF Named
<1>. HIDE DEF p, at, i
<1>4. r \in Known(Graph(heap, hand, walk))
  <2>1. CASE at # {}
    <3>1. 2 \in 1 .. Width(Kind(heap, p))
      BY <1>1 DEF Width
    <3>2. DOMAIN heap[p].items = 1 .. Len(heap[p].items)
      <4>1. p \in DOMAIN heap
        BY <1>1, KindAlive
      <4>2. heap[p].items \in Seq(Item)
        BY <4>1, HeapShaped DEF HeapTyped, Proper, Node
      <4>. QED
        BY <4>2
    <3>3. i \in 1 .. Len(heap[p].items)
      BY <1>3, <2>1, <3>2
    <3>4. heap[p].items[i][2] \in Known(Graph(heap, hand, walk))
      BY <1>1, <1>2, <3>1, <3>3, ItemKnown
    <3>. QED
      BY <2>1, <3>4
  <2>2. CASE at = {}
    BY <2>2 DEF Known, Statics
  <2>. QED
    BY <2>1, <2>2
<1>. HIDE DEF r
<1>. QED
  BY <1>1, <1>4, FetchMaps

LEMMA PutMaps ==
  ASSUME IInv, Tied(heap', hand', walk'), NEW x \in Handles, NEW y \in Handles,
         NEW i \in Nat \ {0}, Put(x, i, y)
  PROVE  \/ Shared!Next \/ UNCHANGED Shared!svars
         \/ /\ Kind(heap, hand[x]) = "array" /\ i \in 1 .. MaxItems
            /\ i <= Len(heap[hand[x]].items)
            /\ Shared!Overwrite(Seen, hand[x], i, hand[y])
<1>. DEFINE g == Graph(heap, hand, walk)
            p == hand[x]
            v == hand[y]
            h == Copied(heap, v)
            item == <<v>>
            u == Storing(g, p, i, item)
<1>1. hand' = hand /\ walk' = walk
  BY DEF Put
<1>2. Shaped(h) /\ Prunes(heap, h) /\ DOMAIN h = DOMAIN heap
  BY HeapShaped, CopiedPrunes
<1>3. CASE Kind(heap, p) = "array"
  <2>1. i <= MaxItems /\ heap' = Stored(h, p, i, item)
    BY <1>3 DEF Put
  <2>2. p \in Leading(hand, walk)
    BY HandLeads
  <2>3. p \in DOMAIN g /\ p \in DOMAIN heap /\ Shared!KindIn(g, p) = "array"
    BY <1>3, <2>2, KindSeen
  <2>4. Shows(g, heap) /\ Leading(hand, walk) \subseteq DOMAIN g \cup Statics
    BY InvTied, GraphShows, GraphFacts
  <2>5. v \in Value /\ v \in DOMAIN g \cup Statics
    BY HandsLead DEF IInv
  <2>6. item \in Item /\ Len(item) = 1 /\ item[1] = v
    BY <2>5, ItemMade
  <2>7. \A j \in 1 .. Len(item) : item[j] \in DOMAIN g \cup Statics
    BY <2>5, <2>6
  <2>8. HeapTyped(heap) /\ p \in DOMAIN heap'
    <3>1. p \in DOMAIN heap' \cup Statics
      BY <1>1, <2>2 DEF Tied
    <3>. QED
      BY <2>3, <3>1, HeapShaped, StaticsApart DEF HeapTyped
  <2>9. Prunes(heap', heap')
    BY DEF Prunes
  <2>. HIDE DEF g, p, v, h, item
  <2>10. /\ Tied(heap', hand', walk') /\ HeapTyped(heap) /\ Shows(g, heap)
         /\ Shaped(h) /\ Prunes(heap, h) /\ DOMAIN h = DOMAIN heap
         /\ p \in DOMAIN g /\ i \in Nat \ {0} /\ item \in Item
         /\ \A j \in 1 .. Len(item) : item[j] \in DOMAIN g \cup Statics
         /\ p \in DOMAIN Stored(h, p, i, item) /\ Prunes(Stored(h, p, i, item), heap')
         /\ Leading(hand', walk') \subseteq DOMAIN g \cup Statics
    BY <1>1, <1>2, <2>1, <2>3, <2>4, <2>6, <2>7, <2>8, <2>9
  <2>11. Graph(heap', hand', walk') = LiveOf(hand', walk', u)
    BY ONLY <2>10, StoringLive
  <2>12. Seen' = Shared!Live(hand', walk', u)
    <3>. HIDE DEF u
    <3>. QED
      BY <2>11, SeenIs, LiveIs
  <2>13. p \in Shared!Held /\ v \in Shared!Held /\ i \in 1 .. MaxItems
    BY <2>1, HandleConstants DEF Shared!Held, p, v
  <2>14. g[p].items = heap[p].items /\ Len(heap[p].items) \in Nat
    <3>1. g[p] = View(heap[p])
      BY ONLY <2>3, <2>4 DEF Shows
    <3>2. heap[p].items \in Seq(ItemOf(heap[p].kind))
      BY ONLY <2>3, <2>8 DEF HeapTyped, Proper
    <3>. QED
      BY <3>1, <3>2, LenProperties DEF View
  <2>15. CASE i > Len(heap[p].items)
    <3>1. Shared!Inserted(g[p].items, i, v) = Longer(g[p].items, i, item)
      BY <2>14, <2>15, InsertedIs DEF item
    <3>2. u = [g EXCEPT ![p].items = Shared!Inserted(@, i, v)]
      BY <3>1 DEF Storing
    <3>. HIDE DEF u
    <3>3. Shared!Place(g, p, i, v)
      BY <1>1, <2>3, <2>12, <3>2 DEF Shared!Place, Shared!Become
    <3>4. Shared!Step(g)
      BY <1>1, <2>13, <3>3 DEF Shared!Step
    <3>. QED
      BY <3>4, StepIs DEF g
  <2>16. CASE ~(i > Len(heap[p].items))
    <3>1. u = [g EXCEPT ![p].items = Shared!With(@, i, <<v>>)]
      BY WithIs DEF Storing, item
    <3>. HIDE DEF u
    <3>2. Shared!Overwrite(g, p, i, v)
      BY <1>1, <2>3, <2>12, <3>1 DEF Shared!Overwrite, Shared!Become
    <3>3. g = Seen
      BY SeenIs DEF g
    <3>. QED
      BY <1>3, <2>13, <2>14, <2>16, <3>2, <3>3 DEF p, v
  <2>. QED
    BY <2>15, <2>16
<1>4. CASE Kind(heap, p) # "array"
  <2>1. heap' = h
    BY <1>4 DEF Put
  <2>. QED
    BY <1>1, <1>2, <2>1, NothingMaps
<1>. QED
  BY <1>3, <1>4

LEMMA AppendToMaps ==
  ASSUME IInv, Tied(heap', hand', walk'), NEW x \in Handles, NEW y \in Handles, AppendTo(x, y)
  PROVE  Shared!Next \/ UNCHANGED Shared!svars
<1>. DEFINE size == IF Kind(heap, hand[x]) = "array" THEN Len(heap[hand[x]].items) ELSE 0
<1>1. size \in Nat
  <2>1. CASE Kind(heap, hand[x]) = "array"
    <3>1. hand[x] \in DOMAIN heap
      BY <2>1, KindAlive
    <3>2. heap[hand[x]].items \in Seq(ItemOf(heap[hand[x]].kind))
      BY <3>1 DEF IInv, Good, HeapTyped, Proper
    <3>. QED
      BY <2>1, <3>2, LenProperties
  <2>. QED
    BY <2>1
<1>2. Put(x, size + 1, y)
  BY DEF AppendTo
<1>. HIDE DEF size
<1>3. size + 1 \in Nat \ {0}
  BY <1>1
<1>4. ~(Kind(heap, hand[x]) = "array" /\ size + 1 <= Len(heap[hand[x]].items))
  BY <1>1 DEF size
<1>. QED
  BY <1>2, <1>3, <1>4, PutMaps

LEMMA PutNamelessMaps ==
  ASSUME IInv, Tied(heap', hand', walk'), NEW x \in Handles, NEW y \in Handles, PutNameless(x, y)
  PROVE  UNCHANGED Shared!svars
<1>1. Prunes(heap, heap')
  BY HeapShaped, CopiedPrunes DEF PutNameless
<1>2. hand' = hand /\ walk' = walk
  BY DEF PutNameless
<1>. QED
  BY <1>1, <1>2, NothingMaps

(* The place of a pair is found by the texts of the keys. *)
LEMMA PlaceOfIs ==
  ASSUME NEW c, HeapTyped(c), NEW g, Shows(g, c), NEW h, Prunes(c, h), DOMAIN h = DOMAIN c,
         NEW p \in DOMAIN g, NEW k \in DOMAIN g \cup Statics
  PROVE  LET at == Named(h, p, Text(h, k))
         IN  /\ Shared!PlaceOf(g, p, k) = IF at = {} THEN Len(h[p].items) + 1 ELSE CHOOSE i \in at : TRUE
             /\ Shared!PlaceOf(g, p, k) \in Nat \ {0}
<1>. DEFINE at == Named(h, p, Text(h, k))
            named == {i \in DOMAIN g[p].items :
                        Shared!TextIn(g, g[p].items[i][1]) = Shared!TextIn(g, k)}
<1>1. p \in DOMAIN c /\ p \in DOMAIN h /\ g[p] = View(c[p]) /\ Proper(c[p])
  BY DEF Shows, HeapTyped
<1>2. g[p].items = h[p].items /\ g[p].items = c[p].items
  <2>. HIDE DEF at, named
  <2>1. View(h[p]) = View(c[p])
    BY <1>1 DEF Prunes
  <2>2. View(h[p]).items = h[p].items /\ View(c[p]).items = c[p].items
    BY DEF View
  <2>. QED
    BY <1>1, <2>1, <2>2
<1>3. ASSUME NEW q \in DOMAIN g \cup Statics PROVE Shared!TextIn(g, q) = Text(h, q)
  <2>1. CASE q \in DOMAIN g
    <3>1. q \in DOMAIN h /\ g[q] = View(c[q]) /\ View(h[q]) = View(c[q])
      BY <2>1 DEF Shows, Prunes
    <3>2. g[q].text = h[q].text
      BY <3>1 DEF View
    <3>. QED
      BY <2>1, <3>1, <3>2 DEF Shared!TextIn, Text
  <2>2. CASE q \notin DOMAIN g
    <3>1. q \notin DOMAIN h
      BY <2>2, StaticsApart DEF HeapTyped
    <3>. QED
      BY <2>2, <3>1 DEF Shared!TextIn, Text
  <2>. QED
    BY <2>1, <2>2
<1>4. DOMAIN g[p].items = 1 .. Len(g[p].items) /\ Len(g[p].items) \in Nat
  BY <1>1, <1>2 DEF Proper, Node
<1>5. ASSUME NEW i \in DOMAIN g[p].items PROVE g[p].items[i][1] \in DOMAIN g \cup Statics
  <2>1. g[p].items[i] \in ItemOf(c[p].kind)
    BY <1>1, <1>2 DEF Proper
  <2>2. 1 \in DOMAIN g[p].items[i]
    BY <2>1 DEF ItemOf, Width
  <2>3. g[p].items[i][1] \in Contents(g, p)
    BY <2>2, ContentIs
  <2>. QED
    BY <2>3 DEF Shows
<1>6. named = at
  <2>1. Shared!TextIn(g, k) = Text(h, k)
    BY <1>3
  <2>2. \A i \in DOMAIN g[p].items : Shared!TextIn(g, g[p].items[i][1]) = Text(h, g[p].items[i][1])
    BY <1>3, <1>5
  <2>. QED
    BY <1>2, <2>1, <2>2 DEF Named
<1>7. Shared!PlaceOf(g, p, k) = IF named = {} THEN Len(g[p].items) + 1 ELSE CHOOSE i \in named : TRUE
  BY DEF Shared!PlaceOf
<1>8. named \subseteq Nat \ {0}
  BY <1>4
<1>. HIDE DEF named, at
<1>9. Shared!PlaceOf(g, p, k) \in Nat \ {0}
  <2>1. CASE named = {}
    BY <1>4, <1>7, <2>1
  <2>2. CASE named # {}
    <3>1. (CHOOSE i \in named : TRUE) \in named
      BY <2>2
    <3>. QED
      BY <1>7, <1>8, <2>2, <3>1
  <2>. QED
    BY <2>1, <2>2
<1>. QED
  BY <1>2, <1>6, <1>7, <1>9 DEF at

(* jobject_put, in the graph *)
LEMMA KeyedLive ==
  ASSUME Tied(heap', hand', walk'), NEW c, HeapTyped(c), NEW g, Shows(g, c),
         NEW h, Shaped(h), Prunes(c, h), DOMAIN h = DOMAIN c,
         NEW p \in DOMAIN g, NEW k \in DOMAIN g \cup Statics, NEW v \in DOMAIN g \cup Statics,
         p \in DOMAIN Keyed(h, p, k, v), Prunes(Keyed(h, p, k, v), heap'),
         Leading(hand', walk') \subseteq DOMAIN g \cup Statics
  PROVE  Graph(heap', hand', walk')
           = LiveOf(hand', walk', Storing(g, p, Shared!PlaceOf(g, p, k), <<k, v>>))
<1>. DEFINE i == Shared!PlaceOf(g, p, k)
            item == <<k, v>>
<1>1. i \in Nat \ {0} /\ Keyed(h, p, k, v) = Stored(h, p, i, item)
  <2>. DEFINE at == Named(h, p, Text(h, k))
  <2>1. /\ HeapTyped(c) /\ Shows(g, c) /\ Prunes(c, h) /\ DOMAIN h = DOMAIN c
        /\ p \in DOMAIN g /\ k \in DOMAIN g \cup Statics
    OBVIOUS
  <2>2. /\ Shared!PlaceOf(g, p, k) = IF at = {} THEN Len(h[p].items) + 1 ELSE CHOOSE n \in at : TRUE
        /\ Shared!PlaceOf(g, p, k) \in Nat \ {0}
    BY ONLY <2>1, PlaceOfIs
  <2>3. Keyed(h, p, k, v)
          = Stored(h, p, IF at = {} THEN Len(h[p].items) + 1 ELSE CHOOSE n \in at : TRUE, item)
    BY DEF Keyed
  <2>. HIDE DEF at
  <2>. QED
    BY <2>2, <2>3
<1>2. k \in Value /\ v \in Value
  BY DEF Shows, Value
<1>3. item \in Item /\ Len(item) = 2 /\ item[1] = k /\ item[2] = v
  BY <1>2, ItemMade
<1>4. \A j \in 1 .. Len(item) : item[j] \in DOMAIN g \cup Statics
  BY <1>3
<1>. HIDE DEF i, item
<1>5. /\ Tied(heap', hand', walk') /\ HeapTyped(c) /\ Shows(g, c)
      /\ Shaped(h) /\ Prunes(c, h) /\ DOMAIN h = DOMAIN c
      /\ p \in DOMAIN g /\ i \in Nat \ {0} /\ item \in Item
      /\ \A j \in 1 .. Len(item) : item[j] \in DOMAIN g \cup Statics
      /\ p \in DOMAIN Stored(h, p, i, item) /\ Prunes(Stored(h, p, i, item), heap')
      /\ Leading(hand', walk') \subseteq DOMAIN g \cup Statics
  BY <1>1, <1>3, <1>4
<1>6. Graph(heap', hand', walk') = LiveOf(hand', walk', Storing(g, p, i, item))
  BY ONLY <1>5, StoringLive
<1>. QED
  BY <1>6 DEF i, item

LEMMA PutPairMaps ==
  ASSUME IInv, Tied(heap', hand', walk'), NEW x \in Handles, NEW z \in Handles, NEW y \in Handles,
         PutPair(x, z, y)
  PROVE  Shared!Next \/ UNCHANGED Shared!svars
<1>. DEFINE g == Graph(heap, hand, walk)
            p == hand[x]
            k == hand[z]
            v == hand[y]
            f == Copied(heap, k)
            h == Copied(f, v)
            i == Shared!PlaceOf(g, p, k)
            u == Storing(g, p, i, <<k, v>>)
<1>1. hand' = hand /\ walk' = walk /\ Kind(heap, p) = "object"
  BY DEF PutPair
<1>2. Shaped(h) /\ Prunes(heap, h) /\ DOMAIN h = DOMAIN heap
  <2>1. Shaped(f) /\ Prunes(heap, f) /\ DOMAIN f = DOMAIN heap
    BY HeapShaped, CopiedPrunes
  <2>. HIDE DEF f
  <2>2. Shaped(h) /\ Prunes(f, h) /\ DOMAIN h = DOMAIN f
    BY <2>1, CopiedPrunes
  <2>. HIDE DEF h
  <2>. QED
    BY <2>1, <2>2, PrunesThrough
<1>3. CASE Kind(heap, k) = "string" /\ k # EmptyString
  <2>1. heap' = Keyed(h, p, k, v)
    BY <1>3 DEF PutPair
  <2>2. p \in Leading(hand, walk)
    BY HandLeads
  <2>3. p \in DOMAIN g /\ p \in DOMAIN heap /\ Shared!KindIn(g, p) = "object"
    BY <1>1, <2>2, KindSeen
  <2>4. Shows(g, heap) /\ Leading(hand, walk) \subseteq DOMAIN g \cup Statics
    BY InvTied, GraphShows, GraphFacts
  <2>5. k \in DOMAIN g \cup Statics /\ v \in DOMAIN g \cup Statics
    BY HandsLead
  <2>6. HeapTyped(heap) /\ p \in DOMAIN heap'
    <3>1. p \in DOMAIN heap' \cup Statics
      BY <1>1, <2>2 DEF Tied
    <3>. QED
      BY <2>3, <3>1, HeapShaped, StaticsApart DEF HeapTyped
  <2>7. Shared!KindIn(g, k) = "string"
    <3>1. k \in DOMAIN heap /\ heap[k].kind = "string"
      BY <1>3 DEF Kind
    <3>. HIDE DEF g, k
    <3>2. k \in DOMAIN g
      BY <2>5, <2>6, <3>1, StaticsApart DEF HeapTyped
    <3>3. g[k] = View(heap[k])
      BY <2>4, <3>2 DEF Shows
    <3>. QED
      BY <3>1, <3>2, <3>3 DEF Shared!KindIn, View
  <2>8. Prunes(heap', heap')
    BY DEF Prunes
  <2>. HIDE DEF g, p, k, v, h
  <2>9. /\ Tied(heap', hand', walk') /\ HeapTyped(heap) /\ Shows(g, heap)
        /\ Shaped(h) /\ Prunes(heap, h) /\ DOMAIN h = DOMAIN heap
        /\ p \in DOMAIN g /\ k \in DOMAIN g \cup Statics /\ v \in DOMAIN g \cup Statics
        /\ p \in DOMAIN Keyed(h, p, k, v) /\ Prunes(Keyed(h, p, k, v), heap')
        /\ Leading(hand', walk') \subseteq DOMAIN g \cup Statics
    BY <1>1, <1>2, <2>1, <2>3, <2>4, <2>5, <2>6, <2>8
  <2>10. Graph(heap', hand', walk') = LiveOf(hand', walk', u)
    BY ONLY <2>9, KeyedLive DEF u, i
  <2>11. u = [g EXCEPT ![p].items = Shared!With(@, i, <<k, v>>)]
    <3>. HIDE DEF i
    <3>. QED
      BY WithIs DEF Storing
  <2>. HIDE DEF u
  <2>12. Seen' = Shared!Live(hand', walk', u)
    BY <2>10, SeenIs, LiveIs
  <2>13. Shared!Pair(g, p, k, v)
    BY <1>1, <1>3, <2>3, <2>7, <2>11, <2>12 DEF Shared!Pair, Shared!Become, Seen
  <2>14. p \in Shared!Held /\ v \in Shared!Held /\ k \in Shared!Held
    BY DEF Shared!Held, p, v, k
  <2>15. Shared!Step(g)
    BY <1>1, <2>13, <2>14 DEF Shared!Step
  <2>. QED
    BY <2>15, StepIs DEF g
<1>4. CASE ~(Kind(heap, k) = "string" /\ k # EmptyString)
  <2>1. heap' = h
    BY <1>4 DEF PutPair
  <2>. QED
    BY <1>1, <1>2, <2>1, NothingMaps
<1>. QED
  BY <1>3, <1>4

(* The key of jobject_put is a temporary that is released after it. *)
LEMMA ReleasedNoMore ==
  ASSUME NEW h, NEW p
  PROVE  DOMAIN Released(h, p) \subseteq DOMAIN h
BY DEF Released

LEMMA PutNamedMaps ==
  ASSUME IInv, Tied(heap', hand', walk'), NEW x \in Handles, NEW y \in Handles,
         NEW name \in Documents, Len(name) = 1, name[1].kind = "string", PutNamed(x, name, y)
  PROVE  Shared!Next
<1>. DEFINE g == Graph(heap, hand, walk)
            p == hand[x]
            v == hand[y]
            k == Fresh(name)[1]
            c == Created(heap, name, <<k>>)
            f == Copied(c, k)
            h == Copied(f, v)
            e == WithLaid(g, name, <<k>>)
            i == Shared!PlaceOf(e, p, k)
            u == Storing(e, p, i, <<k, v>>)
            t == Keyed(h, p, k, v)
<1>1. /\ hand' = hand /\ walk' = walk /\ Kind(heap, p) = "object"
      /\ Room(name) /\ heap' = Released(t, k)
  BY DEF PutNamed
<1>2. p \in Leading(hand, walk)
  BY HandLeads
<1>3. p \in DOMAIN g /\ p \in DOMAIN heap /\ Shared!KindIn(g, p) = "object"
  BY <1>1, <1>2, KindSeen
<1>4. /\ Shows(g, heap) /\ Leading(hand, walk) \subseteq DOMAIN g \cup Statics
      /\ DOMAIN g \subseteq DOMAIN heap /\ HeapTyped(heap)
  BY InvTied, GraphShows, GraphFacts, HeapShaped
<1>5. v \in DOMAIN g \cup Statics
  BY HandsLead
<1>6. p \in DOMAIN heap'
  <2>1. p \in DOMAIN heap' \cup Statics
    BY <1>1, <1>2 DEF Tied
  <2>. QED
    BY <1>3, <1>4, <2>1, StaticsApart DEF HeapTyped
<1>. HIDE DEF g, p, v
<1>7. k \in Addresses \ DOMAIN heap
  BY <1>1, <1>4, FreshLaying
<1>. HIDE DEF k
<1>8. Laying(heap, name, <<k>>) /\ <<k>>[1] = k /\ 1 \in 1 .. Len(name)
  BY <1>7 DEF Laying
<1>9. Places(name, <<k>>) = {k}
  BY <1>8 DEF Places
<1>10. HeapTyped(c) /\ Shows(e, c)
  <2>1. HeapTyped(c)
    BY <1>4, <1>8, CreatedIs
  <2>2. Shows(e, c)
    BY <1>4, <1>8, LaidShows
  <2>. QED
    BY <2>1, <2>2
<1>11. DOMAIN e = DOMAIN g \cup {k} /\ (\A q \in DOMAIN g : e[q] = g[q]) /\ k \notin DOMAIN g
  BY <1>4, <1>7, <1>9 DEF WithLaid
<1>12. e[k] = Shared!Laid(name, <<k>>)[k] /\ Shared!Laid(name, <<k>>)[k].kind = "string"
  <2>1. e[k] = Shared!Laid(name, <<k>>)[k]
    BY <1>9, <1>11 DEF WithLaid
  <2>2. Shared!Laid(name, <<k>>)[<<k>>[1]] = View(Laid(name, <<k>>, 1))
    BY <1>4, <1>8, LaidView
  <2>3. View(Laid(name, <<k>>, 1)).kind = "string"
    BY DEF View, Laid
  <2>. QED
    BY <1>8, <2>1, <2>2, <2>3
<1>13. e = [q \in DOMAIN g \cup {k} |-> IF q = k THEN Shared!Laid(name, <<k>>)[k] ELSE g[q]]
  <2>1. e = [q \in DOMAIN g \cup {k} |-> IF q \in DOMAIN g THEN g[q] ELSE Shared!Laid(name, <<k>>)[q]]
    BY <1>9 DEF WithLaid
  <2>. HIDE DEF e
  <2>. QED
    BY <1>11, <2>1
<1>. HIDE DEF c, e
<1>14. Shaped(h) /\ Prunes(c, h) /\ DOMAIN h = DOMAIN c
  <2>1. Shaped(c)
    BY <1>10, TypedShaped
  <2>2. Shaped(f) /\ Prunes(c, f) /\ DOMAIN f = DOMAIN c
    BY <2>1, CopiedPrunes
  <2>. HIDE DEF f
  <2>3. Shaped(h) /\ Prunes(f, h) /\ DOMAIN h = DOMAIN f
    BY <2>2, CopiedPrunes
  <2>. HIDE DEF h
  <2>. QED
    BY <2>2, <2>3, PrunesThrough
<1>. HIDE DEF h
<1>15. p \in DOMAIN h
  BY <1>3, <1>10, <1>11, <1>14 DEF Shows
<1>16. p \in DOMAIN t
  BY <1>1, <1>6, ReleasedNoMore
<1>17. Prunes(t, heap')
  <2>1. PICK n : t = Stored(h, p, n, <<k, v>>)
    BY DEF Keyed
  <2>. HIDE DEF t
  <2>2. p \in DOMAIN Stored(h, p, n, <<k, v>>)
    BY <1>16, <2>1
  <2>3. Shaped(Stored(h, p, n, <<k, v>>))
    BY <1>14, <1>15, <2>2, StoredViews
  <2>4. Shaped(t)
    BY <2>1, <2>3
  <2>. QED
    BY <1>1, <2>4, ReleasedPrunes
<1>18. /\ Tied(heap', hand', walk') /\ HeapTyped(c) /\ Shows(e, c)
       /\ Shaped(h) /\ Prunes(c, h) /\ DOMAIN h = DOMAIN c
       /\ p \in DOMAIN e /\ k \in DOMAIN e \cup Statics /\ v \in DOMAIN e \cup Statics
       /\ p \in DOMAIN Keyed(h, p, k, v) /\ Prunes(Keyed(h, p, k, v), heap')
       /\ Leading(hand', walk') \subseteq DOMAIN e \cup Statics
  BY <1>1, <1>3, <1>4, <1>5, <1>10, <1>11, <1>14, <1>16, <1>17
<1>19. Graph(heap', hand', walk') = LiveOf(hand', walk', u)
  BY ONLY <1>18, KeyedLive DEF u, i
<1>20. u = [e EXCEPT ![p].items = Shared!With(@, i, <<k, v>>)]
  <2>. HIDE DEF i
  <2>. QED
    BY WithIs DEF Storing
<1>. HIDE DEF u
<1>21. Seen' = Shared!Live(hand', walk', u)
  BY <1>19, SeenIs, LiveIs
<1>22. Shared!KindIn(e, p) = "object" /\ Shared!KindIn(e, k) = "string" /\ k # EmptyString
  BY <1>3, <1>7, <1>11, <1>12, StaticsApart DEF Shared!KindIn, Statics
<1>23. Shared!Pair(e, p, k, v)
  BY <1>1, <1>20, <1>21, <1>22 DEF Shared!Pair, Shared!Become, Seen
<1>24. Shared!Named(g, p, name, k, v)
  BY <1>13, <1>23 DEF Shared!Named
<1>25. p \in Shared!Held /\ v \in Shared!Held /\ k \in Addresses \ DOMAIN g
  BY <1>7, <1>11 DEF Shared!Held, p, v
<1>26. Shared!Step(g)
  BY <1>1, <1>24, <1>25 DEF Shared!Step
<1>. QED
  BY <1>26, StepIs DEF g

LEMMA StandMaps ==
  ASSUME IInv, Tied(heap', hand', walk'), NEW w \in Walks, NEW x \in Handles, NEW at \in Nat,
         at > 0 => Kind(heap, hand[x]) = "object" /\ at <= Len(heap[hand[x]].items),
         Stand(w, hand[x], at)
  PROVE  Shared!Next
<1>. DEFINE p == hand[x]
            f == Copied(heap, p)
            g == Released(f, walk[w].object)
            h == Copied(g, p)
            k == Released(h, p)
<1>1. heap' = k /\ hand' = hand /\ walk' = [walk EXCEPT ![w] = [object |-> p, at |-> at]]
  BY DEF Stand
<1>2. p \in Leading(hand, walk)
  BY HandLeads
<1>3. Prunes(heap, heap')
  <2>1. Shaped(f) /\ Prunes(heap, f)
    BY HeapShaped, CopiedPrunes
  <2>. HIDE DEF f
  <2>2. Shaped(g) /\ Prunes(f, g)
    BY <2>1, ReleasedPrunes
  <2>. HIDE DEF g
  <2>3. Shaped(h) /\ Prunes(g, h)
    BY <2>2, CopiedPrunes
  <2>. HIDE DEF h
  <2>4. Prunes(h, k)
    BY <2>3, ReleasedPrunes
  <2>. HIDE DEF k
  <2>5. Prunes(heap, h)
    BY <2>1, <2>2, <2>3, PrunesThrough
  <2>. QED
    BY <1>1, <2>4, <2>5, PrunesThrough
<1>. QED
  BY <1>1, <1>2, <1>3, WalkMaps

LEMMA BeginMaps ==
  ASSUME IInv, Tied(heap', hand', walk'), NEW w \in Walks, NEW x \in Handles, Begin(w, x)
  PROVE  Shared!Next
<1>. DEFINE at == IF Pairs(heap, hand[x]) > 0 THEN 1 ELSE 0
<1>1. Stand(w, hand[x], at)
  BY DEF Begin
<1>2. Pairs(heap, hand[x]) \in Nat
  BY InvFacts, PairsNat DEF IInv
<1>3. at \in Nat /\ (at > 0 => Kind(heap, hand[x]) = "object" /\ at <= Len(heap[hand[x]].items))
  <2>1. CASE Pairs(heap, hand[x]) > 0
    BY <1>2, <2>1 DEF Pairs
  <2>2. CASE ~(Pairs(heap, hand[x]) > 0)
    BY <2>2
  <2>. QED
    BY <2>1, <2>2
<1>. HIDE DEF at
<1>. QED
  BY <1>1, <1>3, StandMaps

LEMMA EndMaps ==
  ASSUME IInv, Tied(heap', hand', walk'), NEW w \in Walks, NEW x \in Handles, End(w, x)
  PROVE  Shared!Next
<1>1. Stand(w, hand[x], 0)
  BY DEF End
<1>. QED
  BY <1>1, StandMaps

(* An iterator moves within its object. *)
LEMMA MoveMaps ==
  ASSUME IInv, Tied(heap', hand', walk'), NEW w \in Walks, NEW at \in Nat,
         at <= Pairs(heap, walk[w].object), heap' = heap, hand' = hand,
         walk' = [walk EXCEPT ![w].at = at]
  PROVE  Shared!Next
<1>. DEFINE p == walk[w].object
<1>1. p \in Leading(hand, walk)
  BY WalkLeads
<1>2. walk[w] = [object |-> p, at |-> walk[w].at]
  BY DEF IInv, Iterator
<1>3. at > 0 => Kind(heap, p) = "object" /\ at <= Len(heap[p].items)
  BY DEF Pairs
<1>4. Prunes(heap, heap')
  BY DEF Prunes
<1>5. walk' = [walk EXCEPT ![w] = [object |-> p, at |-> at]]
  <2>1. walk' = [walk EXCEPT ![w] = [walk[w] EXCEPT !.at = at]]
    OBVIOUS
  <2>2. [walk[w] EXCEPT !.at = at] = [object |-> p, at |-> at]
    BY <1>2
  <2>. QED
    BY <2>1, <2>2
<1>. HIDE DEF p
<1>. QED
  BY <1>1, <1>3, <1>4, <1>5, WalkMaps

LEMMA ForwardMaps ==
  ASSUME IInv, Tied(heap', hand', walk'), NEW w \in Walks, Forward(w)
  PROVE  Shared!Next
<1>. DEFINE n == walk[w].at
            m == Pairs(heap, walk[w].object)
            at == IF n = 0 \/ n = m THEN 0 ELSE n + 1
<1>1. n \in Nat /\ m \in Nat /\ n <= m
  BY InvFacts, PairsNat DEF IInv, Iterator
<1>2. heap' = heap /\ hand' = hand /\ walk' = [walk EXCEPT ![w].at = at]
  BY DEF Forward
<1>. HIDE DEF n, m
<1>3. at \in Nat /\ at <= m
  BY <1>1
<1>. HIDE DEF at
<1>. QED
  BY <1>2, <1>3, MoveMaps DEF m

LEMMA BackwardMaps ==
  ASSUME IInv, Tied(heap', hand', walk'), NEW w \in Walks, Backward(w)
  PROVE  Shared!Next
<1>. DEFINE n == walk[w].at
            m == Pairs(heap, walk[w].object)
            at == IF n = 0 THEN 0 ELSE n - 1
<1>1. n \in Nat /\ m \in Nat /\ n <= m
  BY InvFacts, PairsNat DEF IInv, Iterator
<1>2. heap' = heap /\ hand' = hand /\ walk' = [walk EXCEPT ![w].at = at]
  BY DEF Backward
<1>. HIDE DEF n, m
<1>3. at \in Nat /\ at <= m
  BY <1>1
<1>. HIDE DEF at
<1>. QED
  BY <1>2, <1>3, MoveMaps DEF m

LEMMA CopyWalkMaps ==
  ASSUME IInv, Tied(heap', hand', walk'), NEW w \in Walks, NEW v \in Walks, CopyWalk(w, v)
  PROVE  Shared!Next
<1>. DEFINE p == walk[v].object
            at == walk[v].at
            f == Released(heap, walk[w].object)
            g == Copied(f, p)
<1>1. heap' = g /\ hand' = hand /\ walk' = [walk EXCEPT ![w] = walk[v]]
  BY DEF CopyWalk
<1>2. p \in Leading(hand, walk)
  BY WalkLeads
<1>3. Prunes(heap, heap')
  <2>1. Shaped(f) /\ Prunes(heap, f)
    BY HeapShaped, ReleasedPrunes
  <2>. HIDE DEF f
  <2>2. Prunes(f, g)
    BY <2>1, CopiedPrunes
  <2>. HIDE DEF g
  <2>. QED
    BY <1>1, <2>1, <2>2, PrunesThrough
<1>4. walk[v] = [object |-> p, at |-> at] /\ at \in Nat /\ at <= Pairs(heap, p)
  BY DEF IInv, Iterator
<1>. HIDE DEF p, at
<1>5. at > 0 => Kind(heap, p) = "object" /\ at <= Len(heap[p].items)
  BY <1>4 DEF Pairs
<1>6. walk' = [walk EXCEPT ![w] = [object |-> p, at |-> at]]
  BY <1>1, <1>4
<1>. QED
  BY <1>1, <1>2, <1>3, <1>4, <1>5, <1>6, WalkMaps

LEMMA DerefMaps ==
  ASSUME IInv, Tied(heap', hand', walk'), NEW w \in Walks, NEW x \in Handles, NEW j \in {1, 2},
         Deref(w, x, j)
  PROVE  Shared!Next
<1>. DEFINE p == walk[w].object
            at == walk[w].at
            pair == IF at = 0 THEN <<Null, Null>> ELSE heap[p].items[at]
            f == AllCopied(heap, pair)
            g == Assigned(f, hand[x], pair[j])
            h == AllReleased(g, pair)
<1>1. heap' = h /\ hand' = [hand EXCEPT ![x] = pair[j]] /\ walk' = walk
  BY DEF Deref
<1>2. p \in Leading(hand, walk)
  BY WalkLeads
<1>3. at \in Nat /\ at <= Pairs(heap, p)
  BY DEF IInv, Iterator
<1>. HIDE DEF p, at
<1>4. pair[j] \in Known(Graph(heap, hand, walk))
  <2>1. CASE at = 0
    BY <2>1 DEF Known, Statics
  <2>2. CASE at # 0
    <3>1. Kind(heap, p) = "object" /\ at \in 1 .. Len(heap[p].items)
      BY <1>3, <2>2 DEF Pairs
    <3>2. j \in 1 .. Width(Kind(heap, p))
      BY <3>1 DEF Width
    <3>3. heap[p].items[at][j] \in Known(Graph(heap, hand, walk))
      BY <1>2, <3>1, <3>2, ItemKnown
    <3>. QED
      BY <2>2, <3>3
  <2>. QED
    BY <2>1, <2>2
<1>. HIDE DEF pair
<1>5. Prunes(heap, heap')
  <2>1. Shaped(f) /\ Prunes(heap, f)
    BY HeapShaped, AllPrunes
  <2>. HIDE DEF f
  <2>2. Shaped(g) /\ Prunes(f, g)
    BY <2>1, AssignedPrunes
  <2>. HIDE DEF g
  <2>3. Prunes(g, h)
    BY <2>2, AllPrunes
  <2>. HIDE DEF h
  <2>. QED
    BY <1>1, <2>1, <2>2, <2>3, PrunesThrough
<1>. QED
  BY <1>1, <1>4, <1>5, HoldMaps

LEMMA ConstructMaps ==
  ASSUME IInv, Tied(heap', hand', walk'), NEW x \in Handles, NEW doc \in Documents, Construct(x, doc)
  PROVE  Shared!Next
<1>1. /\ Room(doc)
      /\ heap' = Adopted(Created(heap, doc, Fresh(doc)), hand[x], Fresh(doc)[1])
      /\ hand' = [hand EXCEPT ![x] = Fresh(doc)[1]] /\ walk' = walk
  BY DEF Construct
<1>. QED
  BY <1>1, MadeMaps

LEMMA ParseMaps ==
  ASSUME IInv, Tied(heap', hand', walk'), NEW doc \in Documents, Parse(doc)
  PROVE  Shared!Next
<1>1. /\ Room(doc) /\ Dom \in Handles
      /\ heap' = Adopted(Created(heap, doc, Fresh(doc)), hand[Dom], Fresh(doc)[1])
      /\ hand' = [hand EXCEPT ![Dom] = Fresh(doc)[1]] /\ walk' = walk
  BY HandleConstants DEF Parse
<1>. QED
  BY <1>1, MadeMaps

LEMMA InitMaps == Init => Shared!Init
<1>. SUFFICES ASSUME Init PROVE Shared!Init
  OBVIOUS
<1>1. /\ heap = [p \in {} |-> Null]
      /\ hand = [x \in Handles |-> Null]
      /\ walk = [w \in Walks |-> [object |-> Null, at |-> 0]]
  BY DEF Init
<1>2. DOMAIN heap = {}
  BY <1>1
<1>3. Reachable = {}
  <2>. DEFINE R == {hand[x] : x \in Handles} \cup {walk[w].object : w \in Walks}
  <2>1. IsFiniteSet(DOMAIN heap)
    BY <1>2, FS_EmptySet
  <2>. HIDE DEF R
  <2>2. Under(heap, R) \subseteq DOMAIN heap
    BY <2>1, UnderClosed
  <2>. QED
    BY <1>2, <2>2 DEF Reachable, R
<1>4. Seen = [p \in {} |-> Null]
  BY <1>3 DEF Seen
<1>. QED
  BY <1>1, <1>4 DEF Shared!Init, Seen

LEMMA NextMaps ==
  IInv /\ IInv' /\ [Next]_vars => [Shared!Next \/ PutOver]_(Shared!svars)
<1>. SUFFICES ASSUME IInv, IInv', [Next]_vars
     PROVE  Shared!Next \/ PutOver \/ UNCHANGED Shared!svars
  OBVIOUS
<1>0. Tied(heap', hand', walk')
  BY NextTied
<1>1. ASSUME NEW doc \in Documents, Parse(doc) PROVE Shared!Next
  BY <1>0, <1>1, ParseMaps
<1>2. ASSUME NEW doc \in Documents, NEW x \in Handles \ {Dom}, Construct(x, doc) PROVE Shared!Next
  BY <1>0, <1>2, ConstructMaps
<1>3. ASSUME ParseRefused PROVE Shared!Next
  BY <1>0, <1>3, ParseRefusedMaps
<1>4. ASSUME NEW x \in Handles \ {Dom}, Scope(x) \/ GetDom(x) PROVE Shared!Next
  BY <1>0, <1>4, ScopeMaps, GetDomMaps
<1>5. ASSUME NEW x \in Handles \ {Dom}, NEW y \in Handles \ {Dom}, Assign(x, y) PROVE Shared!Next
  BY <1>0, <1>5, AssignMaps
<1>6. ASSUME NEW x \in Handles \ {Dom}, NEW y \in Handles \ {Dom}, NEW i \in 1 .. MaxItems,
             Element(x, y, i)
      PROVE  Shared!Next
  BY <1>0, <1>6, ElementMaps
<1>7. ASSUME NEW x \in Handles \ {Dom}, NEW y \in Handles \ {Dom}, NEW i \in 1 .. MaxItems,
             Put(x, i, y)
      PROVE  Shared!Next \/ PutOver \/ UNCHANGED Shared!svars
  <2>1. i \in Nat \ {0}
    BY HandleConstants
  <2>2. \/ Shared!Next \/ UNCHANGED Shared!svars
        \/ /\ Kind(heap, hand[x]) = "array" /\ i \in 1 .. MaxItems
           /\ i <= Len(heap[hand[x]].items)
           /\ Shared!Overwrite(Seen, hand[x], i, hand[y])
    BY <1>0, <1>7, <2>1, PutMaps
  <2>. QED
    BY <1>7, <2>2, Zenon DEF PutOver
<1>8. ASSUME NEW x \in Handles \ {Dom}, NEW y \in Handles \ {Dom}, AppendTo(x, y)
      PROVE  Shared!Next \/ UNCHANGED Shared!svars
  BY <1>0, <1>8, AppendToMaps
<1>9. ASSUME NEW x \in Handles \ {Dom}, NEW y \in Handles \ {Dom}, NEW name \in Names,
             Member(x, y, name[1].text)
      PROVE  Shared!Next
  BY <1>0, <1>9, MemberMaps
<1>10. ASSUME NEW x \in Handles \ {Dom}, NEW y \in Handles \ {Dom}, NEW name \in Names,
              PutNamed(x, name, y)
       PROVE  Shared!Next
  <2>1. name \in Documents /\ Len(name) = 1 /\ name[1].kind = "string"
    BY DEF Names
  <2>. QED
    BY <1>0, <1>10, <2>1, PutNamedMaps
<1>11. ASSUME NEW x \in Handles \ {Dom}, NEW y \in Handles \ {Dom}, PutNameless(x, y)
       PROVE  UNCHANGED Shared!svars
  BY <1>0, <1>11, PutNamelessMaps
<1>12. ASSUME NEW x \in Handles \ {Dom}, NEW y \in Handles \ {Dom}, NEW k \in Handles \ {Dom},
              PutPair(x, k, y)
       PROVE  Shared!Next \/ UNCHANGED Shared!svars
  BY <1>0, <1>12, PutPairMaps
<1>13. ASSUME NEW x \in Handles \ {Dom}, NEW w \in Walks, Begin(w, x) \/ End(w, x) PROVE Shared!Next
  BY <1>0, <1>13, BeginMaps, EndMaps
<1>14. ASSUME NEW x \in Handles \ {Dom}, NEW w \in Walks, NEW j \in {1, 2}, Deref(w, x, j)
       PROVE  Shared!Next
  BY <1>0, <1>14, DerefMaps
<1>15. ASSUME NEW w \in Walks, Forward(w) \/ Backward(w) PROVE Shared!Next
  BY <1>0, <1>15, ForwardMaps, BackwardMaps
<1>16. ASSUME NEW w \in Walks, NEW v \in Walks, CopyWalk(w, v) PROVE Shared!Next
  BY <1>0, <1>16, CopyWalkMaps
<1>17. ASSUME UNCHANGED vars PROVE UNCHANGED Shared!svars
  <2>1. heap' = heap /\ hand' = hand /\ walk' = walk
    BY <1>17 DEF vars
  <2>2. Prunes(heap, heap')
    BY <2>1 DEF Prunes
  <2>. QED
    BY <1>0, <2>1, <2>2, NothingMaps
<1>. QED
  BY <1>1, <1>2, <1>3, <1>4, <1>5, <1>6, <1>7, <1>8, <1>9, <1>10, <1>11, <1>12, <1>13, <1>14,
     <1>15, <1>16, <1>17 DEF Next

(* Counting is invisible: whatever a client does with its handles and iterators, but
   for a put at an index in use, it sees values that are shared and live as long
   as something leads to them, none of them gone or changed by a release (JValue.cpp 134-163, 298-346,
   537-558; jobject.c 262-339). *)
THEOREM ValuesAreShared == Spec => SharedSpec
<1>1. Init => Shared!Init
  BY InitMaps
<1>2. IInv /\ IInv' /\ [Next]_vars => [Shared!Next \/ PutOver]_(Shared!svars)
  BY NextMaps
<1>. QED
  BY <1>1, <1>2, Invariance, PTL DEF Spec, SharedSpec
================================================================================
