--------------------------- MODULE JSchemaStore_proofs ---------------------------
(***************************************************************************)
(* Proofs about JSchemaStore: for all texts, however nodes nest and        *)
(* extend each other, and for every interleaving of clients, C++ handles   *)
(* and a parse, the counter of a wrapper is the number of its references,  *)
(* a mapped file has one owner, a schema of a client loses its elements    *)
(* only to a resolver that lends it, and the counter of an element is the  *)
(* number of cells that hold it.                                           *)
(*                                                                         *)
(* The first half is about wrappers: IInv is inductive without a word on   *)
(* the counters of elements.  The second half is about elements: Balanced  *)
(* is carried through each step of a resolution, with the elements that    *)
(* are on their way from one array to another as an argument.              *)
(***************************************************************************)
EXTENDS JSchemaStore, SeqLemmas, FiniteSetTheorems, TLAPS

-------------------------------------------------------------------------------
(* Lemmas about numbers that are free and about places in sequences. *)

(* Numbers are taken from one up. *)
Positive == Nat \ {0}

(* The number taken is positive and was not in use. *)
LEMMA UnusedIsFree ==
  ASSUME NEW S, IsFiniteSet(S)
  PROVE  Unused(S) \in Positive /\ Unused(S) \notin S
<1>. DEFINE c == Cardinality(S)
            free == (1 .. c + 1) \ S
<1>1. c \in Nat
  BY FS_CardinalityType
<1>2. free # {}
  <2>1. SUFFICES ASSUME 1 .. c + 1 \in SUBSET S PROVE FALSE
    OBVIOUS
  <2>2. Cardinality(1 .. c + 1) = c + 1
    BY <1>1, FS_Interval
  <2>3. Cardinality(1 .. c + 1) <= c
    BY <2>1, FS_Subset
  <2>. QED
    BY <1>1, <2>2, <2>3
<1>3. free \subseteq Positive
  BY <1>1 DEF Positive
<1>4. PICK n \in free : \A m \in free : ~(m < n)
  BY <1>2, <1>3, LeastOf DEF Positive
<1>5. \A m \in free : n <= m
  BY <1>3, <1>4 DEF Positive
<1>6. Unused(S) = CHOOSE x \in free : \A m \in free : x <= m
  BY DEF Unused
<1>7. Unused(S) \in free
  BY <1>4, <1>5, <1>6
<1>. QED
  BY <1>3, <1>7

-------------------------------------------------------------------------------
(* Places in sequences. *)

(* The places of an element in a sequence, counted. *)
LEMMA PlacesFinite ==
  ASSUME NEW S, NEW s \in Seq(S), NEW e
  PROVE  IsFiniteSet({i \in DOMAIN s : s[i] = e})
<1>. DEFINE P == {i \in DOMAIN s : s[i] = e}
<1>1. Len(s) \in Nat /\ DOMAIN s = 1 .. Len(s)
  BY LenProperties
<1>2. IsFiniteSet(1 .. Len(s)) /\ P \in SUBSET (1 .. Len(s))
  BY <1>1, FS_Interval
<1>. QED
  BY <1>2, FS_Subset

LEMMA PlacesNat ==
  ASSUME NEW S, NEW s \in Seq(S), NEW e
  PROVE  /\ Places(s, e) \in Nat
         /\ Places(s, e) = 0 <=> \A i \in 1 .. Len(s) : s[i] # e
<1>. DEFINE P == {i \in DOMAIN s : s[i] = e}
<1>1. Len(s) \in Nat /\ DOMAIN s = 1 .. Len(s)
  BY LenProperties
<1>2. IsFiniteSet(P)
  BY PlacesFinite
<1>3. Cardinality(P) \in Nat
  BY <1>2, FS_CardinalityType
<1>4. Cardinality(P) = 0 <=> P = {}
  BY <1>2, FS_EmptySet
<1>. QED
  BY <1>1, <1>3, <1>4 DEF Places

LEMMA PlacesEmpty ==
  ASSUME NEW e
  PROVE  Places(<<>>, e) = 0
<1>1. {i \in DOMAIN <<>> : <<>>[i] = e} = {}
  OBVIOUS
<1>2. Cardinality({}) = 0
  BY FS_EmptySet
<1>. QED
  BY <1>1, <1>2 DEF Places

LEMMA PlacesAppend ==
  ASSUME NEW S, NEW s \in Seq(S), NEW x \in S, NEW e
  PROVE  Places(Append(s, x), e) = Places(s, e) + IF x = e THEN 1 ELSE 0
<1>. DEFINE P == {i \in DOMAIN s : s[i] = e}
            n == Len(s) + 1
            t == Append(s, x)
            Q == {i \in DOMAIN t : t[i] = e}
<1>1. IsFiniteSet(P) /\ Cardinality(P) \in Nat
  BY PlacesFinite, FS_CardinalityType
<1>2. Len(s) \in Nat /\ DOMAIN s = 1 .. Len(s)
  BY LenProperties
<1>3. /\ t \in Seq(S) /\ Len(t) = n /\ t[n] = x
      /\ \A i \in 1 .. Len(s) : t[i] = s[i]
  BY AppendProperties
<1>4. DOMAIN t = 1 .. n
  BY <1>3, LenProperties
<1>5. \A i : i \in 1 .. n <=> i \in 1 .. Len(s) \/ i = n
  BY <1>2
<1>6. n \notin P
  BY <1>2
<1>7. Q = IF x = e THEN P \cup {n} ELSE P
  BY <1>2, <1>3, <1>4, <1>5
<1>8. Cardinality(P \cup {n}) = Cardinality(P) + 1
  BY <1>1, <1>6, FS_AddElement
<1>9. Places(s, e) = Cardinality(P) /\ Places(t, e) = Cardinality(Q)
  BY DEF Places
<1>. HIDE DEF P, Q
<1>. QED
  BY <1>1, <1>7, <1>8, <1>9

LEMMA PlacesOne ==
  ASSUME NEW x, NEW e
  PROVE  Places(<<x>>, e) = IF x = e THEN 1 ELSE 0
<1>1. {i \in DOMAIN <<x>> : <<x>>[i] = e} = IF x = e THEN {1} ELSE {}
  OBVIOUS
<1>2. Cardinality({}) = 0 /\ Cardinality({1}) = 1
  BY FS_EmptySet, FS_Singleton
<1>. QED
  BY <1>1, <1>2 DEF Places

(* A sequence is its front and its last element. *)
LEMMA PlacesFront ==
  ASSUME NEW S, NEW s \in Seq(S), s # <<>>, NEW e
  PROVE  /\ Front(s) \in Seq(S) /\ Last(s) \in S /\ Len(Front(s)) = Len(s) - 1
         /\ s = Append(Front(s), Last(s)) /\ Last(s) = s[Len(s)]
         /\ Places(s, e) = Places(Front(s), e) + IF Last(s) = e THEN 1 ELSE 0
<1>1. Len(s) \in Nat \ {0} /\ \A i \in 1 .. Len(s) : s[i] \in S
  BY EmptySeq, ElementOfSeq
<1>2. Front(s) = SubSeq(s, 1, Len(s) - 1) /\ Last(s) = s[Len(s)]
  BY DEF Front, Last
<1>3. Last(s) \in S
  BY <1>1, <1>2
<1>4. /\ Front(s) \in Seq(S) /\ Len(Front(s)) = Len(s) - 1
      /\ \A i \in 1 .. Len(s) - 1 : Front(s)[i] = s[i]
  <2>. DEFINE n == Len(s) - 1
              f == SubSeq(s, 1, n)
  <2>1. n \in Nat /\ \A i \in 1 .. n : s[i] \in S /\ s[1 + i - 1] = s[i]
    BY <1>1
  <2>. HIDE DEF n
  <2>2. /\ f \in Seq(S) /\ Len(f) = IF 1 <= n THEN n - 1 + 1 ELSE 0
        /\ \A i \in 1 .. n - 1 + 1 : f[i] = s[1 + i - 1]
    BY <2>1, SubSeqProperties
  <2>. HIDE DEF f
  <2>3. f \in Seq(S) /\ Len(f) = n /\ \A i \in 1 .. n : f[i] = s[i]
    BY <2>1, <2>2
  <2>. QED
    BY <1>2, <2>3 DEF f, n
<1>5. s = Append(Front(s), Last(s))
  <2>1. /\ Append(Front(s), Last(s)) \in Seq(S)
        /\ Len(Append(Front(s), Last(s))) = Len(s)
        /\ \A i \in 1 .. Len(s) - 1 : Append(Front(s), Last(s))[i] = s[i]
        /\ Append(Front(s), Last(s))[Len(s)] = s[Len(s)]
    <3>1. /\ Append(Front(s), Last(s)) \in Seq(S)
          /\ Len(Append(Front(s), Last(s))) = Len(Front(s)) + 1
          /\ \A i \in 1 .. Len(Front(s)) : Append(Front(s), Last(s))[i] = Front(s)[i]
          /\ Append(Front(s), Last(s))[Len(Front(s)) + 1] = Last(s)
      BY <1>3, <1>4, AppendProperties
    <3>. QED
      BY <1>1, <1>2, <1>4, <3>1
  <2>2. \A i \in 1 .. Len(s) : i \in 1 .. Len(s) - 1 \/ i = Len(s)
    BY <1>1
  <2>3. \A i \in 1 .. Len(s) : s[i] = Append(Front(s), Last(s))[i]
    BY <2>1, <2>2
  <2>. QED
    BY <2>1, <2>3, SeqEqual
<1>6. Places(Append(Front(s), Last(s)), e) =
        Places(Front(s), e) + IF Last(s) = e THEN 1 ELSE 0
  BY <1>3, <1>4, PlacesAppend
<1>. QED
  BY <1>2, <1>3, <1>4, <1>5, <1>6

(* What is in two sequences one after the other. *)
LEMMA PlacesConcat ==
  ASSUME NEW S, NEW s \in Seq(S), NEW t \in Seq(S), NEW e
  PROVE  /\ s \o t \in Seq(S)
         /\ Places(s \o t, e) = Places(s, e) + Places(t, e)
<1>. DEFINE m == Len(s)
            u == s \o t
            P == {i \in DOMAIN s : s[i] = e}
            Q == {i \in DOMAIN t : t[i] = e}
            R == {i \in DOMAIN u : u[i] = e}
            shift == [i \in Q |-> m + i]
            V == {i \in R : i > m}
<1>1. /\ m \in Nat /\ Len(t) \in Nat
      /\ DOMAIN s = 1 .. m /\ DOMAIN t = 1 .. Len(t)
  BY LenProperties
<1>2. /\ u \in Seq(S) /\ Len(u) = m + Len(t)
      /\ \A i \in 1 .. m + Len(t) : u[i] = IF i <= m THEN s[i] ELSE t[i - m]
  BY ConcatProperties
<1>3. DOMAIN u = 1 .. m + Len(t)
  BY <1>2, LenProperties
<1>4. IsFiniteSet(P) /\ IsFiniteSet(Q)
  BY PlacesFinite
<1>5. R = P \cup V /\ P \cap V = {}
  BY <1>1, <1>2, <1>3
<1>6. Cardinality(V) = Cardinality(Q) /\ IsFiniteSet(V)
  <2>1. shift \in [Q -> V]
    <3>1. ASSUME NEW i \in Q PROVE m + i \in V
      <4>1. i \in 1 .. Len(t) /\ t[i] = e
        BY <1>1
      <4>2. m + i \in 1 .. m + Len(t) /\ ~(m + i <= m) /\ (m + i) - m = i
        BY <1>1, <4>1
      <4>. QED
        BY <1>1, <1>2, <1>3, <4>1, <4>2
    <3>. QED
      BY <3>1
  <2>2. \A i, j \in Q : shift[i] = shift[j] => i = j
    BY <1>1
  <2>3. \A v \in V : \E i \in Q : shift[i] = v
    <3>1. SUFFICES ASSUME NEW v \in V PROVE v - m \in Q /\ m + (v - m) = v
      BY <3>1
    <3>2. v \in 1 .. m + Len(t) /\ v > m /\ u[v] = e
      BY <1>3
    <3>3. v - m \in 1 .. Len(t) /\ ~(v <= m) /\ m + (v - m) = v
      BY <1>1, <3>2
    <3>. QED
      BY <1>1, <1>2, <3>2, <3>3
  <2>4. shift \in Bijection(Q, V)
    BY <2>1, <2>2, <2>3 DEF Bijection, Injection, Surjection, IsInjective
  <2>. QED
    BY <1>4, <2>4, FS_Bijection DEF ExistsBijection
<1>7. Cardinality(P \cup V) = Cardinality(P) + Cardinality(V)
  <2>1. Cardinality(P \cup V) = Cardinality(P) + Cardinality(V) - Cardinality(P \cap V)
    BY <1>4, <1>6, FS_Union
  <2>2. Cardinality(P \cap V) = 0
    BY <1>5, FS_EmptySet
  <2>3. Cardinality(P) \in Nat /\ Cardinality(V) \in Nat
    BY <1>4, <1>6, FS_CardinalityType
  <2>. HIDE DEF P, V
  <2>. QED
    BY <2>1, <2>2, <2>3
<1>8. /\ Places(s, e) = Cardinality(P) /\ Places(t, e) = Cardinality(Q)
      /\ Places(u, e) = Cardinality(R)
  BY DEF Places
<1>. HIDE DEF P, Q, R, V
<1>. QED
  BY <1>2, <1>5, <1>6, <1>7, <1>8

(* A sequence is its first element and its tail. *)
LEMMA PlacesTail ==
  ASSUME NEW S, NEW s \in Seq(S), s # <<>>, NEW e
  PROVE  /\ Tail(s) \in Seq(S) /\ s[1] \in S
         /\ Places(s, e) = Places(Tail(s), e) + IF s[1] = e THEN 1 ELSE 0
<1>1. /\ Tail(s) \in Seq(S) /\ Len(Tail(s)) = Len(s) - 1
      /\ \A i \in 1 .. Len(Tail(s)) : Tail(s)[i] = s[i + 1]
  BY HeadTailProperties
<1>2. Len(s) \in Nat \ {0} /\ s[1] \in S
  BY EmptySeq, ElementOfSeq
<1>3. <<s[1]>> \in Seq(S) /\ Len(<<s[1]>>) = 1 /\ <<s[1]>>[1] = s[1]
  BY <1>2
<1>. DEFINE one == <<s[1]>>
<1>4. s = one \o Tail(s)
  <2>1. /\ <<s[1]>> \o Tail(s) \in Seq(S)
        /\ Len(<<s[1]>> \o Tail(s)) = 1 + Len(Tail(s))
        /\ \A i \in 1 .. 1 + Len(Tail(s)) :
             (<<s[1]>> \o Tail(s))[i] = IF i <= 1 THEN <<s[1]>>[i] ELSE Tail(s)[i - 1]
    BY <1>1, <1>3, ConcatProperties
  <2>2. \A i \in 1 .. Len(s) : s[i] = (<<s[1]>> \o Tail(s))[i]
    <3>. TAKE i \in 1 .. Len(s)
    <3>1. i \in 1 .. 1 + Len(Tail(s))
      BY <1>1, <1>2
    <3>2. CASE i = 1
      BY <1>3, <2>1, <3>1, <3>2
    <3>3. CASE i # 1
      <4>1. ~(i <= 1) /\ i - 1 \in 1 .. Len(Tail(s)) /\ (i - 1) + 1 = i
        BY <1>1, <1>2, <3>3
      <4>. QED
        BY <1>1, <2>1, <3>1, <4>1
    <3>. QED
      BY <3>2, <3>3
  <2>3. Len(s) = Len(<<s[1]>> \o Tail(s))
    BY <1>1, <1>2, <2>1
  <2>. QED
    BY <2>1, <2>2, <2>3, SeqEqual
<1>5. Places(one, e) = IF s[1] = e THEN 1 ELSE 0
  BY PlacesOne
<1>6. one \in Seq(S)
  BY <1>3
<1>. DEFINE rest == Tail(s)
<1>7. rest \in Seq(S)
  BY <1>1
<1>8. s = one \o rest
  BY <1>4
<1>. HIDE DEF one, rest
<1>9. Places(one \o rest, e) = Places(one, e) + Places(rest, e)
  BY <1>6, <1>7, PlacesConcat
<1>10. Places(rest, e) \in Nat
  BY <1>7, PlacesNat
<1>11. Places(s, e) = Places(rest, e) + IF s[1] = e THEN 1 ELSE 0
  BY <1>5, <1>8, <1>9, <1>10
<1>. QED
  BY <1>1, <1>2, <1>11 DEF rest

-------------------------------------------------------------------------------
(* Nodes are finite trees: what Bases and Family are. *)

(* Nodes are finite trees: induction over a node takes the innermost node for *)
(* which something would not hold.                                            *)
LEMMA Innermost ==
  ASSUME NEW S \in SUBSET Nodes, S # {}
  PROVE  \E n \in S : \A m \in S : ~Includes(n, m)
BY NodesAreTrees

Continues(n) == "extends" \in DOMAIN n /\ "ref" \notin DOMAIN n
BasesOf(f, n) == (IF Continues(n) THEN f[n.extends] ELSE <<>>) \o <<n>>

(* Bases as far as it is defined on D. *)
BasesOn(D, f) ==
  /\ D \in SUBSET Nodes
  /\ \A n \in D : Continues(n) => n.extends \in D
  /\ f = [n \in D |-> BasesOf(f, n)]

(* Bases is defined by recursion on the tree: two functions that follow it
   agree, one exists for each node, hence for all of them together. *)
LEMMA BasesAgree ==
  ASSUME NEW D, NEW f, BasesOn(D, f), NEW E, NEW g, BasesOn(E, g)
  PROVE  \A n \in D \cap E : f[n] = g[n]
<1>. DEFINE T == {n \in D \cap E : f[n] # g[n]}
<1>1. SUFFICES ASSUME T # {} PROVE FALSE
  OBVIOUS
<1>2. T \in SUBSET Nodes
  BY DEF BasesOn
<1>3. PICK n \in T : \A m \in T : ~Includes(n, m)
  BY <1>1, <1>2, Innermost
<1>4. n \in D /\ n \in E /\ f[n] # g[n]
  BY <1>3
<1>5. f[n] = BasesOf(f, n) /\ g[n] = BasesOf(g, n)
  BY <1>4 DEF BasesOn
<1>6. CASE Continues(n)
  <2>1. n.extends \in D /\ n.extends \in E
    BY <1>4, <1>6 DEF BasesOn
  <2>2. Includes(n, n.extends)
    BY <1>6 DEF Includes, Continues
  <2>3. f[n.extends] = g[n.extends]
    BY <1>3, <2>1, <2>2
  <2>. QED
    BY <1>4, <1>5, <2>3 DEF BasesOf
<1>7. CASE ~Continues(n)
  BY <1>4, <1>5, <1>7 DEF BasesOf
<1>. QED
  BY <1>6, <1>7

LEMMA BasesSomewhere ==
  ASSUME NEW n \in Nodes
  PROVE  \E D, f : BasesOn(D, f) /\ n \in D
<1>. DEFINE T == {m \in Nodes : ~ \E D, f : BasesOn(D, f) /\ m \in D}
<1>1. SUFFICES ASSUME T # {} PROVE FALSE
  OBVIOUS
<1>2. PICK m \in T : \A i \in T : ~Includes(m, i)
  BY <1>1, Innermost
<1>3. m \in Nodes /\ ~ \E D, f : BasesOn(D, f) /\ m \in D
  BY <1>2
<1>4. CASE Continues(m)
  <2>1. m.extends \in Nodes /\ Includes(m, m.extends)
    BY <1>3, <1>4, NodesAreTrees DEF Continues, Includes
  <2>2. PICK D, f : BasesOn(D, f) /\ m.extends \in D
    BY <1>2, <2>1
  <2>. DEFINE E == D \cup {m}
              g == [n1 \in E |-> IF n1 = m THEN f[m.extends] \o <<m>> ELSE f[n1]]
  <2>3. m \notin D
    BY <1>3, <2>2
  <2>4. m.extends # m
    BY <2>2, <2>3
  <2>5. \A n1 \in D : f[n1] = BasesOf(f, n1) /\ (Continues(n1) => n1.extends \in D)
    BY <2>2 DEF BasesOn
  <2>6. \A n1 \in E : g[n1] = BasesOf(g, n1)
    <3>. TAKE n1 \in E
    <3>1. CASE n1 = m
      BY <1>4, <2>2, <2>4, <3>1 DEF BasesOf
    <3>2. CASE n1 # m
      <4>1. n1 \in D /\ g[n1] = f[n1]
        BY <3>2
      <4>2. Continues(n1) => g[n1.extends] = f[n1.extends]
        BY <2>3, <2>5, <4>1
      <4>. QED
        BY <2>5, <4>1, <4>2 DEF BasesOf
    <3>. QED
      BY <3>1, <3>2
  <2>7. BasesOn(E, g)
    <3>1. E \in SUBSET Nodes /\ \A n1 \in E : Continues(n1) => n1.extends \in E
      BY <1>3, <2>2, <2>5 DEF BasesOn
    <3>2. g = [n1 \in E |-> BasesOf(g, n1)]
      BY <2>6
    <3>. QED
      BY <3>1, <3>2 DEF BasesOn
  <2>. QED
    BY <1>3, <2>7
<1>5. CASE ~Continues(m)
  <2>. DEFINE g == [n1 \in {m} |-> <<>> \o <<m>>]
  <2>1. g = [n1 \in {m} |-> BasesOf(g, n1)]
    BY <1>5 DEF BasesOf
  <2>2. BasesOn({m}, g)
    BY <1>3, <1>5, <2>1 DEF BasesOn
  <2>. QED
    BY <1>3, <2>2
<1>. QED
  BY <1>4, <1>5

LEMMA BasesDefined == Bases = [n \in Nodes |-> BasesOf(Bases, n)]
<1>. DEFINE Is(f) == f = [n \in Nodes |-> BasesOf(f, n)]
            At(n) == CHOOSE b : \E D, f : BasesOn(D, f) /\ n \in D /\ b = f[n]
            F == [n \in Nodes |-> At(n)]
<1>1. ASSUME NEW D, NEW f, BasesOn(D, f), NEW n \in D
      PROVE  n \in Nodes /\ F[n] = f[n]
  <2>1. n \in Nodes
    BY <1>1 DEF BasesOn
  <2>2. PICK E, g : BasesOn(E, g) /\ n \in E /\ At(n) = g[n]
    BY <1>1
  <2>3. f[n] = g[n]
    BY <1>1, <2>2, BasesAgree
  <2>. QED
    BY <2>1, <2>2, <2>3
<1>. HIDE DEF F
<1>2. \A n \in Nodes : F[n] = BasesOf(F, n)
  <2>. TAKE n \in Nodes
  <2>1. PICK D, f : BasesOn(D, f) /\ n \in D
    BY BasesSomewhere
  <2>2. F[n] = f[n] /\ f[n] = BasesOf(f, n)
    BY <1>1, <2>1 DEF BasesOn
  <2>3. Continues(n) => F[n.extends] = f[n.extends]
    BY <1>1, <2>1 DEF BasesOn
  <2>. QED
    BY <2>2, <2>3 DEF BasesOf
<1>3. Is(F)
  BY <1>2 DEF F
<1>4. Bases = CHOOSE f : Is(f)
  BY DEF Bases, BasesOf, Continues
<1>. HIDE DEF Is
<1>5. Is(Bases)
  BY <1>3, <1>4
<1>. QED
  BY <1>5 DEF Is

(* The bases of a node are nodes, the last one itself. *)
LEMMA BasesTyped ==
  ASSUME NEW n \in Nodes
  PROVE  Bases[n] \in Seq(Nodes) /\ Bases[n] # <<>>
<1>. DEFINE Good(m) == Bases[m] \in Seq(Nodes) /\ Bases[m] # <<>>
            T == {m \in Nodes : ~Good(m)}
<1>1. SUFFICES ASSUME T # {} PROVE FALSE
  OBVIOUS
<1>2. PICK m \in T : \A i \in T : ~Includes(m, i)
  BY <1>1, Innermost
<1>3. m \in Nodes /\ Bases[m] = BasesOf(Bases, m)
  BY <1>2, BasesDefined
<1>. DEFINE before == IF Continues(m) THEN Bases[m.extends] ELSE <<>>
            one == <<m>>
<1>4. before \in Seq(Nodes)
  <2>1. CASE Continues(m)
    <3>1. m.extends \in Nodes /\ Includes(m, m.extends)
      BY <1>3, <2>1, NodesAreTrees DEF Continues, Includes
    <3>2. m.extends \notin T
      BY <1>2, <3>1
    <3>. QED
      BY <2>1, <3>1, <3>2
  <2>2. CASE ~Continues(m)
    BY <2>2, EmptySeq
  <2>. QED
    BY <2>1, <2>2
<1>5. one \in Seq(Nodes) /\ Len(one) = 1
  BY <1>3
<1>6. Bases[m] = before \o one
  BY <1>3 DEF BasesOf
<1>. HIDE DEF before, one
<1>7. Len(before) \in Nat
  BY <1>4, LenProperties
<1>8. Bases[m] \in Seq(Nodes) /\ Len(Bases[m]) = Len(before) + 1
  <2>1. before \o one \in Seq(Nodes) /\ Len(before \o one) = Len(before) + Len(one)
    BY <1>4, <1>5, ConcatProperties
  <2>. QED
    BY <1>5, <1>6, <2>1
<1>9. Bases[m] # <<>>
  <2>1. Len(<<>>) = 0
    BY EmptySeq
  <2>. QED
    BY <1>7, <1>8, <2>1
<1>. QED
  BY <1>2, <1>8, <1>9

-------------------------------------------------------------------------------
(* Families. *)

FamilyOf(f, n) ==
  {n} \cup (IF "extends" \in DOMAIN n THEN f[n.extends] ELSE {})
      \cup (IF "inner" \in DOMAIN n THEN f[n.inner] ELSE {})

Closed(S) == \A m \in S : \A i \in Nodes : Includes(m, i) => i \in S

(* Family in the same way. *)
LEMMA FamilyDefined == Family = [n \in Nodes |-> FamilyOf(Family, n)]
<1>. DEFINE Is(f) == f = [n \in Nodes |-> FamilyOf(f, n)]
            F == [n \in Nodes |-> {m \in Nodes : \A S \in SUBSET Nodes :
                                      n \in S /\ Closed(S) => m \in S}]
<1>1. \A n, m : Includes(n, m) <=> \/ "extends" \in DOMAIN n /\ n.extends = m
                                   \/ "inner" \in DOMAIN n /\ n.inner = m
  BY DEF Includes
<1>2. \A n \in Nodes : F[n] \in SUBSET Nodes /\ n \in F[n] /\ Closed(F[n])
  BY DEF Closed
<1>3. \A n \in Nodes : \A m : m \in F[n] <=>
         m \in Nodes /\ \A S \in SUBSET Nodes : n \in S /\ Closed(S) => m \in S
  OBVIOUS
<1>. HIDE DEF F
<1>4. \A n \in Nodes : \A m \in Nodes : Includes(n, m) => F[m] \subseteq F[n]
  BY <1>2, <1>3 DEF Closed
<1>5. \A n \in Nodes : F[n] = FamilyOf(F, n)
  <2>. TAKE n \in Nodes
  <2>. DEFINE G == FamilyOf(F, n)
  <2>1. /\ "extends" \in DOMAIN n => n.extends \in Nodes /\ Includes(n, n.extends)
        /\ "inner" \in DOMAIN n => n.inner \in Nodes /\ Includes(n, n.inner)
    BY <1>1, NodesAreTrees
  <2>2. \A x : x \in G <=> \/ x = n
                           \/ "extends" \in DOMAIN n /\ x \in F[n.extends]
                           \/ "inner" \in DOMAIN n /\ x \in F[n.inner]
    BY DEF FamilyOf
  <2>. HIDE DEF G
  <2>3. G \subseteq F[n]
    BY <1>2, <1>4, <2>1, <2>2
  <2>4. G \in SUBSET Nodes /\ n \in G
    BY <1>2, <2>2, <2>3
  <2>5. Closed(G)
    <3>. SUFFICES ASSUME NEW m \in G, NEW i \in Nodes, Includes(m, i) PROVE i \in G
      BY DEF Closed
    <3>1. CASE m = n
      <4>1. i \in F[i]
        BY <1>2
      <4>. QED
        BY <1>1, <2>2, <3>1, <4>1
    <3>2. CASE "extends" \in DOMAIN n /\ m \in F[n.extends]
      BY <1>2, <2>1, <2>2, <3>2 DEF Closed
    <3>3. CASE "inner" \in DOMAIN n /\ m \in F[n.inner]
      BY <1>2, <2>1, <2>2, <3>3 DEF Closed
    <3>. QED
      BY <2>2, <3>1, <3>2, <3>3
  <2>6. F[n] \subseteq G
    BY <1>3, <2>4, <2>5
  <2>. QED
    BY <2>3, <2>6 DEF G
<1>6. Is(F)
  BY <1>5 DEF F
<1>7. Family = CHOOSE f : Is(f)
  BY DEF Family, FamilyOf
<1>. HIDE DEF Is
<1>8. Is(Family)
  BY <1>6, <1>7
<1>. QED
  BY <1>8 DEF Is

(* A node is of its own family, and so is what it includes. *)
LEMMA FamilyMembers ==
  ASSUME NEW n \in Nodes, NEW x
  PROVE  x \in Family[n] <=> \/ x = n
                             \/ \E m \in Nodes : Includes(n, m) /\ x \in Family[m]
<1>1. /\ "extends" \in DOMAIN n => n.extends \in Nodes
      /\ "inner" \in DOMAIN n => n.inner \in Nodes
  BY NodesAreTrees
<1>2. Family[n] = FamilyOf(Family, n)
  BY FamilyDefined
<1>3. x \in Family[n] <=> \/ x = n
                          \/ "extends" \in DOMAIN n /\ x \in Family[n.extends]
                          \/ "inner" \in DOMAIN n /\ x \in Family[n.inner]
  BY <1>2 DEF FamilyOf
<1>. QED
  BY <1>1, <1>3 DEF Includes

LEMMA FamilyTyped ==
  ASSUME NEW n \in Nodes
  PROVE  n \in Family[n] /\ Family[n] \subseteq Nodes /\ IsFiniteSet(Family[n])
<1>. DEFINE T == {m \in Nodes : ~(Family[m] \subseteq Nodes)}
<1>1. T = {}
  <2>1. SUFFICES ASSUME T # {} PROVE FALSE
    OBVIOUS
  <2>2. PICK m \in T : \A i \in T : ~Includes(m, i)
    BY <2>1, Innermost
  <2>3. m \in Nodes /\ ~(Family[m] \subseteq Nodes)
    BY <2>2
  <2>4. PICK x \in Family[m] : x \notin Nodes
    BY <2>3
  <2>5. PICK i \in Nodes : Includes(m, i) /\ x \in Family[i]
    BY <2>3, <2>4, FamilyMembers
  <2>. QED
    BY <2>2, <2>4, <2>5
<1>2. Family[n] \in SUBSET Nodes
  BY <1>1
<1>3. IsFiniteSet(Family[n])
  BY <1>2, NodesAreTrees, FS_Subset
<1>4. n \in Family[n]
  BY FamilyMembers
<1>. QED
  BY <1>2, <1>3, <1>4

(* What is inside what is inside a node is inside it. *)
LEMMA FamilyTransitive ==
  ASSUME NEW n \in Nodes, NEW m \in Family[n]
  PROVE  Family[m] \subseteq Family[n]
<1>. DEFINE T == {k \in Nodes : \E i \in Family[k] : ~(Family[i] \subseteq Family[k])}
<1>1. SUFFICES ASSUME T # {} PROVE FALSE
  OBVIOUS
<1>2. PICK k \in T : \A i \in T : ~Includes(k, i)
  BY <1>1, Innermost
<1>3. k \in Nodes
  BY <1>2
<1>4. PICK i \in Family[k] : ~(Family[i] \subseteq Family[k])
  BY <1>2
<1>5. PICK j \in Nodes : Includes(k, j) /\ i \in Family[j]
  BY <1>3, <1>4, FamilyMembers
<1>6. Family[i] \subseteq Family[j]
  BY <1>2, <1>5
<1>7. Family[j] \subseteq Family[k]
  BY <1>3, <1>5, FamilyMembers
<1>. QED
  BY <1>4, <1>6, <1>7

(* What is inside a node, and not the node itself, is included in something
   inside the node; and nothing includes what is around it. *)
LEMMA FamilyHolder ==
  ASSUME NEW n \in Nodes, NEW x \in Family[n], x # n
  PROVE  \E m \in Family[n] : Includes(m, x)
<1>. DEFINE T == {k \in Nodes : \E i \in Family[k] :
                    i # k /\ ~ \E m \in Family[k] : Includes(m, i)}
<1>1. SUFFICES ASSUME T # {} PROVE FALSE
  OBVIOUS
<1>2. PICK k \in T : \A i \in T : ~Includes(k, i)
  BY <1>1, Innermost
<1>3. k \in Nodes
  BY <1>2
<1>4. PICK i \in Family[k] : i # k /\ ~ \E m \in Family[k] : Includes(m, i)
  BY <1>2
<1>5. PICK j \in Nodes : Includes(k, j) /\ i \in Family[j]
  BY <1>3, <1>4, FamilyMembers
<1>6. k \in Family[k] /\ Family[j] \subseteq Family[k]
  BY <1>3, <1>5, FamilyMembers
<1>7. CASE i = j
  BY <1>4, <1>5, <1>6, <1>7
<1>8. CASE i # j
  <2>1. PICK m \in Family[j] : Includes(m, i)
    BY <1>2, <1>5, <1>8
  <2>. QED
    BY <1>4, <1>6, <2>1
<1>. QED
  BY <1>7, <1>8

(* Two nodes that hold each other are one. *)
LEMMA FamilyOrdered ==
  ASSUME NEW n \in Nodes, NEW m \in Nodes, Includes(n, m)
  PROVE  n \notin Family[m]
<1>1. SUFFICES ASSUME n \in Family[m] PROVE FALSE
  OBVIOUS
<1>. DEFINE S == {k \in Nodes : k \in Family[m] /\ n \in Family[k]}
<1>2. m \in S /\ S \in SUBSET Nodes
  BY <1>1, FamilyTyped
<1>3. PICK k \in S : \A i \in S : ~Includes(k, i)
  BY <1>2, Innermost
<1>4. k \in Nodes /\ k \in Family[m] /\ n \in Family[k]
  BY <1>3
<1>5. CASE k = n
  BY <1>2, <1>3, <1>5
<1>6. CASE k # n
  <2>1. PICK j \in Nodes : Includes(k, j) /\ n \in Family[j]
    BY <1>4, <1>6, FamilyMembers
  <2>2. j \in Family[k]
    BY <1>4, <2>1, FamilyTyped, FamilyMembers
  <2>3. j \in Family[m]
    BY <1>4, <2>2, FamilyTransitive
  <2>. QED
    BY <1>3, <2>1, <2>3
<1>. QED
  BY <1>5, <1>6

-------------------------------------------------------------------------------
(* The heap, and the steps on it that make, change and free a wrapper. *)

Element == [text : Positive, node : Nodes]
Wrapper == [cnt : Positive, elements : Seq(Element), map : Nat]

IsHeap(h) ==
  /\ h = [counts |-> h.counts, wraps |-> h.wraps, maps |-> h.maps, leaked |-> h.leaked]
  /\ IsFiniteSet(DOMAIN h.counts) /\ DOMAIN h.counts \subseteq Element
  /\ IsFiniteSet(DOMAIN h.wraps) /\ DOMAIN h.wraps \subseteq Positive
  /\ \A w \in DOMAIN h.wraps : h.wraps[w] \in Wrapper
  /\ IsFiniteSet(h.maps) /\ h.maps \subseteq Positive
  /\ h.leaked \in Seq(Element)

(* Elements released one after the other. *)
ReleaseSteps(counts, es, f) ==
  f = [n \in 0 .. Len(es) |-> IF n = 0 THEN counts ELSE Released(f[n - 1], es[n])]

LEMMA ReleaseStepsExist ==
  ASSUME NEW S, NEW es \in Seq(S), NEW counts
  PROVE  \E f : ReleaseSteps(counts, es, f)
<1>. DEFINE To(f, k) == f = [n \in 0 .. k |-> IF n = 0 THEN counts
                                              ELSE Released(f[n - 1], es[n])]
            T == {k \in Nat : ~ \E f : To(f, k)}
<1>1. T = {}
  <2>1. SUFFICES ASSUME T # {} PROVE FALSE
    OBVIOUS
  <2>2. PICK k \in T : \A j \in T : ~(j < k)
    BY <2>1, LeastOf
  <2>3. k \in Nat /\ ~ \E f : To(f, k)
    BY <2>2
  <2>4. CASE k = 0
    <3>. DEFINE f == [n \in 0 .. 0 |-> counts]
    <3>1. To(f, 0)
      OBVIOUS
    <3>. QED
      BY <2>3, <2>4, <3>1
  <2>5. CASE k # 0
    <3>1. k - 1 \in Nat /\ k - 1 < k
      BY <2>3, <2>5
    <3>2. PICK f : To(f, k - 1)
      BY <2>2, <3>1
    <3>. DEFINE g == [n \in 0 .. k |-> IF n = k THEN Released(f[k - 1], es[k]) ELSE f[n]]
    <3>3. \A n \in 0 .. k - 1 : f[n] = IF n = 0 THEN counts ELSE Released(f[n - 1], es[n])
      BY <3>2
    <3>4. \A n \in 0 .. k : g[n] = IF n = 0 THEN counts ELSE Released(g[n - 1], es[n])
      <4>. TAKE n \in 0 .. k
      <4>1. CASE n = k
        BY <2>3, <2>5, <3>1, <4>1
      <4>2. CASE n # k /\ n # 0
        <5>1. n \in 0 .. k - 1 /\ n - 1 \in 0 .. k /\ n - 1 # k
          BY <2>3, <4>2
        <5>. QED
          BY <3>3, <4>2, <5>1
      <4>3. CASE n # k /\ n = 0
        BY <2>3, <3>1, <3>3, <4>3
      <4>. QED
        BY <4>1, <4>2, <4>3
    <3>5. To(g, k)
      BY <3>4
    <3>. QED
      BY <2>3, <3>5
  <2>. QED
    BY <2>4, <2>5
<1>2. Len(es) \in Nat
  BY LenProperties
<1>. QED
  BY <1>1, <1>2 DEF ReleaseSteps

LEMMA AllReleasedSteps ==
  ASSUME NEW S, NEW es \in Seq(S), NEW counts
  PROVE  \E f : /\ ReleaseSteps(counts, es, f)
                /\ AllReleased(counts, es) = f[Len(es)]
<1>. DEFINE f == CHOOSE g : ReleaseSteps(counts, es, g)
<1>1. ReleaseSteps(counts, es, f)
  BY ReleaseStepsExist
<1>2. AllReleased(counts, es) = f[Len(es)]
  BY DEF AllReleased, ReleaseSteps
<1>. QED
  BY <1>1, <1>2

(* A release adds no element. *)
LEMMA AllReleasedShrinks ==
  ASSUME NEW S, NEW es \in Seq(S), NEW counts
  PROVE  DOMAIN AllReleased(counts, es) \subseteq DOMAIN counts
<1>1. PICK f : ReleaseSteps(counts, es, f) /\ AllReleased(counts, es) = f[Len(es)]
  BY AllReleasedSteps
<1>2. Len(es) \in Nat
  BY LenProperties
<1>. DEFINE T == {n \in 0 .. Len(es) : ~(DOMAIN f[n] \subseteq DOMAIN counts)}
<1>3. T = {}
  <2>1. SUFFICES ASSUME T # {} PROVE FALSE
    OBVIOUS
  <2>2. PICK n \in T : \A m \in T : ~(m < n)
    <3>1. T \subseteq Nat
      BY <1>2
    <3>. HIDE DEF T
    <3>. QED
      BY <2>1, <3>1, LeastOf
  <2>3. n \in 0 .. Len(es) /\ f[n] = IF n = 0 THEN counts ELSE Released(f[n - 1], es[n])
    BY <1>1, <2>2 DEF ReleaseSteps
  <2>4. n # 0
    BY <2>2, <2>3
  <2>5. n - 1 \in 0 .. Len(es) /\ n - 1 < n
    BY <1>2, <2>3, <2>4
  <2>6. DOMAIN f[n - 1] \subseteq DOMAIN counts
    BY <2>2, <2>5
  <2>7. DOMAIN Released(f[n - 1], es[n]) \subseteq DOMAIN f[n - 1]
    BY DEF Released
  <2>. QED
    BY <2>2, <2>3, <2>4, <2>6, <2>7
<1>. QED
  BY <1>1, <1>2, <1>3

-------------------------------------------------------------------------------
(* What each operation leaves of a heap. *)

(* Only the counters change. *)
LEMMA NewCounts ==
  ASSUME NEW h, IsHeap(h), NEW counts, DOMAIN counts \subseteq DOMAIN h.counts
  PROVE  /\ IsHeap(SetCounts(h, counts))
         /\ SetCounts(h, counts).counts = counts
         /\ SetCounts(h, counts).wraps = h.wraps
         /\ SetCounts(h, counts).maps = h.maps
         /\ SetCounts(h, counts).leaked = h.leaked
<1>1. h = [counts |-> h.counts, wraps |-> h.wraps, maps |-> h.maps, leaked |-> h.leaked]
  BY DEF IsHeap
<1>2. SetCounts(h, counts) = [counts |-> counts, wraps |-> h.wraps, maps |-> h.maps,
                              leaked |-> h.leaked]
  BY <1>1 DEF SetCounts
<1>3. IsFiniteSet(DOMAIN counts)
  BY FS_Subset DEF IsHeap
<1>. QED
  BY <1>2, <1>3 DEF IsHeap

(* One wrapper gets another value. *)
Rewrapped(h, k, w, x) ==
  /\ k.counts = h.counts /\ k.maps = h.maps /\ k.leaked = h.leaked
  /\ DOMAIN k.wraps = DOMAIN h.wraps /\ k.wraps[w] = x
  /\ \A v \in DOMAIN h.wraps \ {w} : k.wraps[v] = h.wraps[v]

(* One wrapper changes. *)
LEMMA RewrappedHeap ==
  ASSUME NEW h, IsHeap(h), NEW w \in DOMAIN h.wraps, NEW x \in Wrapper,
         NEW k, k = [h EXCEPT !.wraps = [h.wraps EXCEPT ![w] = x]]
  PROVE  IsHeap(k) /\ Rewrapped(h, k, w, x)
<1>1. h = [counts |-> h.counts, wraps |-> h.wraps, maps |-> h.maps, leaked |-> h.leaked]
  BY DEF IsHeap
<1>2. k = [counts |-> h.counts, wraps |-> [h.wraps EXCEPT ![w] = x], maps |-> h.maps,
           leaked |-> h.leaked]
  BY <1>1
<1>. DEFINE ws == [h.wraps EXCEPT ![w] = x]
<1>3. /\ DOMAIN ws = DOMAIN h.wraps /\ ws[w] = x
      /\ \A v \in DOMAIN h.wraps \ {w} : ws[v] = h.wraps[v]
  OBVIOUS
<1>. HIDE DEF ws
<1>4. k.counts = h.counts /\ k.wraps = ws /\ k.maps = h.maps /\ k.leaked = h.leaked
  BY <1>2 DEF ws
<1>5. \A v \in DOMAIN ws : ws[v] \in Wrapper
  BY <1>3 DEF IsHeap
<1>. QED
  BY <1>2, <1>3, <1>4, <1>5 DEF IsHeap, Rewrapped, ws

LEMMA CountedHeap ==
  ASSUME NEW h, IsHeap(h), NEW w \in DOMAIN h.wraps, NEW c \in Positive
  PROVE  /\ IsHeap(Counted(h, w, c))
         /\ Rewrapped(h, Counted(h, w, c), w,
                      [cnt |-> c, elements |-> h.wraps[w].elements, map |-> h.wraps[w].map])
<1>. DEFINE x == [cnt |-> c, elements |-> h.wraps[w].elements, map |-> h.wraps[w].map]
<1>1. h.wraps[w] \in Wrapper
  BY DEF IsHeap
<1>2. x \in Wrapper /\ [h.wraps[w] EXCEPT !.cnt = c] = x
  BY <1>1 DEF Wrapper
<1>3. Counted(h, w, c) = [h EXCEPT !.wraps = [h.wraps EXCEPT ![w] = x]]
  <2>1. h = [counts |-> h.counts, wraps |-> h.wraps, maps |-> h.maps, leaked |-> h.leaked]
    BY DEF IsHeap
  <2>2. Counted(h, w, c) =
          [h EXCEPT !.wraps = [h.wraps EXCEPT ![w] = [h.wraps[w] EXCEPT !.cnt = c]]]
    BY <2>1, SMT DEF Counted
  <2>. QED
    BY <1>2, <2>2
<1>. HIDE DEF x
<1>4. IsHeap(Counted(h, w, c)) /\ Rewrapped(h, Counted(h, w, c), w, x)
  BY <1>2, <1>3, RewrappedHeap
<1>. QED
  BY <1>4 DEF x

LEMMA ElementsSet ==
  ASSUME NEW h, IsHeap(h), NEW w \in DOMAIN h.wraps, NEW es \in Seq(Element)
  PROVE  /\ IsHeap(SetElements(h, w, es))
         /\ Rewrapped(h, SetElements(h, w, es), w,
                      [cnt |-> h.wraps[w].cnt, elements |-> es, map |-> h.wraps[w].map])
<1>. DEFINE x == [cnt |-> h.wraps[w].cnt, elements |-> es, map |-> h.wraps[w].map]
<1>1. h.wraps[w] \in Wrapper
  BY DEF IsHeap
<1>2. x \in Wrapper /\ [h.wraps[w] EXCEPT !.elements = es] = x
  BY <1>1 DEF Wrapper
<1>3. SetElements(h, w, es) = [h EXCEPT !.wraps = [h.wraps EXCEPT ![w] = x]]
  <2>1. h = [counts |-> h.counts, wraps |-> h.wraps, maps |-> h.maps, leaked |-> h.leaked]
    BY DEF IsHeap
  <2>2. SetElements(h, w, es) =
          [h EXCEPT !.wraps = [h.wraps EXCEPT ![w] = [h.wraps[w] EXCEPT !.elements = es]]]
    BY <2>1, SMT DEF SetElements
  <2>. QED
    BY <1>2, <2>2
<1>. HIDE DEF x
<1>4. IsHeap(SetElements(h, w, es)) /\ Rewrapped(h, SetElements(h, w, es), w, x)
  BY <1>2, <1>3, RewrappedHeap
<1>. QED
  BY <1>4 DEF x

(* A new wrapper. *)
Wraps(h, k, w, x) ==
  /\ w \in Positive /\ w \notin DOMAIN h.wraps
  /\ k.leaked = h.leaked
  /\ DOMAIN k.wraps = DOMAIN h.wraps \cup {w} /\ k.wraps[w] = x
  /\ \A v \in DOMAIN h.wraps : k.wraps[v] = h.wraps[v]

(* One wrapper is made. *)
LEMMA WrappedHeap ==
  ASSUME NEW h, IsHeap(h), NEW es \in Seq(Element), NEW map \in Nat
  PROVE  /\ IsHeap(Wrapped(h, es, map))
         /\ Wraps(h, Wrapped(h, es, map), FreeWrap(h),
                  [cnt |-> 1, elements |-> es, map |-> map])
         /\ Wrapped(h, es, map).counts = h.counts
         /\ Wrapped(h, es, map).maps = h.maps
<1>. DEFINE x == [cnt |-> 1, elements |-> es, map |-> map]
            w == FreeWrap(h)
            ws == Put(h.wraps, w, x)
            k == Wrapped(h, es, map)
<1>1. w \in Positive /\ w \notin DOMAIN h.wraps
  BY UnusedIsFree DEF IsHeap, FreeWrap
<1>2. x \in Wrapper
  BY DEF Wrapper, Positive
<1>3. k = [counts |-> h.counts, wraps |-> ws, maps |-> h.maps, leaked |-> h.leaked]
  <2>1. h = [counts |-> h.counts, wraps |-> h.wraps, maps |-> h.maps, leaked |-> h.leaked]
    BY DEF IsHeap
  <2>2. k = [h EXCEPT !.wraps = ws]
    BY Zenon DEF Wrapped
  <2>. HIDE DEF ws, k
  <2>. QED
    BY <2>1, <2>2
<1>. HIDE DEF x, w
<1>4. /\ DOMAIN ws = DOMAIN h.wraps \cup {w} /\ ws[w] = x
      /\ \A v \in DOMAIN h.wraps : ws[v] = h.wraps[v]
  BY <1>1 DEF Put
<1>5. IsFiniteSet(DOMAIN h.wraps \cup {w})
  BY FS_AddElement DEF IsHeap
<1>. HIDE DEF ws, k
<1>6. \A v \in DOMAIN ws : ws[v] \in Wrapper
  BY <1>2, <1>4 DEF IsHeap
<1>7. IsHeap(k)
  BY <1>1, <1>3, <1>4, <1>5, <1>6 DEF IsHeap
<1>8. Wraps(h, k, w, x)
  BY <1>1, <1>3, <1>4 DEF Wraps
<1>. QED
  BY <1>3, <1>7, <1>8 DEF x, w, k

(* The elements of a text that is parsed. *)
Content(number, text) == [text : {number}, node : Family[text]]

(* A text has finitely many elements. *)
LEMMA ContentFinite ==
  ASSUME NEW number \in Positive, NEW t \in Nodes
  PROVE  /\ IsFiniteSet(Content(number, t)) /\ Content(number, t) \subseteq Element
         /\ [text |-> number, node |-> t] \in Content(number, t)
<1>. DEFINE f == [n \in Family[t] |-> [text |-> number, node |-> n]]
<1>1. IsFiniteSet(Family[t]) /\ Family[t] \subseteq Nodes /\ t \in Family[t]
  BY FamilyTyped
<1>2. f \in Surjection(Family[t], Content(number, t))
  BY DEF Surjection, Content
<1>3. IsFiniteSet(Content(number, t))
  BY <1>1, <1>2, FS_Surjection
<1>. QED
  BY <1>1, <1>3 DEF Content, Element

(* A text is parsed: its number is not used, its elements have one reference
   each, and a wrapper holds the outermost. *)
ParsedAs(h, k, t, mapped, number, w) ==
  /\ number \in Positive
  /\ number \notin h.maps /\ \A e \in DOMAIN h.counts : e.text # number
  /\ DOMAIN k.counts = DOMAIN h.counts \cup Content(number, t)
  /\ \A e \in DOMAIN k.counts : k.counts[e] = IF e \in Content(number, t) THEN 1
                                              ELSE h.counts[e]
  /\ k.maps = h.maps \cup (IF mapped THEN {number} ELSE {})
  /\ Wraps(h, k, w, [cnt |-> 1, elements |-> <<[text |-> number, node |-> t]>>,
                     map |-> IF mapped THEN number ELSE 0])

(* The number of a text is new to the maps and to the elements. *)
LEMMA TextNumber ==
  ASSUME NEW h, IsHeap(h)
  PROVE  /\ FreeText(h) \in Positive /\ FreeText(h) \notin h.maps
         /\ \A e \in DOMAIN h.counts : e.text # FreeText(h)
<1>. DEFINE ts == {e.text : e \in DOMAIN h.counts}
            f == [e \in DOMAIN h.counts |-> e.text]
<1>1. f \in Surjection(DOMAIN h.counts, ts)
  BY DEF Surjection
<1>2. IsFiniteSet(ts)
  BY <1>1, FS_Surjection DEF IsHeap
<1>3. IsFiniteSet(h.maps \cup ts)
  BY <1>2, FS_Union DEF IsHeap
<1>4. FreeText(h) \in Positive /\ FreeText(h) \notin h.maps \cup ts
  BY <1>3, UnusedIsFree DEF FreeText
<1>. QED
  BY <1>4

LEMMA ParsedHeap ==
  ASSUME NEW h, IsHeap(h), NEW t \in Texts, NEW mapped \in BOOLEAN
  PROVE  /\ IsHeap(Parsed(h, t, mapped))
         /\ ParsedAs(h, Parsed(h, t, mapped), t, mapped, FreeText(h), FreeWrap(h))
<1>. DEFINE number == FreeText(h)
            all == [text : {number}, node : Family[t]]
            counts == [e \in DOMAIN h.counts \cup all |->
                         IF e \in all THEN 1 ELSE h.counts[e]]
            maps == h.maps \cup (IF mapped THEN {number} ELSE {})
            g == [counts |-> counts, wraps |-> h.wraps, maps |-> maps, leaked |-> h.leaked]
            e1 == [text |-> number, node |-> t]
            map == IF mapped THEN number ELSE 0
            k == Parsed(h, t, mapped)
<1>1. t \in Nodes
  BY StoreConstants
<1>2. /\ number \in Positive /\ number \notin h.maps
      /\ \A e \in DOMAIN h.counts : e.text # number
  BY TextNumber
<1>3. /\ IsFiniteSet(all) /\ all \subseteq Element /\ e1 \in all /\ all = Content(number, t)
  <2>1. all = Content(number, t)
    BY DEF Content
  <2>. QED
    BY <1>1, <1>2, <2>1, ContentFinite, Zenon
<1>4. k = Wrapped(g, <<e1>>, map)
  BY Zenon DEF Parsed
<1>5. /\ FreeWrap(g) = FreeWrap(h) /\ g.counts = counts /\ g.wraps = h.wraps
      /\ g.maps = maps /\ g.leaked = h.leaked
      /\ g = [counts |-> g.counts, wraps |-> g.wraps, maps |-> g.maps, leaked |-> g.leaked]
  <2>. HIDE DEF counts, maps
  <2>. QED
    BY DEF FreeWrap
<1>6. IsFiniteSet(maps) /\ maps \subseteq Positive
  BY <1>2, FS_AddElement, FS_Union, FS_EmptySet DEF IsHeap
<1>7. /\ DOMAIN counts = DOMAIN h.counts \cup all
      /\ \A e \in DOMAIN counts : counts[e] = IF e \in all THEN 1 ELSE h.counts[e]
  OBVIOUS
<1>8. IsFiniteSet(DOMAIN h.counts \cup all)
  BY <1>3, FS_Union DEF IsHeap
<1>9. <<e1>> \in Seq(Element) /\ map \in Nat
  BY <1>2, <1>3 DEF Positive
<1>. HIDE DEF number, all, counts, maps, g, e1, map, k
<1>10. IsHeap(g)
  BY <1>3, <1>5, <1>6, <1>7, <1>8 DEF IsHeap
<1>. DEFINE es == <<e1>>
            x == [cnt |-> 1, elements |-> es, map |-> map]
<1>. HIDE DEF es
<1>11. /\ IsHeap(k) /\ Wraps(g, k, FreeWrap(g), x)
       /\ k.counts = g.counts /\ k.maps = g.maps
  BY <1>4, <1>9, <1>10, WrappedHeap DEF es
<1>. HIDE DEF x
<1>12. Wraps(h, k, FreeWrap(h), x)
  BY <1>5, <1>11 DEF Wraps
<1>13. k.counts = counts /\ k.maps = maps
  BY <1>5, <1>11
<1>14. ParsedAs(h, k, t, mapped, number, FreeWrap(h))
  BY <1>2, <1>3, <1>7, <1>12, <1>13 DEF ParsedAs, x, es, e1, map, maps
<1>. QED
  BY <1>11, <1>14 DEF k, number

(* A reference to a wrapper is given up. *)
Unwrapped(h, k, w) ==
  /\ k.leaked = h.leaked
  /\ IF h.wraps[w].cnt > 1
     THEN /\ k.counts = h.counts
          /\ Rewrapped(h, k, w, [cnt |-> h.wraps[w].cnt - 1,
                                 elements |-> h.wraps[w].elements, map |-> h.wraps[w].map])
     ELSE /\ k.counts = AllReleased(h.counts, h.wraps[w].elements)
          /\ DOMAIN k.wraps = DOMAIN h.wraps \ {w}
          /\ \A v \in DOMAIN k.wraps : k.wraps[v] = h.wraps[v]
          /\ k.maps = h.maps \ {h.wraps[w].map}

(* A reference less: the counter goes down, or the wrapper goes. *)
LEMMA UnrefHeap ==
  ASSUME NEW h, IsHeap(h), NEW w \in DOMAIN h.wraps
  PROVE  IsHeap(Unref(h, w)) /\ Unwrapped(h, Unref(h, w), w)
<1>. DEFINE c == h.wraps[w].cnt
            es == h.wraps[w].elements
            k == Unref(h, w)
<1>1. c \in Positive /\ es \in Seq(Element) /\ h.wraps[w] \in Wrapper
  BY DEF IsHeap, Wrapper
<1>2. CASE c > 1
  <2>1. k = Counted(h, w, c - 1) /\ c - 1 \in Positive
    BY <1>1, <1>2 DEF Unref, Positive
  <2>2. /\ IsHeap(k)
        /\ Rewrapped(h, k, w, [cnt |-> c - 1, elements |-> es, map |-> h.wraps[w].map])
    BY <2>1, CountedHeap
  <2>. QED
    BY <1>2, <2>2 DEF Unwrapped, Rewrapped
<1>3. CASE ~(c > 1)
  <2>. DEFINE counts == AllReleased(h.counts, es)
              ws == Drop(h.wraps, w)
              maps == h.maps \ {h.wraps[w].map}
  <2>1. k = [counts |-> counts, wraps |-> ws, maps |-> maps, leaked |-> h.leaked]
    BY <1>3, Zenon DEF Unref
  <2>2. /\ DOMAIN ws = DOMAIN h.wraps \ {w}
        /\ \A v \in DOMAIN ws : ws[v] = h.wraps[v]
    BY DEF Drop
  <2>3. IsFiniteSet(DOMAIN h.wraps \ {w}) /\ IsFiniteSet(maps) /\ maps \subseteq Positive
    BY FS_RemoveElement DEF IsHeap
  <2>4. DOMAIN counts \subseteq DOMAIN h.counts
    BY <1>1, AllReleasedShrinks
  <2>5. IsFiniteSet(DOMAIN counts) /\ DOMAIN counts \subseteq Element
    BY <2>4, FS_Subset DEF IsHeap
  <2>. HIDE DEF counts, ws, maps, k
  <2>6. IsHeap(k)
    BY <2>1, <2>2, <2>3, <2>5 DEF IsHeap
  <2>. QED
    BY <1>3, <2>1, <2>2, <2>6 DEF Unwrapped, k, counts, maps
<1>. QED
  BY <1>2, <1>3

-------------------------------------------------------------------------------
(* What a resolver answers, and the reference that takes it over. *)

(* A splice keeps all elements of both arrays. *)
LEMMA Spliced ==
  ASSUME NEW S, NEW s \in Seq(S), NEW t \in Seq(S)
  PROVE  /\ SpliceAppend(s, t) \in Seq(S)
         /\ \A e : Places(SpliceAppend(s, t), e) = Places(s, e) + Places(t, e)
         /\ s # <<>> \/ t # <<>> => SpliceAppend(s, t) # <<>>
<1>. DEFINE u == SpliceAppend(s, t)
<1>1. \A e : Places(s, e) \in Nat /\ Places(t, e) \in Nat
  BY PlacesNat
<1>2. CASE s = <<>>
  <2>1. u = t /\ \A e : Places(s, e) = 0
    BY <1>2, PlacesEmpty DEF SpliceAppend
  <2>. QED
    BY <1>1, <1>2, <2>1
<1>3. CASE s # <<>>
  <2>. DEFINE f == Front(s)
              one == <<Last(s)>>
  <2>1. /\ f \in Seq(S) /\ Last(s) \in S
        /\ \A e : Places(s, e) = Places(f, e) + IF Last(s) = e THEN 1 ELSE 0
    BY <1>3, PlacesFront
  <2>2. /\ one \in Seq(S) /\ one # <<>>
        /\ \A e : Places(one, e) = IF Last(s) = e THEN 1 ELSE 0
    BY <2>1, PlacesOne
  <2>3. u = (f \o t) \o one
    BY <1>3, Zenon DEF SpliceAppend
  <2>. HIDE DEF f, one, u
  <2>4. f \o t \in Seq(S) /\ \A e : Places(f \o t, e) = Places(f, e) + Places(t, e)
    BY <2>1, PlacesConcat
  <2>. DEFINE ft == f \o t
  <2>. HIDE DEF ft
  <2>5. ft \in Seq(S) /\ u = ft \o one
    BY <2>3, <2>4 DEF ft
  <2>6. /\ ft \o one \in Seq(S)
        /\ \A e : Places(ft \o one, e) = Places(ft, e) + Places(one, e)
    BY <2>2, <2>5, PlacesConcat
  <2>7. ft \o one # <<>>
    BY <2>2, <2>5, ConcatEqualIffEmpty
  <2>8. \A e : Places(ft, e) = Places(f, e) + Places(t, e)
    BY <2>4 DEF ft
  <2>9. \A e : Places(f, e) \in Nat
    BY <2>1, PlacesNat
  <2>10. \A e : Places(u, e) = Places(s, e) + Places(t, e)
    <3>. TAKE e
    <3>. DEFINE x == IF Last(s) = e THEN 1 ELSE 0
    <3>1. x \in Nat /\ Places(one, e) = x /\ Places(s, e) = Places(f, e) + x
      BY <2>1, <2>2
    <3>. HIDE DEF x
    <3>2. Places(u, e) = Places(f, e) + Places(t, e) + x
      BY <2>5, <2>6, <2>8, <3>1
    <3>. QED
      BY <1>1, <2>9, <3>1, <3>2
  <2>. QED
    BY <2>5, <2>6, <2>7, <2>10 DEF u
<1>. QED
  BY <1>2, <1>3

-------------------------------------------------------------------------------
(* What a resolver does, and what a resolution leaves alone. *)

LEMMA ResolverKinds ==
  ASSUME NEW D, NEW r \in Resolvers(D)
  PROVE  \/ r.does = "fail"
         \/ r.does = "parse" /\ r.text \in Texts
         \/ r.does = "lend" /\ r.schema \in D
BY DEF Resolvers

Lending(r, w) == r.does = "lend" /\ r.schema = w

Kept(h, k, r) ==
  /\ DOMAIN k.wraps = DOMAIN h.wraps /\ k.maps = h.maps
  /\ \A w \in DOMAIN h.wraps :
       /\ k.wraps[w].cnt = h.wraps[w].cnt /\ k.wraps[w].map = h.wraps[w].map
       /\ ~Lending(r, w) => k.wraps[w].elements = h.wraps[w].elements

LEMMA KeptThrough ==
  ASSUME NEW r, NEW h, NEW k, Kept(h, k, r), NEW l, Kept(k, l, r)
  PROVE  Kept(h, l, r)
BY DEF Kept

(* The schema a resolver answers with has a reference more than before. *)
LEMMA Answers ==
  ASSUME NEW h, IsHeap(h), NEW r \in Resolvers(DOMAIN h.wraps), r.does # "fail",
         NEW b, b = Answered(h, r).heap, NEW w, w = Answered(h, r).schema
  PROVE  /\ IsHeap(b) /\ b.leaked = h.leaked
         /\ r.does = "parse" => /\ r.text \in Texts
                                /\ ParsedAs(h, b, r.text, FALSE, FreeText(h), w)
         /\ r.does = "lend" => /\ w = r.schema /\ w \in DOMAIN h.wraps
                               /\ Rewrapped(h, b, w, [cnt |-> h.wraps[w].cnt + 1,
                                                      elements |-> h.wraps[w].elements,
                                                      map |-> h.wraps[w].map])
         /\ r.does \in {"parse", "lend"}
<1>1. CASE r.does = "parse"
  <2>1. r.text \in Texts /\ b = Parsed(h, r.text, FALSE) /\ w = FreeWrap(h)
    BY <1>1, ResolverKinds DEF Answered
  <2>2. IsHeap(b) /\ ParsedAs(h, b, r.text, FALSE, FreeText(h), w)
    BY <2>1, ParsedHeap
  <2>3. b.leaked = h.leaked
    BY <2>2 DEF ParsedAs, Wraps
  <2>. QED
    BY <1>1, <2>1, <2>2, <2>3
<1>2. CASE r.does = "lend"
  <2>1. w = r.schema /\ w \in DOMAIN h.wraps /\ b = Counted(h, w, h.wraps[w].cnt + 1)
    BY <1>2, ResolverKinds DEF Answered, Ref
  <2>2. h.wraps[w].cnt + 1 \in Positive
    BY <2>1 DEF IsHeap, Wrapper, Positive
  <2>. QED
    BY <1>2, <2>1, <2>2, CountedHeap DEF Rewrapped
<1>. QED
  BY <1>1, <1>2, ResolverKinds

(* The wrapper that was handed out is given back, its elements taken. *)
Emptied(b, g, w, counts) ==
  /\ g.counts = counts /\ g.maps = b.maps /\ g.leaked = b.leaked
  /\ DOMAIN g.wraps = DOMAIN b.wraps
  /\ g.wraps[w].cnt = b.wraps[w].cnt /\ g.wraps[w].elements = <<>>
  /\ g.wraps[w].map = b.wraps[w].map
  /\ \A v \in DOMAIN b.wraps \ {w} : g.wraps[v] = b.wraps[v]

(* The schema is given back without its elements: all wrappers that were there
   before the answer have their counters again. *)
LEMMA GivenBack ==
  ASSUME NEW h, IsHeap(h), NEW r \in Resolvers(DOMAIN h.wraps), r.does # "fail",
         NEW b, b = Answered(h, r).heap, NEW w, w = Answered(h, r).schema,
         NEW counts, NEW g, IsHeap(g), Emptied(b, g, w, counts), NEW k, k = Unref(g, w)
  PROVE  /\ IsHeap(k) /\ Kept(h, k, r) /\ k.leaked = h.leaked /\ k.counts = counts
         /\ r.does = "lend" => k.wraps[w].elements = <<>>
<1>1. /\ IsHeap(b) /\ b.leaked = h.leaked
      /\ r.does = "parse" => ParsedAs(h, b, r.text, FALSE, FreeText(h), w)
      /\ r.does = "lend" => /\ w = r.schema /\ w \in DOMAIN h.wraps
                            /\ Rewrapped(h, b, w, [cnt |-> h.wraps[w].cnt + 1,
                                                   elements |-> h.wraps[w].elements,
                                                   map |-> h.wraps[w].map])
      /\ r.does \in {"parse", "lend"}
  BY Answers
<1>2. w \in DOMAIN b.wraps
  BY <1>1 DEF ParsedAs, Wraps, Rewrapped
<1>3. /\ g.counts = counts /\ g.maps = b.maps /\ g.leaked = b.leaked
      /\ DOMAIN g.wraps = DOMAIN b.wraps
      /\ g.wraps[w].cnt = b.wraps[w].cnt /\ g.wraps[w].elements = <<>>
      /\ g.wraps[w].map = b.wraps[w].map
      /\ \A v \in DOMAIN b.wraps \ {w} : g.wraps[v] = b.wraps[v]
  BY DEF Emptied
<1>4. IsHeap(k) /\ Unwrapped(g, k, w)
  BY <1>2, <1>3, UnrefHeap
<1>5. AllReleased(counts, <<>>) = counts
  <2>1. PICK f : ReleaseSteps(counts, <<>>, f) /\ AllReleased(counts, <<>>) = f[Len(<<>>)]
    <3>1. <<>> \in Seq(Element)
      BY EmptySeq
    <3>. QED
      BY <3>1, AllReleasedSteps
  <2>2. Len(<<>>) = 0 /\ 0 \in 0 .. 0
    BY EmptySeq
  <2>3. f[0] = counts
    BY <2>1, <2>2 DEF ReleaseSteps
  <2>. QED
    BY <2>1, <2>2, <2>3
<1>6. CASE r.does = "parse"
  <2>1. ParsedAs(h, b, r.text, FALSE, FreeText(h), w)
    BY <1>1, <1>6
  <2>. DEFINE x == [cnt |-> 1, elements |-> <<[text |-> FreeText(h), node |-> r.text]>>,
                    map |-> 0]
  <2>2. Wraps(h, b, w, x) /\ b.maps = h.maps \cup {}
    BY <2>1 DEF ParsedAs
  <2>3. x.cnt = 1 /\ x.map = 0
    OBVIOUS
  <2>. HIDE DEF x
  <2>4. /\ w \notin DOMAIN h.wraps /\ DOMAIN b.wraps = DOMAIN h.wraps \cup {w}
        /\ b.wraps[w].cnt = 1 /\ b.wraps[w].map = 0 /\ b.maps = h.maps
        /\ \A v \in DOMAIN h.wraps : b.wraps[v] = h.wraps[v]
    BY <2>2, <2>3 DEF Wraps
  <2>5. /\ g.wraps[w].cnt = 1 /\ g.wraps[w].map = 0 /\ g.wraps[w].elements = <<>>
        /\ DOMAIN g.wraps = DOMAIN h.wraps \cup {w} /\ g.maps = h.maps
        /\ \A v \in DOMAIN h.wraps : g.wraps[v] = h.wraps[v]
    BY <1>3, <2>4
  <2>6. /\ k.counts = AllReleased(g.counts, <<>>) /\ DOMAIN k.wraps = DOMAIN g.wraps \ {w}
        /\ \A v \in DOMAIN k.wraps : k.wraps[v] = g.wraps[v]
        /\ k.maps = g.maps \ {0} /\ k.leaked = g.leaked
    BY <1>4, <2>5 DEF Unwrapped
  <2>7. /\ k.counts = counts /\ DOMAIN k.wraps = DOMAIN h.wraps
        /\ \A v \in DOMAIN h.wraps : k.wraps[v] = h.wraps[v]
        /\ k.maps = h.maps \ {0} /\ k.leaked = h.leaked
    BY <1>1, <1>3, <1>5, <2>4, <2>5, <2>6
  <2>8. k.maps = h.maps
    BY <2>7 DEF IsHeap, Positive
  <2>9. Kept(h, k, r)
    BY <2>7, <2>8 DEF Kept
  <2>. QED
    BY <1>4, <1>6, <2>7, <2>9
<1>7. CASE r.does = "lend"
  <2>. DEFINE c1 == h.wraps[w].cnt
              x == [cnt |-> c1 + 1, elements |-> h.wraps[w].elements,
                    map |-> h.wraps[w].map]
  <2>1. /\ w = r.schema /\ w \in DOMAIN h.wraps /\ Rewrapped(h, b, w, x)
    BY <1>1, <1>7
  <2>2. c1 \in Positive
    BY <2>1 DEF IsHeap, Wrapper
  <2>3. x.cnt = c1 + 1 /\ x.map = h.wraps[w].map
    OBVIOUS
  <2>. HIDE DEF x
  <2>4. /\ DOMAIN b.wraps = DOMAIN h.wraps /\ b.wraps[w].cnt = c1 + 1
        /\ b.wraps[w].map = h.wraps[w].map /\ b.maps = h.maps
        /\ \A v \in DOMAIN h.wraps \ {w} : b.wraps[v] = h.wraps[v]
    BY <2>1, <2>3 DEF Rewrapped
  <2>5. g.wraps[w].cnt > 1 /\ g.wraps[w].cnt - 1 = c1
    BY <1>3, <2>2, <2>4 DEF Positive
  <2>. DEFINE y == [cnt |-> g.wraps[w].cnt - 1, elements |-> g.wraps[w].elements,
                    map |-> g.wraps[w].map]
  <2>6. /\ k.counts = counts /\ Rewrapped(g, k, w, y)
        /\ k.leaked = h.leaked
    BY <1>1, <1>3, <1>4, <2>5 DEF Unwrapped
  <2>7. y.cnt = c1 /\ y.elements = <<>> /\ y.map = h.wraps[w].map
    BY <1>3, <2>4, <2>5
  <2>. HIDE DEF y, c1
  <2>8. /\ DOMAIN k.wraps = DOMAIN h.wraps /\ k.maps = h.maps
        /\ k.wraps[w].cnt = c1 /\ k.wraps[w].map = h.wraps[w].map
        /\ k.wraps[w].elements = <<>>
        /\ \A v \in DOMAIN h.wraps \ {w} : k.wraps[v] = h.wraps[v]
    BY <1>3, <2>4, <2>6, <2>7 DEF Rewrapped
  <2>9. Kept(h, k, r)
    BY <1>7, <2>1, <2>8 DEF Kept, Lending, c1
  <2>. QED
    BY <1>4, <2>6, <2>8, <2>9
<1>. QED
  BY <1>1, <1>6, <1>7

(* resolveSchema, a reference, when the resolver answers. *)
LEMMA ReferredFacts ==
  ASSUME NEW h, IsHeap(h), NEW r \in Resolvers(DOMAIN h.wraps), r.does # "fail",
         NEW els \in Seq(Element), els # <<>>,
         NEW b, b = Answered(h, r).heap, NEW w, w = Answered(h, r).schema,
         NEW k, k = Referred(h, els, r)
  PROVE  /\ k.ok \in BOOLEAN /\ IsHeap(k.heap) /\ Kept(h, k.heap, r)
         /\ k.heap.leaked = h.leaked
         /\ k.heap.counts = Released(b.counts, Last(els))
         /\ r.does = "lend" => k.heap.wraps[r.schema].elements = <<>>
         /\ b.wraps[w].elements \in Seq(Element) /\ k.elements \in Seq(Element)
         /\ \A e : Places(k.elements, e) = Places(Front(els), e)
                                           + Places(b.wraps[w].elements, e)
         /\ r.does = "parse" => k.elements # <<>>
<1>. DEFINE counts == Released(b.counts, Last(els))
            c == SetCounts(b, counts)
            taken == b.wraps[w].elements
            g == SetElements(c, w, <<>>)
<1>1. DOMAIN counts \subseteq DOMAIN b.counts
  BY DEF Released
<1>. HIDE DEF counts
<1>2. /\ IsHeap(b) /\ r.does \in {"parse", "lend"}
      /\ r.does = "parse" => ParsedAs(h, b, r.text, FALSE, FreeText(h), w)
      /\ r.does = "lend" => /\ w = r.schema /\ w \in DOMAIN h.wraps
                            /\ Rewrapped(h, b, w, [cnt |-> h.wraps[w].cnt + 1,
                                                   elements |-> h.wraps[w].elements,
                                                   map |-> h.wraps[w].map])
  BY Answers
<1>3. w \in DOMAIN b.wraps /\ b.wraps[w] \in Wrapper
  <2>1. w \in DOMAIN b.wraps
    BY <1>2 DEF ParsedAs, Wraps, Rewrapped
  <2>. QED
    BY <1>2, <2>1 DEF IsHeap
<1>4. taken \in Seq(Element)
  BY <1>3 DEF Wrapper
<1>5. Front(els) \in Seq(Element)
  BY PlacesFront
<1>6. /\ IsHeap(c) /\ c.wraps = b.wraps /\ c.counts = counts /\ c.maps = b.maps
      /\ c.leaked = b.leaked
  BY <1>1, <1>2, NewCounts
<1>7. r.does = "parse" => taken # <<>>
  <2>1. SUFFICES ASSUME r.does = "parse" PROVE taken # <<>>
    OBVIOUS
  <2>2. ParsedAs(h, b, r.text, FALSE, FreeText(h), w)
    BY <1>2, <2>1
  <2>3. taken = <<[text |-> FreeText(h), node |-> r.text]>>
    BY <2>2 DEF ParsedAs, Wraps
  <2>. QED
    BY <2>3
<1>. DEFINE res == IF taken = <<>> THEN c ELSE g
<1>8. IsHeap(res) /\ Emptied(b, res, w, counts)
  <2>1. CASE taken = <<>>
    BY <1>6, <2>1 DEF Emptied
  <2>2. CASE taken # <<>>
    <3>1. <<>> \in Seq(Element)
      BY EmptySeq
    <3>. HIDE DEF c
    <3>2. /\ IsHeap(g)
          /\ Rewrapped(c, g, w, [cnt |-> c.wraps[w].cnt, elements |-> <<>>,
                                 map |-> c.wraps[w].map])
      BY <1>3, <1>6, <3>1, ElementsSet
    <3>. QED
      BY <1>6, <2>2, <3>2 DEF Emptied, Rewrapped
  <2>. QED
    BY <2>1, <2>2
<1>9. /\ IsHeap(Unref(res, w)) /\ Kept(h, Unref(res, w), r)
      /\ Unref(res, w).leaked = h.leaked /\ Unref(res, w).counts = counts
      /\ r.does = "lend" => Unref(res, w).wraps[w].elements = <<>>
  <2>. HIDE DEF res
  <2>. QED
    BY <1>8, GivenBack
<1>10. CASE taken = <<>>
  <2>1. k = Resolution(FALSE, Unref(res, w), Front(els))
    BY <1>10, Zenon DEF Referred, counts
  <2>2. \A e : Places(taken, e) = 0
    BY <1>10, PlacesEmpty
  <2>3. \A e : Places(Front(els), e) \in Nat
    BY <1>5, PlacesNat
  <2>. HIDE DEF taken, res
  <2>4. k.ok = FALSE /\ k.heap = Unref(res, w) /\ k.elements = Front(els)
    BY <2>1 DEF Resolution
  <2>5. \A e : Places(k.elements, e) = Places(Front(els), e) + Places(taken, e)
    BY <2>2, <2>3, <2>4
  <2>. QED
    BY <1>2, <1>4, <1>5, <1>7, <1>9, <1>10, <2>4, <2>5 DEF taken, counts
<1>11. CASE taken # <<>>
  <2>1. k = Resolution(TRUE, Unref(res, w), SpliceAppend(Front(els), taken))
    BY <1>11, Zenon DEF Referred, counts
  <2>. HIDE DEF taken, res
  <2>2. /\ k.ok = TRUE /\ k.heap = Unref(res, w)
        /\ k.elements = SpliceAppend(Front(els), taken)
    BY <2>1 DEF Resolution
  <2>3. /\ k.elements \in Seq(Element) /\ k.elements # <<>>
        /\ \A e : Places(k.elements, e) = Places(Front(els), e) + Places(taken, e)
    BY <1>4, <1>5, <1>11, <2>2, Spliced
  <2>. QED
    BY <1>2, <1>4, <1>9, <2>2, <2>3 DEF taken, counts
<1>. QED
  BY <1>10, <1>11

-------------------------------------------------------------------------------
(* What resolution leaves alone. *)

Resolves(h, els, r, k) ==
  /\ k.ok \in BOOLEAN /\ IsHeap(k.heap) /\ Kept(h, k.heap, r) /\ k.elements \in Seq(Element)
  /\ r.does # "lend" /\ els # <<>> => k.elements # <<>>

(* Resolution keeps the wrappers that are there with their counters, and only
   one that is lent can lose its elements. *)
LEMMA ReferredResolves ==
  ASSUME NEW h, IsHeap(h), NEW r \in Resolvers(DOMAIN h.wraps),
         NEW els \in Seq(Element), els # <<>>
  PROVE  Resolves(h, els, r, Referred(h, els, r))
<1>. DEFINE k == Referred(h, els, r)
<1>1. CASE r.does = "fail"
  <2>1. k = Resolution(FALSE, h, els)
    BY <1>1, Zenon DEF Referred
  <2>. HIDE DEF k
  <2>2. k.ok = FALSE /\ k.heap = h /\ k.elements = els
    BY <2>1 DEF Resolution
  <2>3. Kept(h, h, r)
    BY DEF Kept
  <2>. QED
    BY <2>2, <2>3 DEF Resolves, k
<1>2. CASE r.does # "fail"
  <2>. DEFINE b == Answered(h, r).heap
              w == Answered(h, r).schema
  <2>. HIDE DEF b, w, k
  <2>1. /\ k.ok \in BOOLEAN /\ IsHeap(k.heap) /\ Kept(h, k.heap, r)
        /\ k.elements \in Seq(Element)
        /\ r.does = "parse" => k.elements # <<>>
    BY <1>2, ReferredFacts DEF b, w, k
  <2>2. r.does \in {"parse", "lend"}
    BY <1>2, ResolverKinds
  <2>. QED
    BY <2>1, <2>2 DEF Resolves, k
<1>. QED
  BY <1>1, <1>2

(* The bases of an element. *)
BasesAt(e) == OfText(e.text, Bases[Node(e).extends])

LEMMA BasesFound ==
  ASSUME NEW e \in Element, "extends" \in DOMAIN Node(e)
  PROVE  /\ BasesAt(e) \in Seq(Element) /\ BasesAt(e) # <<>>
         /\ BasesAt(e)[1] \in Element /\ Tail(BasesAt(e)) \in Seq(Element)
         /\ \A f : Places(BasesAt(e), f) =
                     Places(Tail(BasesAt(e)), f) + IF BasesAt(e)[1] = f THEN 1 ELSE 0
<1>. DEFINE ns == Bases[Node(e).extends]
            bs == BasesAt(e)
<1>1. e.text \in Positive /\ Node(e) \in Nodes
  BY DEF Element, Node
<1>2. Node(e).extends \in Nodes
  BY <1>1, NodesAreTrees
<1>3. ns \in Seq(Nodes) /\ ns # <<>>
  BY <1>2, BasesTyped
<1>4. /\ Len(ns) \in Nat \ {0} /\ DOMAIN ns = 1 .. Len(ns)
      /\ \A i \in 1 .. Len(ns) : ns[i] \in Nodes
  BY <1>3, EmptySeq, LenProperties, ElementOfSeq
<1>5. bs = [i \in 1 .. Len(ns) |-> [text |-> e.text, node |-> ns[i]]]
  BY <1>4 DEF BasesAt, OfText
<1>. HIDE DEF ns, bs
<1>6. bs \in Seq(Element) /\ Len(bs) = Len(ns)
  <2>1. bs \in [1 .. Len(ns) -> Element]
    BY <1>1, <1>4, <1>5 DEF Element
  <2>. QED
    BY <1>4, <2>1
<1>7. bs # <<>>
  BY <1>4, <1>6, EmptySeq
<1>. QED
  BY <1>6, <1>7, PlacesTail DEF bs

(* The parts of Extended. *)
InnerOf(h, e, r) ==
  LET copied == SetCounts(h, AllCopied(h.counts, BasesAt(e)))
  IN  IF "ref" \in DOMAIN Node(BasesAt(e)[1]) THEN Referred(copied, <<BasesAt(e)[1]>>, r)
      ELSE Resolution(TRUE, copied, <<BasesAt(e)[1]>>)

(* An extension, by its parts. *)
LEMMA ExtendedIs ==
  ASSUME NEW h, NEW els, NEW r
  PROVE  Extended(h, els, r) =
           LET inner == InnerOf(h, els[1], r)
               rest  == Tail(BasesAt(els[1]))
           IN  IF inner.ok
               THEN Resolution(TRUE, inner.heap, SpliceAppend(els, inner.elements \o rest))
               ELSE Resolution(FALSE, Leak(inner.heap, rest \o inner.elements), els)
BY Zenon DEF Extended, InnerOf, BasesAt

LEMMA LeakHeap ==
  ASSUME NEW h, IsHeap(h), NEW es \in Seq(Element)
  PROVE  /\ IsHeap(Leak(h, es))
         /\ Leak(h, es).counts = h.counts /\ Leak(h, es).wraps = h.wraps
         /\ Leak(h, es).maps = h.maps /\ Leak(h, es).leaked = h.leaked \o es
<1>1. h = [counts |-> h.counts, wraps |-> h.wraps, maps |-> h.maps, leaked |-> h.leaked]
  BY DEF IsHeap
<1>2. h.leaked \o es \in Seq(Element)
  BY ConcatProperties DEF IsHeap
<1>. DEFINE l == h.leaked \o es
<1>3. Leak(h, es) = [h EXCEPT !.leaked = l]
  BY DEF Leak
<1>. HIDE DEF l
<1>4. Leak(h, es) = [counts |-> h.counts, wraps |-> h.wraps, maps |-> h.maps, leaked |-> l]
  BY <1>1, <1>3
<1>. QED
  BY <1>2, <1>4 DEF IsHeap, l

LEMMA CopiedHeap ==
  ASSUME NEW h, IsHeap(h), NEW es,
         NEW k, k = SetCounts(h, AllCopied(h.counts, es))
  PROVE  /\ IsHeap(k) /\ k.counts = AllCopied(h.counts, es)
         /\ k.wraps = h.wraps /\ k.maps = h.maps /\ k.leaked = h.leaked
<1>1. DOMAIN AllCopied(h.counts, es) \subseteq DOMAIN h.counts
  BY DEF AllCopied
<1>. QED
  BY <1>1, NewCounts

LEMMA InnerResolves ==
  ASSUME NEW h, IsHeap(h), NEW r \in Resolvers(DOMAIN h.wraps),
         NEW e \in Element, "extends" \in DOMAIN Node(e)
  PROVE  Resolves(h, <<BasesAt(e)[1]>>, r, InnerOf(h, e, r))
<1>. DEFINE c == SetCounts(h, AllCopied(h.counts, BasesAt(e)))
            one == <<BasesAt(e)[1]>>
            k == InnerOf(h, e, r)
<1>1. IsHeap(c) /\ c.wraps = h.wraps /\ c.maps = h.maps
  BY CopiedHeap
<1>2. one \in Seq(Element) /\ one # <<>>
  BY BasesFound
<1>3. Kept(h, c, r)
  BY <1>1 DEF Kept
<1>4. k = IF "ref" \in DOMAIN Node(BasesAt(e)[1]) THEN Referred(c, one, r)
          ELSE Resolution(TRUE, c, one)
  BY Zenon DEF InnerOf
<1>. HIDE DEF c, one, k
<1>5. Resolves(c, one, r, k)
  <2>1. CASE "ref" \in DOMAIN Node(BasesAt(e)[1])
    BY <1>1, <1>2, <1>4, <2>1, ReferredResolves
  <2>2. CASE "ref" \notin DOMAIN Node(BasesAt(e)[1])
    <3>1. k.ok = TRUE /\ k.heap = c /\ k.elements = one
      BY <1>4, <2>2 DEF Resolution
    <3>2. Kept(c, c, r)
      BY DEF Kept
    <3>. QED
      BY <1>1, <1>2, <3>1, <3>2 DEF Resolves
  <2>. QED
    BY <2>1, <2>2
<1>6. Kept(h, k.heap, r)
  BY <1>3, <1>5, KeptThrough DEF Resolves
<1>. QED
  BY <1>5, <1>6 DEF Resolves, one, k

LEMMA ExtendedResolves ==
  ASSUME NEW h, IsHeap(h), NEW r \in Resolvers(DOMAIN h.wraps),
         NEW els \in Seq(Element), els # <<>>, "extends" \in DOMAIN Node(els[1])
  PROVE  Resolves(h, els, r, Extended(h, els, r))
<1>. DEFINE inner == InnerOf(h, els[1], r)
            rest == Tail(BasesAt(els[1]))
            k == Extended(h, els, r)
<1>1. els[1] \in Element
  BY EmptySeq, ElementOfSeq
<1>2. Resolves(h, <<BasesAt(els[1])[1]>>, r, inner)
  BY <1>1, InnerResolves
<1>3. rest \in Seq(Element)
  BY <1>1, BasesFound
<1>4. k = IF inner.ok
          THEN Resolution(TRUE, inner.heap, SpliceAppend(els, inner.elements \o rest))
          ELSE Resolution(FALSE, Leak(inner.heap, rest \o inner.elements), els)
  BY ExtendedIs, Zenon
<1>. HIDE DEF inner, rest, k
<1>5. /\ inner.ok \in BOOLEAN /\ IsHeap(inner.heap) /\ Kept(h, inner.heap, r)
      /\ inner.elements \in Seq(Element)
  BY <1>2 DEF Resolves
<1>6. inner.elements \o rest \in Seq(Element) /\ rest \o inner.elements \in Seq(Element)
  BY <1>3, <1>5, ConcatProperties
<1>7. CASE inner.ok
  <2>. DEFINE t == inner.elements \o rest
  <2>1. t \in Seq(Element) /\ k = Resolution(TRUE, inner.heap, SpliceAppend(els, t))
    BY <1>4, <1>6, <1>7
  <2>. HIDE DEF t
  <2>2. SpliceAppend(els, t) \in Seq(Element) /\ SpliceAppend(els, t) # <<>>
    BY <2>1, Spliced
  <2>3. k.ok = TRUE /\ k.heap = inner.heap /\ k.elements = SpliceAppend(els, t)
    BY <2>1 DEF Resolution
  <2>. QED
    BY <1>5, <2>2, <2>3 DEF Resolves, k
<1>8. CASE ~inner.ok
  <2>. DEFINE t == rest \o inner.elements
              l == Leak(inner.heap, t)
  <2>1. t \in Seq(Element) /\ k = Resolution(FALSE, l, els)
    BY <1>4, <1>6, <1>8
  <2>. HIDE DEF t
  <2>2. IsHeap(l) /\ l.wraps = inner.heap.wraps /\ l.maps = inner.heap.maps
    BY <1>5, <2>1, LeakHeap
  <2>. HIDE DEF l
  <2>3. k.ok = FALSE /\ k.heap = l /\ k.elements = els
    BY <2>1 DEF Resolution
  <2>4. Kept(h, l, r)
    BY <1>5, <2>2 DEF Kept
  <2>. QED
    BY <2>2, <2>3, <2>4 DEF Resolves, k
<1>. QED
  BY <1>5, <1>7, <1>8

LEMMA ResolvedResolves ==
  ASSUME NEW h, IsHeap(h), NEW r \in Resolvers(DOMAIN h.wraps), NEW els \in Seq(Element)
  PROVE  Resolves(h, els, r, Resolved(h, els, r))
<1>. DEFINE k == Resolved(h, els, r)
<1>1. CASE els # <<>> /\ "ref" \in DOMAIN Node(Last(els))
  <2>1. k = Referred(h, els, r)
    BY <1>1, Zenon DEF Resolved
  <2>. QED
    BY <1>1, <2>1, ReferredResolves
<1>2. CASE /\ ~(els # <<>> /\ "ref" \in DOMAIN Node(Last(els)))
           /\ els # <<>> /\ "extends" \in DOMAIN Node(els[1])
  <2>1. k = Extended(h, els, r)
    BY <1>2, Zenon DEF Resolved
  <2>. QED
    BY <1>2, <2>1, ExtendedResolves
<1>3. CASE /\ ~(els # <<>> /\ "ref" \in DOMAIN Node(Last(els)))
           /\ ~(els # <<>> /\ "extends" \in DOMAIN Node(els[1]))
  <2>1. k = Resolution(TRUE, h, els)
    BY <1>3, Zenon DEF Resolved
  <2>. HIDE DEF k
  <2>2. k.ok = TRUE /\ k.heap = h /\ k.elements = els
    BY <2>1 DEF Resolution
  <2>3. Kept(h, h, r)
    BY DEF Kept
  <2>. QED
    BY <2>2, <2>3 DEF Resolves, k
<1>. QED
  BY <1>1, <1>2, <1>3

-------------------------------------------------------------------------------
(* The hierarchy for a nested value, gathered from one element after the other. *)

IsResolution(h, r, k) ==
  /\ k.ok \in BOOLEAN /\ IsHeap(k.heap) /\ Kept(h, k.heap, r) /\ k.elements \in Seq(Element)

LEMMA WithInnerResolves ==
  ASSUME NEW h, NEW r \in Resolvers(DOMAIN h.wraps), NEW m, IsResolution(h, r, m),
         NEW e \in Element
  PROVE  IsResolution(h, r, WithInner(m, e, r))
<1>. DEFINE inner == Child(e, "inner")
            counts == Copied(m.heap.counts, inner)
            c == SetCounts(m.heap, counts)
            es == Append(m.elements, inner)
            k == WithInner(m, e, r)
<1>1. CASE "inner" \notin DOMAIN Node(e)
  BY <1>1 DEF WithInner
<1>2. CASE "inner" \in DOMAIN Node(e)
  <2>1. k = Resolved(c, es, r)
    BY <1>2, Zenon DEF WithInner
  <2>2. inner \in Element
    <3>1. e.text \in Positive /\ e.node \in Nodes /\ Node(e) = e.node
      BY DEF Element, Node
    <3>2. e.node.inner \in Nodes
      BY <1>2, <3>1, NodesAreTrees
    <3>. QED
      BY <3>1, <3>2 DEF Child, Element
  <2>3. DOMAIN counts \subseteq DOMAIN m.heap.counts
    BY DEF Copied
  <2>. HIDE DEF inner, counts
  <2>4. es \in Seq(Element)
    BY <2>2, AppendProperties DEF IsResolution
  <2>5. IsHeap(c) /\ c.wraps = m.heap.wraps /\ c.maps = m.heap.maps
    BY <2>3, NewCounts DEF IsResolution
  <2>. HIDE DEF c, es, k
  <2>6. DOMAIN c.wraps = DOMAIN h.wraps /\ Kept(h, c, r)
    BY <2>5 DEF IsResolution, Kept
  <2>7. Resolves(c, es, r, k)
    BY <2>1, <2>4, <2>5, <2>6, ResolvedResolves
  <2>8. Kept(h, k.heap, r)
    BY <2>6, <2>7, KeptThrough DEF Resolves
  <2>. QED
    BY <2>7, <2>8 DEF Resolves, IsResolution, k
<1>. QED
  BY <1>1, <1>2

GatherStep(m, around, n, r) ==
  IF m.ok /\ n \in DOMAIN m.heap.wraps[around].elements
  THEN WithInner(m, m.heap.wraps[around].elements[n], r) ELSE m

GatherSteps(h, around, r, l, f) ==
  f = [n \in 0 .. l |-> IF n = 0 THEN Resolution(TRUE, h, <<>>)
                        ELSE GatherStep(f[n - 1], around, n, r)]

(* What is gathered after n elements is defined by recursion on n. *)
LEMMA GatherStepsExist ==
  ASSUME NEW h, NEW around, NEW r, NEW l \in Nat
  PROVE  \E f : GatherSteps(h, around, r, l, f)
<1>. DEFINE T == {k \in Nat : ~ \E f : GatherSteps(h, around, r, k, f)}
<1>1. SUFFICES ASSUME T # {} PROVE FALSE
  OBVIOUS
<1>2. PICK k \in T : \A j \in T : ~(j < k)
  BY <1>1, LeastOf
<1>3. k \in Nat /\ ~ \E f : GatherSteps(h, around, r, k, f)
  BY <1>2
<1>4. CASE k = 0
  <2>. DEFINE f == [n \in 0 .. 0 |-> Resolution(TRUE, h, <<>>)]
  <2>1. GatherSteps(h, around, r, 0, f)
    BY DEF GatherSteps
  <2>. QED
    BY <1>3, <1>4, <2>1
<1>5. CASE k # 0
  <2>1. k - 1 \in Nat /\ k - 1 < k
    BY <1>3, <1>5
  <2>2. PICK f : GatherSteps(h, around, r, k - 1, f)
    BY <1>2, <2>1
  <2>. DEFINE g == [n \in 0 .. k |-> IF n = k THEN GatherStep(f[k - 1], around, k, r)
                                     ELSE f[n]]
  <2>3. \A n \in 0 .. k - 1 : f[n] = IF n = 0 THEN Resolution(TRUE, h, <<>>)
                                     ELSE GatherStep(f[n - 1], around, n, r)
    BY <2>2 DEF GatherSteps
  <2>4. \A n \in 0 .. k : g[n] = IF n = 0 THEN Resolution(TRUE, h, <<>>)
                                 ELSE GatherStep(g[n - 1], around, n, r)
    <3>. TAKE n \in 0 .. k
    <3>1. CASE n = k
      BY <1>3, <1>5, <2>1, <3>1
    <3>2. CASE n # k /\ n # 0
      <4>1. n \in 0 .. k - 1 /\ n - 1 \in 0 .. k /\ n - 1 # k
        BY <1>3, <3>2
      <4>. QED
        BY <2>3, <3>2, <4>1
    <3>3. CASE n # k /\ n = 0
      <4>1. n \in 0 .. k - 1 /\ g[n] = f[n]
        BY <1>3, <1>5, <3>3
      <4>2. f[n] = Resolution(TRUE, h, <<>>)
        BY <2>3, <3>3, <4>1
      <4>. QED
        BY <3>3, <4>1, <4>2
    <3>. QED
      BY <3>1, <3>2, <3>3
  <2>5. GatherSteps(h, around, r, k, g)
    BY <2>4 DEF GatherSteps
  <2>. QED
    BY <1>3, <2>5
<1>. QED
  BY <1>4, <1>5

LEMMA GatheredSteps ==
  ASSUME NEW h, NEW around, NEW r, Len(h.wraps[around].elements) \in Nat
  PROVE  \E f : /\ GatherSteps(h, around, r, Len(h.wraps[around].elements), f)
                /\ Gathered(h, around, r) = f[Len(h.wraps[around].elements)]
<1>. DEFINE l == Len(h.wraps[around].elements)
            f == CHOOSE g : GatherSteps(h, around, r, l, g)
<1>1. GatherSteps(h, around, r, l, f)
  BY GatherStepsExist
<1>2. Gathered(h, around, r) = f[l]
  BY DEF Gathered, GatherSteps, GatherStep
<1>. QED
  BY <1>1, <1>2

LEMMA GatheredResolves ==
  ASSUME NEW h, IsHeap(h), NEW r \in Resolvers(DOMAIN h.wraps), NEW around \in DOMAIN h.wraps
  PROVE  IsResolution(h, r, Gathered(h, around, r))
<1>. DEFINE l == Len(h.wraps[around].elements)
<1>1. l \in Nat
  BY LenProperties DEF IsHeap, Wrapper
<1>2. PICK f : GatherSteps(h, around, r, l, f) /\ Gathered(h, around, r) = f[l]
  BY <1>1, GatheredSteps
<1>. HIDE DEF l
<1>. DEFINE T == {n \in 0 .. l : ~IsResolution(h, r, f[n])}
<1>3. ASSUME T # {} PROVE FALSE
  <2>1. PICK n \in T : \A m \in T : ~(m < n)
    <3>1. T \subseteq Nat
      BY <1>1
    <3>. HIDE DEF T
    <3>. QED
      BY <1>3, <3>1, LeastOf
  <2>2. n \in 0 .. l /\ ~IsResolution(h, r, f[n])
    BY <2>1
  <2>3. f[n] = IF n = 0 THEN Resolution(TRUE, h, <<>>) ELSE GatherStep(f[n - 1], around, n, r)
    BY <1>2, <2>2 DEF GatherSteps
  <2>4. CASE n = 0
    <3>1. f[n].ok = TRUE /\ f[n].heap = h /\ f[n].elements = <<>>
      BY <2>3, <2>4 DEF Resolution
    <3>2. Kept(h, h, r) /\ <<>> \in Seq(Element)
      BY EmptySeq DEF Kept
    <3>. QED
      BY <2>2, <3>1, <3>2 DEF IsResolution
  <2>5. CASE n # 0
    <3>1. n - 1 \in 0 .. l /\ n - 1 < n
      BY <1>1, <2>2, <2>5
    <3>2. IsResolution(h, r, f[n - 1])
      BY <2>1, <3>1
    <3>. DEFINE m == f[n - 1]
                es == m.heap.wraps[around].elements
    <3>3. es \in Seq(Element)
      BY <3>2 DEF IsResolution, IsHeap, Wrapper, Kept
    <3>4. f[n] = m \/ (n \in DOMAIN es /\ f[n] = WithInner(m, es[n], r))
      BY <2>3, <2>5 DEF GatherStep
    <3>5. n \in DOMAIN es => es[n] \in Element
      BY <3>3, LenProperties
    <3>. HIDE DEF m, es
    <3>6. n \in DOMAIN es => IsResolution(h, r, WithInner(m, es[n], r))
      BY <3>2, <3>5, WithInnerResolves DEF m
    <3>. QED
      BY <2>2, <3>2, <3>4, <3>6 DEF m
  <2>. QED
    BY <2>4, <2>5
<1>4. l \in 0 .. l
  BY <1>1
<1>. QED
  BY <1>2, <1>3, <1>4

-------------------------------------------------------------------------------
(* Wrappers that are given up, one or several. *)

(* The counter of a wrapper, zero for what is none. *)
Cnt(h, w) == IF w \in DOMAIN h.wraps THEN h.wraps[w].cnt ELSE 0

(* Wrappers go, with their files, and the others keep what they hold. *)
Remains(h, k) ==
  /\ k.leaked = h.leaked
  /\ DOMAIN k.wraps \subseteq DOMAIN h.wraps
  /\ \A w \in DOMAIN k.wraps : /\ k.wraps[w].elements = h.wraps[w].elements
                               /\ k.wraps[w].map = h.wraps[w].map
  /\ k.maps = h.maps \ {h.wraps[w].map : w \in DOMAIN h.wraps \ DOMAIN k.wraps}

(* The wrapper given up has a reference less, and no other changes. *)
LEMMA UnrefCounts ==
  ASSUME NEW h, IsHeap(h), NEW w \in DOMAIN h.wraps
  PROVE  /\ IsHeap(Unref(h, w)) /\ Remains(h, Unref(h, w))
         /\ \A v : Cnt(Unref(h, w), v) = Cnt(h, v) - IF v = w THEN 1 ELSE 0
<1>. DEFINE k == Unref(h, w)
<1>1. IsHeap(k) /\ Unwrapped(h, k, w)
  BY UnrefHeap
<1>2. h.wraps[w].cnt \in Positive /\ k.maps \subseteq Positive
  BY <1>1 DEF IsHeap, Wrapper
<1>3. \A v \in DOMAIN h.wraps : h.wraps[v].cnt \in Positive
  BY DEF IsHeap, Wrapper
<1>. HIDE DEF k
<1>4. CASE h.wraps[w].cnt > 1
  <2>1. k.counts = h.counts /\ k.leaked = h.leaked
        /\ Rewrapped(h, k, w, [cnt |-> h.wraps[w].cnt - 1,
                                 elements |-> h.wraps[w].elements, map |-> h.wraps[w].map])
    BY <1>1, <1>4 DEF Unwrapped
  <2>2. Remains(h, k)
    BY <2>1 DEF Remains, Rewrapped
  <2>3. \A v : Cnt(k, v) = Cnt(h, v) - IF v = w THEN 1 ELSE 0
    BY <1>2, <1>3, <1>4, <2>1 DEF Rewrapped, Cnt, Positive
  <2>. QED
    BY <1>1, <2>2, <2>3 DEF k
<1>5. CASE ~(h.wraps[w].cnt > 1)
  <2>1. /\ k.leaked = h.leaked
        /\ DOMAIN k.wraps = DOMAIN h.wraps \ {w}
        /\ \A v \in DOMAIN k.wraps : k.wraps[v] = h.wraps[v]
        /\ k.maps = h.maps \ {h.wraps[w].map}
    BY <1>1, <1>5 DEF Unwrapped
  <2>2. DOMAIN h.wraps \ DOMAIN k.wraps = {w}
    BY <2>1
  <2>3. {h.wraps[v].map : v \in DOMAIN h.wraps \ DOMAIN k.wraps} = {h.wraps[w].map}
    BY <2>2
  <2>4. Remains(h, k)
    BY <2>1, <2>3 DEF Remains
  <2>5. \A v : Cnt(k, v) = Cnt(h, v) - IF v = w THEN 1 ELSE 0
    BY <1>2, <1>3, <1>5, <2>1 DEF Cnt, Positive
  <2>. QED
    BY <1>1, <2>4, <2>5 DEF k
<1>. QED
  BY <1>4, <1>5

LEMMA RemainsThrough ==
  ASSUME NEW h, NEW k, Remains(h, k), NEW l, Remains(k, l)
  PROVE  Remains(h, l)
<1>1. l.maps = h.maps \ {h.wraps[w].map : w \in DOMAIN h.wraps \ DOMAIN l.wraps}
  <2>1. {h.wraps[w].map : w \in DOMAIN h.wraps \ DOMAIN l.wraps}
          = {h.wraps[w].map : w \in DOMAIN h.wraps \ DOMAIN k.wraps}
            \cup {k.wraps[w].map : w \in DOMAIN k.wraps \ DOMAIN l.wraps}
    BY DEF Remains
  <2>. QED
    BY <2>1 DEF Remains
<1>. QED
  BY <1>1 DEF Remains

-------------------------------------------------------------------------------
(* References given up one after the other, the last first. *)

UnrefSteps(h, ws, m, f) ==
  f = [n \in m .. Len(ws) |-> IF n = Len(ws) THEN h ELSE Unref(f[n + 1], ws[n + 1])]

(* Several wrappers are given up one after the other, the last one first. *)
LEMMA UnrefStepsExist ==
  ASSUME NEW S, NEW ws \in Seq(S), NEW h, NEW j \in 0 .. Len(ws)
  PROVE  \E f : UnrefSteps(h, ws, Len(ws) - j, f)
<1>. DEFINE l == Len(ws)
            T == {i \in 0 .. l : ~ \E f : UnrefSteps(h, ws, l - i, f)}
<1>1. SUFFICES ASSUME T # {} PROVE FALSE
  OBVIOUS
<1>2. T \subseteq Nat /\ l \in Nat
  OBVIOUS
<1>3. PICK i \in T : \A n \in T : ~(n < i)
  BY <1>1, <1>2, LeastOf
<1>4. i \in 0 .. l /\ ~ \E f : UnrefSteps(h, ws, l - i, f)
  BY <1>3
<1>5. CASE i = 0
  <2>. DEFINE f == [n \in l .. l |-> h]
  <2>1. f = [n \in l .. l |-> IF n = l THEN h ELSE Unref(f[n + 1], ws[n + 1])]
    BY <1>2
  <2>2. UnrefSteps(h, ws, l - 0, f)
    BY <1>2, <2>1 DEF UnrefSteps
  <2>. QED
    BY <1>4, <1>5, <2>2
<1>6. CASE i # 0
  <2>1. i - 1 \in 0 .. l /\ i - 1 < i
    BY <1>4, <1>6, <1>2
  <2>2. PICK f : UnrefSteps(h, ws, l - (i - 1), f)
    BY <1>3, <2>1
  <2>. DEFINE m == l - i
              g == [n \in m .. l |-> IF n = m THEN Unref(f[m + 1], ws[m + 1]) ELSE f[n]]
  <2>3. m \in 0 .. l - 1 /\ l - (i - 1) = m + 1
    BY <1>2, <1>4, <1>6
  <2>4. \A n \in m + 1 .. l : f[n] = IF n = l THEN h ELSE Unref(f[n + 1], ws[n + 1])
    BY <2>2, <2>3 DEF UnrefSteps
  <2>. HIDE DEF m, l
  <2>5. \A n \in m .. l : g[n] = IF n = l THEN h ELSE Unref(g[n + 1], ws[n + 1])
    <3>. TAKE n \in m .. l
    <3>1. CASE n = m
      <4>1. m + 1 \in m .. l /\ m + 1 # m /\ n # l
        BY <1>2, <2>3, <3>1
      <4>2. g[m + 1] = f[m + 1] /\ g[n] = Unref(f[m + 1], ws[m + 1])
        BY <4>1, <3>1
      <4>. QED
        BY <3>1, <4>1, <4>2
    <3>2. CASE n # m /\ n # l
      <4>1. n \in m + 1 .. l /\ n + 1 \in m .. l /\ n + 1 # m
        BY <1>2, <2>3, <3>2
      <4>2. g[n + 1] = f[n + 1] /\ g[n] = f[n]
        BY <3>2, <4>1
      <4>. QED
        BY <2>4, <3>2, <4>1, <4>2
    <3>3. CASE n # m /\ n = l
      <4>1. n \in m + 1 .. l /\ g[n] = f[n]
        BY <1>2, <2>3, <3>3
      <4>. QED
        BY <2>4, <3>3, <4>1
    <3>. QED
      BY <3>1, <3>2, <3>3
  <2>6. UnrefSteps(h, ws, m, g)
    BY <2>5 DEF UnrefSteps, l
  <2>. QED
    BY <1>4, <2>6 DEF m
<1>. QED
  BY <1>5, <1>6

LEMMA UnrefStepsAgree ==
  ASSUME NEW S, NEW ws \in Seq(S), NEW h, NEW f, NEW g,
         UnrefSteps(h, ws, 0, f), UnrefSteps(h, ws, 0, g)
  PROVE  f[0] = g[0]
<1>. DEFINE l == Len(ws)
            T == {i \in 0 .. l : f[l - i] # g[l - i]}
<1>1. SUFFICES ASSUME T # {} PROVE FALSE
  <2>1. ASSUME T = {} PROVE f[0] = g[0]
    <3>1. l \in Nat /\ l \in 0 .. l /\ l - l = 0
      OBVIOUS
    <3>2. f[l - l] = g[l - l]
      BY <2>1, <3>1
    <3>. QED
      BY <3>1, <3>2
  <2>. QED
    BY <2>1
<1>2. T \subseteq Nat /\ l \in Nat
  OBVIOUS
<1>3. PICK i \in T : \A n \in T : ~(n < i)
  BY <1>1, <1>2, LeastOf
<1>4. i \in 0 .. l /\ f[l - i] # g[l - i]
  BY <1>3
<1>5. \A n \in 0 .. l : /\ f[n] = IF n = l THEN h ELSE Unref(f[n + 1], ws[n + 1])
                        /\ g[n] = IF n = l THEN h ELSE Unref(g[n + 1], ws[n + 1])
  BY DEF UnrefSteps
<1>6. i # 0
  BY <1>2, <1>4, <1>5
<1>7. i - 1 \in 0 .. l /\ i - 1 < i /\ l - (i - 1) = (l - i) + 1 /\ l - i \in 0 .. l /\ l - i # l
  BY <1>2, <1>4, <1>6
<1>8. f[(l - i) + 1] = g[(l - i) + 1]
  BY <1>3, <1>7
<1>. QED
  BY <1>4, <1>5, <1>7, <1>8

LEMMA AllUnrefSteps ==
  ASSUME NEW S, NEW ws \in Seq(S), NEW h
  PROVE  \E f : UnrefSteps(h, ws, 0, f) /\ AllUnref(h, ws) = f[0]
<1>. DEFINE f == CHOOSE g : UnrefSteps(h, ws, 0, g)
<1>1. Len(ws) \in 0 .. Len(ws) /\ Len(ws) - Len(ws) = 0
  OBVIOUS
<1>2. UnrefSteps(h, ws, 0, f)
  BY <1>1, UnrefStepsExist
<1>3. AllUnref(h, ws) = f[0]
  BY DEF AllUnref, UnrefSteps
<1>. QED
  BY <1>2, <1>3

LEMMA AllUnrefNone ==
  ASSUME NEW h
  PROVE  AllUnref(h, <<>>) = h
<1>1. PICK f : UnrefSteps(h, <<>>, 0, f) /\ AllUnref(h, <<>>) = f[0]
  BY <<>> \in Seq({}), AllUnrefSteps
<1>2. Len(<<>>) = 0 /\ 0 \in 0 .. 0
  OBVIOUS
<1>. QED
  BY <1>1, <1>2 DEF UnrefSteps

LEMMA AllUnrefAppend ==
  ASSUME NEW S, NEW ws \in Seq(S), NEW w \in S, NEW h
  PROVE  AllUnref(h, Append(ws, w)) = AllUnref(Unref(h, w), ws)
<1>. DEFINE l == Len(ws)
            us == Append(ws, w)
            k == Unref(h, w)
<1>1. us \in Seq(S) /\ Len(us) = l + 1 /\ us[l + 1] = w /\ l \in Nat
      /\ \A i \in 1 .. l : us[i] = ws[i]
  OBVIOUS
<1>2. PICK f : UnrefSteps(h, us, 0, f) /\ AllUnref(h, us) = f[0]
  BY <1>1, AllUnrefSteps
<1>3. PICK g : UnrefSteps(k, ws, 0, g) /\ AllUnref(k, ws) = g[0]
  BY AllUnrefSteps
<1>. DEFINE e == [n \in 0 .. l |-> f[n]]
<1>. HIDE DEF us, k
<1>4. \A n \in 0 .. l + 1 : f[n] = IF n = l + 1 THEN h ELSE Unref(f[n + 1], us[n + 1])
  BY <1>1, <1>2 DEF UnrefSteps
<1>. HIDE DEF l
<1>5. \A n \in 0 .. l : e[n] = IF n = l THEN k ELSE Unref(e[n + 1], ws[n + 1])
  <2>. TAKE n \in 0 .. l
  <2>1. n \in 0 .. l + 1 /\ n # l + 1 /\ e[n] = f[n] /\ f[n] = Unref(f[n + 1], us[n + 1])
    BY <1>1, <1>4
  <2>2. CASE n = l
    <3>1. l + 1 \in 0 .. l + 1 /\ f[l + 1] = h
      BY <1>1, <1>4
    <3>. QED
      BY <1>1, <2>1, <2>2, <3>1 DEF k
  <2>3. CASE n # l
    <3>1. n + 1 \in 1 .. l /\ n + 1 \in 0 .. l /\ e[n + 1] = f[n + 1] /\ us[n + 1] = ws[n + 1]
      BY <1>1, <2>3
    <3>. QED
      BY <2>1, <2>3, <3>1
  <2>. QED
    BY <2>2, <2>3
<1>6. UnrefSteps(k, ws, 0, e)
  BY <1>5 DEF UnrefSteps, l
<1>7. e[0] = g[0]
  BY <1>3, <1>6, UnrefStepsAgree
<1>8. e[0] = f[0]
  BY <1>1
<1>. QED
  BY <1>2, <1>3, <1>7, <1>8 DEF us, k

(* All states of a stack are given up. *)
Dismissed(h, ws, k) ==
  /\ IsHeap(k) /\ Remains(h, k)
  /\ \A v : Cnt(k, v) = Cnt(h, v) - Places(ws, v)

(* Wrappers that are given up, each with enough references for its places. *)
LEMMA DismissedAll ==
  ASSUME NEW h, IsHeap(h), NEW ws \in Seq(Positive), \A v : Places(ws, v) <= Cnt(h, v)
  PROVE  Dismissed(h, ws, AllUnref(h, ws))
<1>. DEFINE Fits(g, us) == IsHeap(g) /\ \A v : Places(us, v) <= Cnt(g, v)
            Wrong(g, us) == us \in Seq(Positive) /\ Fits(g, us) /\ ~Dismissed(g, us, AllUnref(g, us))
            T == {n \in Nat : \E g, us : Wrong(g, us) /\ Len(us) = n}
<1>1. SUFFICES T = {}
  <2>1. ASSUME T = {} PROVE ~Wrong(h, ws)
    BY <2>1
  <2>. QED
    BY <2>1
<1>2. SUFFICES ASSUME T # {} PROVE FALSE
  OBVIOUS
<1>3. T \subseteq Nat
  OBVIOUS
<1>4. PICK n \in T : \A m \in T : ~(m < n)
  <2>. HIDE DEF T
  <2>. QED
    BY <1>2, <1>3, LeastOf
<1>5. n \in Nat /\ \E g, us : Wrong(g, us) /\ Len(us) = n
  BY <1>4
<1>6. PICK g, us : Wrong(g, us) /\ Len(us) = n
  BY <1>5
<1>7. us \in Seq(Positive) /\ IsHeap(g) /\ ~Dismissed(g, us, AllUnref(g, us))
      /\ \A v : Places(us, v) <= Cnt(g, v)
  BY <1>6
<1>8. CASE us = <<>>
  <2>1. AllUnref(g, us) = g
    BY <1>8, AllUnrefNone
  <2>2. \A v : Places(us, v) = 0
    BY <1>8, PlacesEmpty
  <2>3. \A v : Cnt(g, v) \in Nat
    BY <1>7 DEF Cnt, IsHeap, Wrapper, Positive
  <2>4. {g.wraps[w].map : w \in DOMAIN g.wraps \ DOMAIN g.wraps} = {}
    OBVIOUS
  <2>5. Remains(g, g)
    BY <2>4 DEF Remains
  <2>. QED
    BY <1>7, <2>1, <2>2, <2>3, <2>5 DEF Dismissed
<1>9. CASE us # <<>>
  <2>. DEFINE front == Front(us)
              w == Last(us)
              k == Unref(g, w)
  <2>1. /\ front \in Seq(Positive) /\ w \in Positive /\ us = Append(front, w) /\ Len(front) = n - 1
        /\ \A v : Places(us, v) = Places(front, v) + IF w = v THEN 1 ELSE 0
    BY <1>6, <1>7, <1>9, PlacesFront
  <2>. HIDE DEF front, w, k
  <2>2. \A v : Places(front, v) \in Nat
    BY <2>1, PlacesNat
  <2>3. w \in DOMAIN g.wraps
    <3>1. Places(us, w) = Places(front, w) + 1
      BY <2>1
    <3>2. Places(us, w) <= Cnt(g, w)
      BY <1>7
    <3>3. Cnt(g, w) # 0
      BY <2>2, <3>1, <3>2
    <3>. QED
      BY <3>3 DEF Cnt
  <2>4. /\ IsHeap(k) /\ Remains(g, k)
        /\ \A v : Cnt(k, v) = Cnt(g, v) - IF v = w THEN 1 ELSE 0
    BY <1>7, <2>3, UnrefCounts DEF k
  <2>5. \A v : Cnt(g, v) \in Nat /\ Cnt(k, v) \in Nat
    BY <1>7, <2>4 DEF Cnt, IsHeap, Wrapper, Positive
  <2>6. \A v : Places(front, v) <= Cnt(k, v)
    <3>. TAKE v
    <3>. DEFINE d == IF w = v THEN 1 ELSE 0
    <3>1. Places(us, v) <= Cnt(g, v) /\ Places(us, v) = Places(front, v) + d
          /\ Cnt(k, v) = Cnt(g, v) - d
      BY <1>7, <2>1, <2>4
    <3>2. d \in {0, 1} /\ Places(front, v) \in Nat /\ Cnt(g, v) \in Nat
      BY <2>2, <2>5
    <3>. HIDE DEF d
    <3>. QED
      BY <3>1, <3>2
  <2>7. Fits(k, front)
    BY <2>4, <2>6
  <2>8. n - 1 \in Nat /\ n - 1 < n
    BY <1>5, <2>1
  <2>9. Dismissed(k, front, AllUnref(k, front))
    BY <1>4, <2>1, <2>7, <2>8
  <2>10. AllUnref(g, us) = AllUnref(k, front)
    BY <2>1, AllUnrefAppend DEF k
  <2>. DEFINE l == AllUnref(k, front)
  <2>11. IsHeap(l) /\ Remains(k, l) /\ \A v : Cnt(l, v) = Cnt(k, v) - Places(front, v)
    BY <2>9 DEF Dismissed
  <2>. HIDE DEF l
  <2>12. Remains(g, l)
    BY <2>4, <2>11, RemainsThrough
  <2>13. \A v : Cnt(l, v) = Cnt(g, v) - Places(us, v)
    <3>. TAKE v
    <3>. DEFINE d == IF w = v THEN 1 ELSE 0
    <3>1. /\ Places(us, v) = Places(front, v) + d /\ Cnt(k, v) = Cnt(g, v) - d
          /\ Cnt(l, v) = Cnt(k, v) - Places(front, v)
      BY <2>1, <2>4, <2>11
    <3>2. d \in {0, 1} /\ Places(front, v) \in Nat /\ Cnt(g, v) \in Nat
      BY <2>2, <2>5
    <3>. HIDE DEF d
    <3>. QED
      BY <3>1, <3>2
  <2>14. Dismissed(g, us, l)
    BY <2>11, <2>12, <2>13 DEF Dismissed
  <2>. QED
    BY <1>7, <2>10, <2>14 DEF l
<1>. QED
  BY <1>8, <1>9

-------------------------------------------------------------------------------
(***************************************************************************)
(* Who owns a file that is mapped.                                         *)
(***************************************************************************)

Owned(h, res) ==
  /\ \A w \in DOMAIN h.wraps : h.wraps[w].map \in h.maps \cup {0}
  /\ \A r \in DOMAIN res : res[r].map \in h.maps \cup {0}
  /\ \A n \in h.maps : \/ \E w \in DOMAIN h.wraps : h.wraps[w].map = n
                       \/ \E r \in DOMAIN res : res[r].map = n
  /\ \A v, w \in DOMAIN h.wraps : h.wraps[v].map = h.wraps[w].map => v = w \/ h.wraps[v].map = 0
  /\ \A r, s \in DOMAIN res : res[r].map = res[s].map => r = s \/ res[r].map = 0
  /\ \A w \in DOMAIN h.wraps : \A r \in DOMAIN res :
       h.wraps[w].map = res[r].map => res[r].map = 0

SameMaps(h, k) ==
  /\ k.maps = h.maps /\ DOMAIN k.wraps = DOMAIN h.wraps
  /\ \A w \in DOMAIN h.wraps : k.wraps[w].map = h.wraps[w].map

(* No file changes its owner, one wrapper or resource comes, one goes. *)
LEMMA OwnedSame ==
  ASSUME NEW h, NEW k, SameMaps(h, k), NEW res, Owned(h, res)
  PROVE  Owned(k, res)
BY DEF Owned, SameMaps

LEMMA OwnedRemains ==
  ASSUME NEW h, NEW k, Remains(h, k), NEW res, Owned(h, res)
  PROVE  Owned(k, res)
<1>. DEFINE gone == {h.wraps[w].map : w \in DOMAIN h.wraps \ DOMAIN k.wraps}
<1>1. /\ DOMAIN k.wraps \subseteq DOMAIN h.wraps /\ k.maps = h.maps \ gone
      /\ \A w \in DOMAIN k.wraps : k.wraps[w].map = h.wraps[w].map
  BY DEF Remains
<1>2. \A n : n \in gone <=> \E w \in DOMAIN h.wraps \ DOMAIN k.wraps : h.wraps[w].map = n
  OBVIOUS
<1>. HIDE DEF gone
<1>3. \A w \in DOMAIN k.wraps : k.wraps[w].map \in k.maps \cup {0}
  BY <1>1, <1>2 DEF Owned
<1>4. \A r \in DOMAIN res : res[r].map \in k.maps \cup {0}
  BY <1>1, <1>2 DEF Owned
<1>5. \A n \in k.maps : \/ \E w \in DOMAIN k.wraps : k.wraps[w].map = n
                        \/ \E r \in DOMAIN res : res[r].map = n
  <2>. TAKE n \in k.maps
  <2>1. CASE \E w \in DOMAIN h.wraps : h.wraps[w].map = n
    BY <1>1, <1>2, <2>1
  <2>2. CASE \E r \in DOMAIN res : res[r].map = n
    BY <2>2
  <2>. QED
    BY <1>1, <2>1, <2>2 DEF Owned
<1>. QED
  BY <1>1, <1>3, <1>4, <1>5 DEF Owned

LEMMA OwnedWraps ==
  ASSUME NEW h, NEW k, NEW w, NEW x, Wraps(h, k, w, x), NEW res, Owned(h, res),
         x.map \notin h.maps, k.maps = h.maps \cup ({x.map} \ {0})
  PROVE  Owned(k, res)
<1>1. /\ DOMAIN k.wraps = DOMAIN h.wraps \cup {w} /\ w \notin DOMAIN h.wraps
      /\ \A v \in DOMAIN h.wraps : k.wraps[v].map = h.wraps[v].map
      /\ k.wraps[w].map = x.map
  BY DEF Wraps
<1>2. \A v \in DOMAIN k.wraps : k.wraps[v].map \in k.maps \cup {0}
  BY <1>1 DEF Owned
<1>3. \A n \in k.maps : \/ \E v \in DOMAIN k.wraps : k.wraps[v].map = n
                        \/ \E r \in DOMAIN res : res[r].map = n
  BY <1>1 DEF Owned
<1>4. \A u, v \in DOMAIN k.wraps : k.wraps[u].map = k.wraps[v].map => u = v \/ k.wraps[u].map = 0
  BY <1>1 DEF Owned
<1>5. \A v \in DOMAIN k.wraps : \A r \in DOMAIN res :
        k.wraps[v].map = res[r].map => res[r].map = 0
  BY <1>1 DEF Owned
<1>. QED
  BY <1>2, <1>3, <1>4, <1>5 DEF Owned

LEMMA OwnedPut ==
  ASSUME NEW h, NEW k, DOMAIN k.wraps = DOMAIN h.wraps,
         \A w \in DOMAIN h.wraps : k.wraps[w].map = h.wraps[w].map,
         NEW res, Owned(h, res), NEW r, r \notin DOMAIN res, NEW x, x.map \notin h.maps,
         k.maps = h.maps \cup ({x.map} \ {0})
  PROVE  Owned(k, Put(res, r, x))
<1>. DEFINE g == Put(res, r, x)
<1>1. DOMAIN g = DOMAIN res \cup {r} /\ g[r] = x /\ \A s \in DOMAIN res : g[s] = res[s]
  BY DEF Put
<1>. HIDE DEF g
<1>2. \A s \in DOMAIN g : g[s].map \in k.maps \cup {0}
  BY <1>1 DEF Owned
<1>3. \A n \in k.maps : \/ \E w \in DOMAIN k.wraps : k.wraps[w].map = n
                        \/ \E s \in DOMAIN g : g[s].map = n
  <2>. TAKE n \in k.maps
  <2>1. CASE n \in h.maps
    BY <1>1, <2>1 DEF Owned
  <2>2. CASE n \notin h.maps
    BY <1>1, <2>2
  <2>. QED
    BY <2>1, <2>2
<1>4. \A s, u \in DOMAIN g : g[s].map = g[u].map => s = u \/ g[s].map = 0
  BY <1>1 DEF Owned
<1>5. \A w \in DOMAIN k.wraps : \A s \in DOMAIN g :
        k.wraps[w].map = g[s].map => g[s].map = 0
  BY <1>1 DEF Owned
<1>6. \A w \in DOMAIN k.wraps : k.wraps[w].map \in k.maps \cup {0}
  BY DEF Owned
<1>7. \A v, w \in DOMAIN k.wraps : k.wraps[v].map = k.wraps[w].map => v = w \/ k.wraps[v].map = 0
  BY DEF Owned
<1>8. Owned(k, g)
  BY <1>2, <1>3, <1>4, <1>5, <1>6, <1>7 DEF Owned
<1>. QED
  BY <1>8 DEF g

LEMMA OwnedDrop ==
  ASSUME NEW h, NEW k, k.wraps = h.wraps, NEW res, Owned(h, res), NEW r \in DOMAIN res,
         k.maps = h.maps \ {res[r].map}
  PROVE  Owned(k, Drop(res, r))
<1>. DEFINE g == Drop(res, r)
<1>1. DOMAIN g = DOMAIN res \ {r} /\ \A s \in DOMAIN g : g[s] = res[s]
  BY DEF Drop
<1>. HIDE DEF g
<1>2. \A s \in DOMAIN g : g[s].map \in k.maps \cup {0}
  BY <1>1 DEF Owned
<1>3. \A n \in k.maps : \/ \E w \in DOMAIN k.wraps : k.wraps[w].map = n
                        \/ \E s \in DOMAIN g : g[s].map = n
  BY <1>1 DEF Owned
<1>4. \A s, u \in DOMAIN g : g[s].map = g[u].map => s = u \/ g[s].map = 0
  BY <1>1 DEF Owned
<1>5. \A w \in DOMAIN k.wraps : \A s \in DOMAIN g :
        k.wraps[w].map = g[s].map => g[s].map = 0
  BY <1>1 DEF Owned
<1>6. \A w \in DOMAIN k.wraps : k.wraps[w].map \in k.maps \cup {0}
  BY DEF Owned
<1>7. \A v, w \in DOMAIN k.wraps : k.wraps[v].map = k.wraps[w].map => v = w \/ k.wraps[v].map = 0
  BY DEF Owned
<1>8. Owned(k, g)
  BY <1>2, <1>3, <1>4, <1>5, <1>6, <1>7 DEF Owned
<1>. QED
  BY <1>8 DEF g

LEMMA OwnedOnce ==
  ASSUME NEW h, NEW res, Owned(h, res), NEW n \in Positive
  PROVE  Cardinality({w \in DOMAIN h.wraps : h.wraps[w].map = n})
         + Cardinality({r \in DOMAIN res : res[r].map = n}) = IF n \in h.maps THEN 1 ELSE 0
<1>. DEFINE W == {w \in DOMAIN h.wraps : h.wraps[w].map = n}
            R == {r \in DOMAIN res : res[r].map = n}
<1>. SUFFICES Cardinality(W) + Cardinality(R) = IF n \in h.maps THEN 1 ELSE 0
  OBVIOUS
<1>. HIDE DEF W, R
<1>1. n # 0
  BY DEF Positive
<1>2. CASE n \notin h.maps
  <2>1. W = {} /\ R = {}
    BY <1>1, <1>2 DEF Owned, W, R
  <2>. QED
    BY <1>2, <2>1, FS_EmptySet
<1>3. CASE n \in h.maps /\ \E w \in DOMAIN h.wraps : h.wraps[w].map = n
  <2>1. PICK w \in DOMAIN h.wraps : h.wraps[w].map = n
    BY <1>3
  <2>2. W = {w} /\ R = {}
    BY <1>1, <2>1 DEF Owned, W, R
  <2>. QED
    BY <1>3, <2>2, FS_EmptySet, FS_Singleton
<1>4. CASE n \in h.maps /\ ~ \E w \in DOMAIN h.wraps : h.wraps[w].map = n
  <2>1. PICK r \in DOMAIN res : res[r].map = n
    BY <1>4 DEF Owned
  <2>2. R = {r} /\ W = {}
    BY <1>1, <1>4, <2>1 DEF Owned, W, R
  <2>. QED
    BY <1>4, <2>2, FS_EmptySet, FS_Singleton
<1>. QED
  BY <1>2, <1>3, <1>4

-------------------------------------------------------------------------------
(* References that C++ resources own. *)

Sharing(res, w) == Cardinality({r \in DOMAIN res : res[r].schema = w})

(* The resources of a wrapper. *)
LEMMA SharingNat ==
  ASSUME NEW res, IsFiniteSet(DOMAIN res), NEW w
  PROVE  /\ Sharing(res, w) \in Nat
         /\ Sharing(res, w) = 0 <=> \A r \in DOMAIN res : res[r].schema # w
<1>1. IsFiniteSet({r \in DOMAIN res : res[r].schema = w})
  BY FS_Subset
<1>2. Sharing(res, w) = 0 <=> {r \in DOMAIN res : res[r].schema = w} = {}
  BY <1>1, FS_EmptySet DEF Sharing
<1>. QED
  BY <1>1, <1>2, FS_CardinalityType DEF Sharing

LEMMA SharingPut ==
  ASSUME NEW res, IsFiniteSet(DOMAIN res), NEW r, r \notin DOMAIN res, NEW x, NEW w
  PROVE  Sharing(Put(res, r, x), w) = Sharing(res, w) + IF x.schema = w THEN 1 ELSE 0
<1>. DEFINE A == {s \in DOMAIN res : res[s].schema = w}
            g == Put(res, r, x)
            B == {s \in DOMAIN g : g[s].schema = w}
<1>1. DOMAIN g = DOMAIN res \cup {r} /\ g[r] = x /\ \A s \in DOMAIN res : g[s] = res[s]
  BY DEF Put
<1>2. IsFiniteSet(A) /\ r \notin A
  BY FS_Subset
<1>3. Cardinality(A) \in Nat
  BY <1>2, FS_CardinalityType
<1>. HIDE DEF g
<1>4. CASE x.schema = w
  <2>1. B = A \cup {r}
    BY <1>1, <1>4
  <2>. HIDE DEF A, B
  <2>2. Cardinality(B) = Cardinality(A) + 1
    BY <1>2, <2>1, FS_AddElement
  <2>. QED
    BY <1>4, <2>2 DEF Sharing, A, B, g
<1>5. CASE x.schema # w
  <2>1. B = A
    BY <1>1, <1>5
  <2>. HIDE DEF A, B
  <2>2. Cardinality(B) = Cardinality(A)
    BY <2>1
  <2>. QED
    BY <1>3, <1>5, <2>2 DEF Sharing, A, B, g
<1>. QED
  BY <1>4, <1>5

LEMMA SharingDrop ==
  ASSUME NEW res, IsFiniteSet(DOMAIN res), NEW r \in DOMAIN res, NEW w
  PROVE  Sharing(Drop(res, r), w) = Sharing(res, w) - IF res[r].schema = w THEN 1 ELSE 0
<1>. DEFINE A == {s \in DOMAIN res : res[s].schema = w}
            g == Drop(res, r)
            B == {s \in DOMAIN g : g[s].schema = w}
<1>1. DOMAIN g = DOMAIN res \ {r} /\ \A s \in DOMAIN g : g[s] = res[s]
  BY DEF Drop
<1>2. IsFiniteSet(A)
  BY FS_Subset
<1>3. Cardinality(A) \in Nat
  BY <1>2, FS_CardinalityType
<1>. HIDE DEF g
<1>4. CASE res[r].schema = w
  <2>1. B = A \ {r} /\ r \in A
    BY <1>1, <1>4
  <2>. HIDE DEF A, B
  <2>2. Cardinality(B) = Cardinality(A) - 1
    BY <1>2, <2>1, FS_RemoveElement
  <2>. QED
    BY <1>4, <2>2 DEF Sharing, A, B, g
<1>5. CASE res[r].schema # w
  <2>1. B = A
    BY <1>1, <1>5
  <2>. HIDE DEF A, B
  <2>2. Cardinality(B) = Cardinality(A)
    BY <2>1
  <2>. QED
    BY <1>3, <1>5, <2>2 DEF Sharing, A, B, g
<1>. QED
  BY <1>4, <1>5

LEMMA SharingSame ==
  ASSUME NEW res, NEW g, DOMAIN g = DOMAIN res,
         \A r \in DOMAIN res : g[r].schema = res[r].schema, NEW w
  PROVE  Sharing(g, w) = Sharing(res, w)
<1>1. {r \in DOMAIN g : g[r].schema = w} = {r \in DOMAIN res : res[r].schema = w}
  OBVIOUS
<1>. QED
  BY <1>1 DEF Sharing

-------------------------------------------------------------------------------
(***************************************************************************)
(* The invariant.                                                          *)
(***************************************************************************)

(* The states of the parse that runs. *)
Open == IF session = NULL THEN <<>> ELSE States

Refs(w) == Held(w) + Sharing(resources, w) + Places(Open, w)

ResourceSet == [cnt : 1 .. MaxHeld, schema : Positive \cup {NULL}, map : Nat]

HeldTyped ==
  DOMAIN held \subseteq Positive /\ \A w \in DOMAIN held : held[w] \in 1 .. MaxHeld

ResourcesTyped ==
  /\ IsFiniteSet(DOMAIN resources) /\ DOMAIN resources \subseteq Positive
  /\ \A r \in DOMAIN resources : resources[r] \in ResourceSet

(* The parse that runs holds its resolver's schema. *)
SessionTyped ==
  /\ session = NULL \/ session \in Sessions
  /\ Open \in Seq(Positive)
  /\ session # NULL /\ session.resolver.does = "lend" => Held(session.resolver.schema) > 0

(* The counter of each wrapper is the number of its references. *)
Referenced == \A w \in Positive : Refs(w) = Cnt(heap, w)

(* As long as no resolver has handed out a schema it keeps, no schema of a
   client has lost its elements, and the parse that runs has none that does. *)
Fed ==
  ~lent => /\ \A w \in Usable : heap.wraps[w].elements # <<>>
           /\ session # NULL => session.resolver.does # "lend"

Sound ==
  /\ IsHeap(heap) /\ HeldTyped /\ ResourcesTyped /\ SessionTyped /\ lent \in BOOLEAN
  /\ Referenced

IInv == Sound /\ Owned(heap, resources) /\ Fed

-------------------------------------------------------------------------------
(* What follows for a state. *)

(* A client holds a wrapper as often as held says. *)
LEMMA HeldNat ==
  ASSUME HeldTyped
  PROVE  \A w : Held(w) \in 0 .. MaxHeld /\ (Held(w) > 0 <=> w \in DOMAIN held)
BY StoreConstants DEF HeldTyped, Held

LEMMA OpenTyped ==
  ASSUME SessionTyped
  PROVE  /\ Open \in Seq(Positive)
         /\ session # NULL => /\ session.resolver \in Resolvers(Nat) /\ States \in Seq(Positive)
                              /\ Open = States
<1>1. session # NULL => /\ session.resolver \in Resolvers(Nat) /\ session.states \in Seq(Nat)
  BY DEF SessionTyped, Sessions
<1>. QED
  BY <1>1 DEF Open, SessionTyped

(* Each kind of reference is a number. *)
LEMMA RefsNat ==
  ASSUME Sound, NEW w \in Positive
  PROVE  /\ Held(w) \in Nat /\ Sharing(resources, w) \in Nat /\ Places(Open, w) \in Nat
         /\ Held(w) + Sharing(resources, w) + Places(Open, w) = Cnt(heap, w)
         /\ Cnt(heap, w) \in Nat
         /\ Cnt(heap, w) = 0 <=> w \notin DOMAIN heap.wraps
<1>1. Held(w) \in Nat
  BY HeldNat, StoreConstants DEF Sound
<1>2. Sharing(resources, w) \in Nat
  BY SharingNat DEF Sound, ResourcesTyped
<1>3. Places(Open, w) \in Nat
  BY OpenTyped, PlacesNat DEF Sound
<1>4. Cnt(heap, w) \in Nat /\ (Cnt(heap, w) = 0 <=> w \notin DOMAIN heap.wraps)
  BY DEF Sound, IsHeap, Cnt, Wrapper, Positive
<1>. QED
  BY <1>1, <1>2, <1>3, <1>4 DEF Sound, Referenced, Refs

(* What is referred to is there. *)
LEMMA Alive ==
  ASSUME Sound
  PROVE  /\ DOMAIN held \subseteq DOMAIN heap.wraps
         /\ \A r \in DOMAIN resources :
              resources[r].schema # NULL => resources[r].schema \in DOMAIN heap.wraps
         /\ \A i \in 1 .. Len(Open) : Open[i] \in DOMAIN heap.wraps
         /\ Usable \subseteq DOMAIN heap.wraps
         /\ \A v : Places(Open, v) <= Cnt(heap, v)
<1>1. ASSUME NEW w \in DOMAIN held PROVE w \in DOMAIN heap.wraps
  <2>1. w \in Positive /\ Held(w) > 0
    BY HeldNat DEF Sound, HeldTyped
  <2>. QED
    BY <2>1, RefsNat
<1>2. ASSUME NEW r \in DOMAIN resources, resources[r].schema # NULL
      PROVE  resources[r].schema \in DOMAIN heap.wraps
  <2>. DEFINE w == resources[r].schema
  <2>1. w \in Positive
    BY <1>2 DEF Sound, ResourcesTyped, ResourceSet
  <2>2. Sharing(resources, w) # 0
    BY SharingNat DEF Sound, ResourcesTyped
  <2>. QED
    BY <2>1, <2>2, RefsNat
<1>3. ASSUME NEW v PROVE Places(Open, v) <= Cnt(heap, v)
  <2>1. CASE v \in Positive
    BY <2>1, RefsNat
  <2>2. CASE v \notin Positive
    <3>1. v \notin DOMAIN heap.wraps
      BY <2>2 DEF Sound, IsHeap
    <3>2. \A i \in 1 .. Len(Open) : Open[i] # v
      BY <2>2, OpenTyped DEF Sound
    <3>3. Places(Open, v) = 0
      BY <3>2, OpenTyped, PlacesNat DEF Sound
    <3>. QED
      BY <3>1, <3>3 DEF Cnt
  <2>. QED
    BY <2>1, <2>2
<1>4. ASSUME NEW i \in 1 .. Len(Open) PROVE Open[i] \in DOMAIN heap.wraps
  <2>1. Open[i] \in Positive /\ Places(Open, Open[i]) # 0
    BY OpenTyped, PlacesNat DEF Sound
  <2>. QED
    BY <2>1, RefsNat
<1>. QED
  BY <1>1, <1>2, <1>3, <1>4 DEF Usable

(* What a client can parse with is there. *)
LEMMA UsableAlive == Sound => Usable \subseteq DOMAIN heap.wraps
BY Alive

(* The same of the state after a step. *)
LEMMA UsableAliveNext == Sound' => (Usable \subseteq DOMAIN heap.wraps)'
BY UsableAlive, PTL

(* The schemas of a client keep their elements when wrappers go. *)
LEMMA FedRemains ==
  ASSUME Fed, Sound', Remains(heap, heap'), lent' = lent, Usable' \subseteq Usable,
         session' # NULL => session # NULL /\ session'.resolver = session.resolver
  PROVE  Fed'
<1>1. Usable' \subseteq DOMAIN heap'.wraps
  BY UsableAliveNext
<1>2. \A v \in Usable' : heap'.wraps[v].elements = heap.wraps[v].elements
  BY <1>1 DEF Remains
<1>. QED
  BY <1>2 DEF Fed

(* A client takes or gives up references to one wrapper. *)
LEMMA HoldsFacts ==
  ASSUME HeldTyped, NEW w \in Positive, NEW n \in 0 .. MaxHeld, Holds(w, n)
  PROVE  /\ HeldTyped'
         /\ \A v : Held(v)' = IF v = w THEN n ELSE Held(v)
         /\ DOMAIN held' \subseteq DOMAIN held \cup {w}
         /\ n = 0 => DOMAIN held' = DOMAIN held \ {w}
<1>1. CASE n = 0
  <2>1. held' = Drop(held, w)
    BY <1>1 DEF Holds
  <2>2. DOMAIN held' = DOMAIN held \ {w} /\ \A v \in DOMAIN held' : held'[v] = held[v]
    BY <2>1 DEF Drop
  <2>. QED
    BY <1>1, <2>2 DEF HeldTyped, Held
<1>2. CASE n # 0
  <2>1. held' = Put(held, w, n)
    BY <1>2 DEF Holds
  <2>2. DOMAIN held' = DOMAIN held \cup {w} /\ held'[w] = n
        /\ \A v \in DOMAIN held \ {w} : held'[v] = held[v]
    BY <2>1 DEF Put
  <2>3. n \in 1 .. MaxHeld
    BY <1>2
  <2>. QED
    BY <1>2, <2>2, <2>3 DEF HeldTyped, Held
<1>. QED
  BY <1>1, <1>2

(* One more wrapper with one reference. *)
LEMMA WrapsCounts ==
  ASSUME NEW h, NEW k, NEW w, NEW x, Wraps(h, k, w, x), x.cnt = 1
  PROVE  \A v : Cnt(k, v) = IF v = w THEN 1 ELSE Cnt(h, v)
BY DEF Wraps, Cnt

-------------------------------------------------------------------------------
(* The initial state. *)

LEMMA InitHolds == Init => IInv
<1>. SUFFICES ASSUME Init PROVE IInv
  OBVIOUS
<1>. USE DEF Init
<1>1. IsHeap(heap)
  BY FS_EmptySet DEF IsHeap
<1>2. HeldTyped
  BY DEF HeldTyped
<1>3. ResourcesTyped
  BY FS_EmptySet DEF ResourcesTyped
<1>4. SessionTyped /\ Open = <<>>
  BY DEF SessionTyped, Open
<1>5. Referenced
  <2>. SUFFICES ASSUME NEW w \in Positive PROVE Refs(w) = Cnt(heap, w)
    BY DEF Referenced
  <2>1. Held(w) = 0 /\ Cnt(heap, w) = 0
    BY DEF Held, Cnt
  <2>2. Sharing(resources, w) = 0
    <3>1. IsFiniteSet(DOMAIN resources) /\ DOMAIN resources = {}
      BY FS_EmptySet
    <3>. QED
      BY <3>1, SharingNat
  <2>3. Places(Open, w) = 0
    BY <1>4, PlacesEmpty
  <2>. QED
    BY <2>1, <2>2, <2>3 DEF Refs
<1>6. Owned(heap, resources)
  BY DEF Owned
<1>7. Fed
  BY DEF Fed, Usable
<1>. QED
  BY <1>1, <1>2, <1>3, <1>4, <1>5, <1>6, <1>7 DEF IInv, Sound

-------------------------------------------------------------------------------
(* The C API keeps the invariant. *)

(* Nobody refers to a wrapper that is not there. *)
LEMMA Unreferred ==
  ASSUME Sound, NEW w \in Positive, w \notin DOMAIN heap.wraps
  PROVE  /\ Held(w) = 0 /\ Sharing(resources, w) = 0 /\ Places(Open, w) = 0
         /\ Cnt(heap, w) = 0
BY RefsNat

LEMMA ParseHolds ==
  ASSUME IInv, NEW t \in Texts, NEW mapped \in BOOLEAN, JschemaParse(t, mapped)
  PROVE  IInv'
<1>. DEFINE w == FreeWrap(heap)
            n == FreeText(heap)
            x == [cnt |-> 1, elements |-> <<[text |-> n, node |-> t]>>,
                  map |-> IF mapped THEN n ELSE 0]
<1>1. IsHeap(heap') /\ ParsedAs(heap, heap', t, mapped, n, w)
  BY ParsedHeap DEF JschemaParse, IInv, Sound
<1>2. Wraps(heap, heap', w, x) /\ heap'.maps = heap.maps \cup (IF mapped THEN {n} ELSE {})
      /\ n \in Positive /\ n \notin heap.maps
  BY <1>1 DEF ParsedAs
<1>3. x.cnt = 1 /\ x.elements # <<>> /\ x.map = IF mapped THEN n ELSE 0
  OBVIOUS
<1>. HIDE DEF w, n, x
<1>4. w \in Positive /\ w \notin DOMAIN heap.wraps
  BY <1>2 DEF Wraps
<1>5. UNCHANGED <<resources, session, lent>> /\ Holds(w, 1)
  BY DEF JschemaParse, w
<1>6. 1 \in 0 .. MaxHeld
  BY StoreConstants
<1>7. HeldTyped' /\ (\A v : Held(v)' = IF v = w THEN 1 ELSE Held(v))
      /\ DOMAIN held' \subseteq DOMAIN held \cup {w}
  BY <1>4, <1>5, <1>6, HoldsFacts DEF IInv, Sound
<1>8. Held(w) = 0 /\ Sharing(resources, w) = 0 /\ Places(Open, w) = 0 /\ Cnt(heap, w) = 0
  BY <1>4, Unreferred DEF IInv
<1>9. Open' = Open
  BY <1>5 DEF Open, States
<1>10. ResourcesTyped' /\ (lent \in BOOLEAN)'
  BY <1>5 DEF IInv, Sound, ResourcesTyped
<1>11. SessionTyped'
  <2>1. session' # NULL /\ session'.resolver.does = "lend" => Held(session.resolver.schema)' > 0
    BY <1>5, <1>7 DEF IInv, Sound, SessionTyped
  <2>. QED
    BY <1>5, <1>9, <2>1 DEF IInv, Sound, SessionTyped
<1>12. Referenced'
  <2>. SUFFICES ASSUME NEW v \in Positive PROVE Refs(v)' = Cnt(heap', v)
    BY DEF Referenced
  <2>1. Cnt(heap', v) = IF v = w THEN 1 ELSE Cnt(heap, v)
    BY <1>2, <1>3, WrapsCounts
  <2>2. Refs(v)' = Held(v)' + Sharing(resources, v) + Places(Open, v)
    BY <1>5, <1>9 DEF Refs
  <2>. QED
    BY <1>7, <1>8, <2>1, <2>2, RefsNat DEF IInv
<1>13. Owned(heap', resources')
  <2>1. x.map \notin heap.maps /\ heap'.maps = heap.maps \cup ({x.map} \ {0})
    BY <1>2, <1>3 DEF Positive, IInv, Sound, IsHeap
  <2>. QED
    BY <1>2, <1>5, <2>1, OwnedWraps DEF IInv, Sound
<1>14. Fed'
  <2>1. Usable' \subseteq Usable \cup {w}
    BY <1>5, <1>7 DEF Usable
  <2>2. \A v \in Usable : heap'.wraps[v] = heap.wraps[v]
    BY <1>2, Alive DEF Wraps, IInv
  <2>3. heap'.wraps[w].elements # <<>>
    BY <1>2, <1>3 DEF Wraps
  <2>. QED
    BY <1>5, <2>1, <2>2, <2>3 DEF Fed, IInv, Sound
<1>. QED
  BY <1>1, <1>7, <1>10, <1>11, <1>12, <1>13, <1>14 DEF IInv, Sound

LEMMA CopyHolds ==
  ASSUME IInv, NEW w \in DOMAIN heap.wraps, JschemaCopy(w)
  PROVE  IInv'
<1>. DEFINE c == Held(w) + 1
            x == [cnt |-> heap.wraps[w].cnt + 1, elements |-> heap.wraps[w].elements,
                  map |-> heap.wraps[w].map]
<1>1. IsHeap(heap') /\ Rewrapped(heap, heap', w, x)
  <2>1. heap.wraps[w].cnt + 1 \in Positive
    BY DEF IInv, Sound, IsHeap, Wrapper, Positive
  <2>. QED
    BY <2>1, CountedHeap DEF JschemaCopy, Ref, IInv, Sound
<1>2. x.cnt = heap.wraps[w].cnt + 1 /\ x.elements = heap.wraps[w].elements
      /\ x.map = heap.wraps[w].map
  OBVIOUS
<1>. HIDE DEF x
<1>3. w \in Positive /\ c \in 0 .. MaxHeld
  BY StoreConstants DEF IInv, Sound, IsHeap, JschemaCopy
<1>4. UNCHANGED <<resources, session, lent>> /\ Holds(w, c) /\ w \in DOMAIN held
  BY HeldNat DEF JschemaCopy, IInv, Sound
<1>. HIDE DEF c
<1>5. HeldTyped' /\ (\A v : Held(v)' = IF v = w THEN c ELSE Held(v))
      /\ DOMAIN held' \subseteq DOMAIN held \cup {w}
  BY <1>3, <1>4, HoldsFacts DEF IInv, Sound
<1>6. Open' = Open
  BY <1>4 DEF Open, States
<1>7. ResourcesTyped' /\ (lent \in BOOLEAN)'
  BY <1>4 DEF IInv, Sound, ResourcesTyped
<1>8. c = Held(w) + 1 /\ Held(w) \in Nat
  BY <1>3, RefsNat DEF c, IInv
<1>9. SessionTyped'
  <2>1. session' # NULL /\ session'.resolver.does = "lend" => Held(session.resolver.schema)' > 0
    BY <1>4, <1>5, <1>8 DEF IInv, Sound, SessionTyped
  <2>. QED
    BY <1>4, <1>6, <2>1 DEF IInv, Sound, SessionTyped
<1>10. Referenced'
  <2>. SUFFICES ASSUME NEW v \in Positive PROVE Refs(v)' = Cnt(heap', v)
    BY DEF Referenced
  <2>1. Cnt(heap', v) = IF v = w THEN Cnt(heap, w) + 1 ELSE Cnt(heap, v)
    BY <1>1, <1>2 DEF Cnt, Rewrapped
  <2>2. Refs(v)' = Held(v)' + Sharing(resources, v) + Places(Open, v)
    BY <1>4, <1>6 DEF Refs
  <2>. QED
    BY <1>5, <1>8, <2>1, <2>2, RefsNat DEF IInv
<1>11. Owned(heap', resources')
  BY <1>1, <1>2, <1>4, OwnedSame DEF IInv, Sound, Rewrapped, SameMaps
<1>12. Fed'
  <2>1. Usable' \subseteq Usable
    BY <1>4, <1>5 DEF Usable
  <2>2. \A v \in Usable : heap'.wraps[v].elements = heap.wraps[v].elements
    BY <1>1, <1>2, Alive DEF Rewrapped, IInv
  <2>. QED
    BY <1>4, <2>1, <2>2 DEF Fed, IInv, Sound
<1>. QED
  BY <1>1, <1>5, <1>7, <1>9, <1>10, <1>11, <1>12 DEF IInv, Sound

LEMMA ReleaseHolds ==
  ASSUME IInv, NEW w \in DOMAIN heap.wraps, JschemaRelease(w)
  PROVE  IInv'
<1>. DEFINE c == Held(w) - 1
<1>1. w \in Positive /\ Held(w) \in 0 .. MaxHeld
  BY HeldNat DEF IInv, Sound, IsHeap
<1>2. Held(w) > 0 /\ (Lends(w) => Held(w) > 1)
  BY <1>1, StoreConstants DEF JschemaRelease
<1>3. c \in 0 .. MaxHeld /\ w \in DOMAIN held
  BY <1>1, <1>2, StoreConstants, HeldNat DEF IInv, Sound
<1>4. UNCHANGED <<resources, session, lent>> /\ Holds(w, c) /\ heap' = Unref(heap, w)
  BY DEF JschemaRelease
<1>. HIDE DEF c
<1>5. HeldTyped' /\ (\A v : Held(v)' = IF v = w THEN c ELSE Held(v))
      /\ DOMAIN held' \subseteq DOMAIN held \cup {w}
  BY <1>1, <1>3, <1>4, HoldsFacts DEF IInv, Sound
<1>6. Open' = Open
  BY <1>4 DEF Open, States
<1>7. ResourcesTyped' /\ (lent \in BOOLEAN)'
  BY <1>4 DEF IInv, Sound, ResourcesTyped
<1>8. c = Held(w) - 1 /\ Held(w) \in Nat
  BY <1>1, RefsNat DEF c, IInv
<1>9. SessionTyped'
  <2>1. session' # NULL /\ session'.resolver.does = "lend" => Held(session.resolver.schema)' > 0
    <3>1. CASE session # NULL /\ session.resolver.does = "lend" /\ session.resolver.schema = w
      <4>1. Held(w) > 1
        BY <1>2, <3>1 DEF Lends
      <4>. QED
        BY <1>4, <1>5, <1>8, <3>1, <4>1
    <3>2. CASE ~(session # NULL /\ session.resolver.does = "lend"
                 /\ session.resolver.schema = w)
      BY <1>4, <1>5, <3>2 DEF IInv, Sound, SessionTyped
    <3>. QED
      BY <3>1, <3>2
  <2>. QED
    BY <1>4, <1>6, <2>1 DEF IInv, Sound, SessionTyped
<1>10. IsHeap(heap') /\ Remains(heap, heap')
       /\ \A v : Cnt(heap', v) = Cnt(heap, v) - IF v = w THEN 1 ELSE 0
  BY <1>4, UnrefCounts DEF IInv, Sound
<1>11. Referenced'
  <2>. SUFFICES ASSUME NEW v \in Positive PROVE Refs(v)' = Cnt(heap', v)
    BY DEF Referenced
  <2>1. Refs(v)' = Held(v)' + Sharing(resources, v) + Places(Open, v)
    BY <1>4, <1>6 DEF Refs
  <2>2. CASE v = w
    BY <1>5, <1>8, <1>10, <2>1, <2>2, RefsNat DEF IInv
  <2>3. CASE v # w
    BY <1>5, <1>10, <2>1, <2>3, RefsNat DEF IInv
  <2>. QED
    BY <2>2, <2>3
<1>12. Owned(heap', resources')
  BY <1>4, <1>10, OwnedRemains DEF IInv, Sound
<1>13. Sound'
  BY <1>5, <1>7, <1>9, <1>10, <1>11 DEF Sound
<1>14. Usable' \subseteq Usable
  BY <1>3, <1>4, <1>5 DEF Usable
<1>15. Fed'
  BY <1>4, <1>10, <1>13, <1>14, FedRemains DEF IInv
<1>. QED
  BY <1>12, <1>13, <1>15 DEF IInv

-------------------------------------------------------------------------------
(* The C++ handles keep the invariant. *)

(* A file that is mapped or unmapped. *)
LEMMA MapsSet ==
  ASSUME NEW h, IsHeap(h), NEW M, IsFiniteSet(M), M \subseteq Positive,
         NEW k, k = [h EXCEPT !.maps = M]
  PROVE  /\ IsHeap(k) /\ k.counts = h.counts /\ k.wraps = h.wraps /\ k.maps = M
         /\ k.leaked = h.leaked
<1>1. h = [counts |-> h.counts, wraps |-> h.wraps, maps |-> h.maps, leaked |-> h.leaked]
  BY DEF IsHeap
<1>2. k = [counts |-> h.counts, wraps |-> h.wraps, maps |-> M, leaked |-> h.leaked]
  BY <1>1
<1>3. k.counts = h.counts /\ k.wraps = h.wraps /\ k.maps = M /\ k.leaked = h.leaked
  BY <1>2
<1>. QED
  BY <1>2, <1>3 DEF IsHeap

(* A resource is made, of a wrapper that is new or of none. *)
LEMMA NewResourceFacts ==
  ASSUME Sound, NEW x \in ResourceSet, NewResource(x)
  PROVE  /\ UNCHANGED <<held, session, lent>> /\ ResourcesTyped'
         /\ \E r : r \notin DOMAIN resources /\ resources' = Put(resources, r, x)
         /\ \A v : Sharing(resources', v) = Sharing(resources, v) + IF x.schema = v THEN 1 ELSE 0
         /\ Usable' \subseteq Usable \cup ({x.schema} \ {NULL})
<1>. DEFINE r == FreeResource
<1>1. r \in Positive /\ r \notin DOMAIN resources
  BY UnusedIsFree DEF FreeResource, Sound, ResourcesTyped
<1>2. resources' = Put(resources, r, x) /\ UNCHANGED <<held, session, lent>>
  BY DEF NewResource
<1>. HIDE DEF r
<1>3. DOMAIN resources' = DOMAIN resources \cup {r} /\ resources'[r] = x
      /\ \A s \in DOMAIN resources : resources'[s] = resources[s]
  BY <1>1, <1>2 DEF Put
<1>4. ResourcesTyped'
  BY <1>1, <1>3, FS_AddElement DEF Sound, ResourcesTyped
<1>5. \A v : Sharing(resources', v) = Sharing(resources, v) + IF x.schema = v THEN 1 ELSE 0
  BY <1>1, <1>2, SharingPut DEF Sound, ResourcesTyped
<1>6. Usable' \subseteq Usable \cup ({x.schema} \ {NULL})
  BY <1>2, <1>3 DEF Usable
<1>. QED
  BY <1>1, <1>2, <1>4, <1>5, <1>6

(* What stays when neither the client's references nor the parse change. *)
LEMMA ClientKept ==
  ASSUME Sound, UNCHANGED <<held, session>>
  PROVE  /\ HeldTyped' /\ SessionTyped' /\ Open' = Open
         /\ \A v : Held(v)' = Held(v)
BY DEF Sound, HeldTyped, SessionTyped, Open, States, Held

(* A wrapper is made for a resource, which keeps its file as well when map is
   not zero. *)
LEMMA NewHandleHolds ==
  ASSUME IInv, NEW t \in Texts, NEW map \in Nat, NEW k, k = Parsed(heap, t, FALSE),
         map \notin heap.maps, map = 0 \/ map = FreeText(heap),
         IsHeap(heap'), heap'.counts = k.counts, heap'.wraps = k.wraps,
         heap'.leaked = k.leaked, heap'.maps = heap.maps \cup ({map} \ {0}),
         NewResource(Resource(FreeWrap(heap), map))
  PROVE  IInv'
<1>. DEFINE w == FreeWrap(heap)
            n == FreeText(heap)
            x == [cnt |-> 1, elements |-> <<[text |-> n, node |-> t]>>, map |-> 0]
            y == Resource(w, map)
<1>1. ParsedAs(heap, k, t, FALSE, n, w)
  BY ParsedHeap DEF IInv, Sound
<1>2. Wraps(heap, k, w, x) /\ k.maps = heap.maps
  BY <1>1 DEF ParsedAs
<1>3. x.cnt = 1 /\ x.elements # <<>> /\ x.map = 0
  OBVIOUS
<1>. HIDE DEF x
<1>4. w \in Positive /\ w \notin DOMAIN heap.wraps
  BY <1>2 DEF Wraps
<1>. HIDE DEF w
<1>5. y.schema = w /\ y.map = map /\ y \in ResourceSet
  BY <1>4, StoreConstants DEF Resource, ResourceSet
<1>6. NewResource(y)
  BY DEF w
<1>. HIDE DEF y
<1>7. w # NULL
  BY <1>4, StoreConstants DEF Positive
<1>8. /\ UNCHANGED <<held, session, lent>> /\ ResourcesTyped'
      /\ \E r : r \notin DOMAIN resources /\ resources' = Put(resources, r, y)
      /\ \A v : Sharing(resources', v) = Sharing(resources, v) + IF w = v THEN 1 ELSE 0
      /\ Usable' \subseteq Usable \cup {w}
  BY <1>5, <1>6, <1>7, NewResourceFacts DEF IInv
<1>9. HeldTyped' /\ SessionTyped' /\ Open' = Open /\ \A v : Held(v)' = Held(v)
  BY <1>8, ClientKept DEF IInv
<1>10. Held(w) = 0 /\ Sharing(resources, w) = 0 /\ Places(Open, w) = 0 /\ Cnt(heap, w) = 0
  BY <1>4, Unreferred DEF IInv
<1>11. Referenced'
  <2>. SUFFICES ASSUME NEW v \in Positive PROVE Refs(v)' = Cnt(heap', v)
    BY DEF Referenced
  <2>1. Cnt(heap', v) = IF v = w THEN 1 ELSE Cnt(heap, v)
    <3>1. Cnt(heap', v) = Cnt(k, v)
      BY DEF Cnt
    <3>2. \A u : Cnt(k, u) = IF u = w THEN 1 ELSE Cnt(heap, u)
      BY <1>2, <1>3 DEF Wraps, Cnt
    <3>. QED
      BY <3>1, <3>2
  <2>2. Refs(v)' = Held(v) + Sharing(resources', v) + Places(Open, v)
    BY <1>9 DEF Refs
  <2>. QED
    BY <1>8, <1>10, <2>1, <2>2, RefsNat DEF IInv
<1>12. Sound'
  BY <1>8, <1>9, <1>11 DEF IInv, Sound
<1>13. Owned(heap', resources')
  <2>1. 0 \notin heap.maps
    BY DEF IInv, Sound, IsHeap, Positive
  <2>2. Owned(k, resources)
    <3>1. x.map \notin heap.maps /\ k.maps = heap.maps \cup ({x.map} \ {0})
      BY <1>2, <1>3, <2>1
    <3>. QED
      BY <1>2, <3>1, OwnedWraps DEF IInv
  <2>3. PICK r : r \notin DOMAIN resources /\ resources' = Put(resources, r, y)
    BY <1>8
  <2>4. y.map \notin k.maps /\ heap'.maps = k.maps \cup ({y.map} \ {0})
    BY <1>2, <1>5
  <2>. QED
    BY <2>2, <2>3, <2>4, OwnedPut
<1>14. Fed'
  <2>1. \A v \in Usable : heap'.wraps[v] = heap.wraps[v]
    BY <1>2, Alive DEF Wraps, IInv
  <2>2. heap'.wraps[w].elements # <<>>
    BY <1>2, <1>3 DEF Wraps
  <2>. QED
    BY <1>8, <2>1, <2>2 DEF Fed, IInv
<1>. QED
  BY <1>12, <1>13, <1>14 DEF IInv

LEMMA FragmentHolds ==
  ASSUME IInv, NEW t \in Texts, JSchemaFragment(t)
  PROVE  IInv'
<1>. DEFINE k == Parsed(heap, t, FALSE)
<1>1. IsHeap(k) /\ ParsedAs(heap, k, t, FALSE, FreeText(heap), FreeWrap(heap))
  BY ParsedHeap DEF IInv, Sound
<1>2. heap' = k /\ NewResource(Resource(FreeWrap(heap), 0))
  BY DEF JSchemaFragment
<1>. HIDE DEF k
<1>3. k.maps = heap.maps \cup ({0} \ {0}) /\ 0 \notin heap.maps
  BY <1>1 DEF ParsedAs, IInv, Sound, IsHeap, Positive
<1>. QED
  BY <1>1, <1>2, <1>3, NewHandleHolds DEF k

LEMMA FileHolds ==
  ASSUME IInv, NEW t \in Texts \cup {NULL}, JSchemaFile(t)
  PROVE  IInv'
<1>. DEFINE n == FreeText(heap)
            k == Parsed(heap, t, FALSE)
<1>1. n \in Positive /\ n \notin heap.maps
  BY TextNumber DEF IInv, Sound
<1>2. n \in Nat /\ n # 0 /\ {n} \ {0} = {n}
  BY <1>1 DEF Positive
<1>3. IsFiniteSet(heap.maps \cup {n}) /\ heap.maps \cup {n} \subseteq Positive
  BY <1>1, FS_AddElement DEF IInv, Sound, IsHeap
<1>4. CASE t = NULL
  <2>. DEFINE y == Resource(NULL, n)
  <2>1. heap' = [heap EXCEPT !.maps = @ \cup {n}] /\ NewResource(y)
    BY <1>4 DEF JSchemaFile
  <2>2. y \in ResourceSet /\ y.schema = NULL /\ y.map = n
    BY <1>2, StoreConstants DEF Resource, ResourceSet
  <2>. HIDE DEF n, y
  <2>3. heap' = [heap EXCEPT !.maps = heap.maps \cup {n}]
    BY <2>1
  <2>4. IsHeap(heap') /\ heap'.wraps = heap.wraps /\ heap'.maps = heap.maps \cup {n}
    BY <1>3, <2>3, MapsSet DEF IInv, Sound
  <2>5. /\ UNCHANGED <<held, session, lent>> /\ ResourcesTyped'
        /\ \E r : r \notin DOMAIN resources /\ resources' = Put(resources, r, y)
        /\ \A v : Sharing(resources', v) = Sharing(resources, v) + IF NULL = v THEN 1 ELSE 0
        /\ Usable' \subseteq Usable
    BY <2>1, <2>2, NewResourceFacts DEF IInv
  <2>6. HeldTyped' /\ SessionTyped' /\ Open' = Open /\ \A v : Held(v)' = Held(v)
    BY <2>5, ClientKept DEF IInv
  <2>7. Referenced'
    <3>. SUFFICES ASSUME NEW v \in Positive PROVE Refs(v)' = Cnt(heap', v)
      BY DEF Referenced
    <3>1. Cnt(heap', v) = Cnt(heap, v) /\ v # NULL
      BY <2>4, StoreConstants DEF Cnt, Positive
    <3>2. Refs(v)' = Held(v) + Sharing(resources', v) + Places(Open, v)
      BY <2>6 DEF Refs
    <3>. QED
      BY <2>5, <3>1, <3>2, RefsNat DEF IInv
  <2>8. Sound'
    BY <2>4, <2>5, <2>6, <2>7 DEF IInv, Sound
  <2>9. Owned(heap', resources')
    <3>1. PICK r : r \notin DOMAIN resources /\ resources' = Put(resources, r, y)
      BY <2>5
    <3>2. y.map \notin heap.maps /\ heap'.maps = heap.maps \cup ({y.map} \ {0})
      BY <1>1, <1>2, <2>2, <2>4
    <3>3. Owned(heap, resources)
      BY DEF IInv
    <3>. QED
      BY <2>4, <3>1, <3>2, <3>3, OwnedPut
  <2>10. Fed'
    BY <2>4, <2>5 DEF Fed, IInv
  <2>. QED
    BY <2>8, <2>9, <2>10 DEF IInv
<1>5. CASE t # NULL
  <2>1. t \in Texts
    BY <1>5
  <2>2. heap' = [k EXCEPT !.maps = @ \cup {n}] /\ NewResource(Resource(FreeWrap(heap), n))
    BY <1>5 DEF JSchemaFile
  <2>3. IsHeap(k) /\ ParsedAs(heap, k, t, FALSE, n, FreeWrap(heap))
    BY <2>1, ParsedHeap DEF IInv, Sound
  <2>. HIDE DEF n, k
  <2>4. k.maps = heap.maps /\ heap' = [k EXCEPT !.maps = heap.maps \cup {n}]
    BY <2>2, <2>3 DEF ParsedAs
  <2>5. IsHeap(heap') /\ heap'.counts = k.counts /\ heap'.wraps = k.wraps
        /\ heap'.leaked = k.leaked /\ heap'.maps = heap.maps \cup {n}
    BY <1>3, <2>3, <2>4, MapsSet
  <2>. QED
    BY <1>1, <1>2, <2>1, <2>2, <2>5, NewHandleHolds DEF k, n
<1>. QED
  BY <1>4, <1>5

LEMMA CopyHandleHolds ==
  ASSUME IInv, NEW r \in DOMAIN resources, CopyHandle(r)
  PROVE  IInv'
<1>1. resources' = [resources EXCEPT ![r].cnt = resources[r].cnt + 1]
      /\ resources[r].cnt < MaxHeld /\ UNCHANGED <<heap, held, session, lent>>
  BY DEF CopyHandle
<1>2. /\ DOMAIN resources' = DOMAIN resources
      /\ \A s \in DOMAIN resources : /\ resources'[s].schema = resources[s].schema
                                     /\ resources'[s].map = resources[s].map
                                     /\ resources'[s] \in ResourceSet
  BY <1>1, StoreConstants DEF IInv, Sound, ResourcesTyped, ResourceSet
<1>3. ResourcesTyped'
  BY <1>2 DEF IInv, Sound, ResourcesTyped
<1>4. HeldTyped' /\ SessionTyped' /\ Open' = Open /\ \A v : Held(v)' = Held(v)
  BY <1>1, ClientKept DEF IInv
<1>5. Referenced'
  <2>. SUFFICES ASSUME NEW v \in Positive PROVE Refs(v)' = Cnt(heap', v)
    BY DEF Referenced
  <2>1. Refs(v)' = Held(v) + Sharing(resources', v) + Places(Open, v)
    BY <1>4 DEF Refs
  <2>2. Sharing(resources', v) = Sharing(resources, v)
    BY <1>2, SharingSame
  <2>. QED
    BY <1>1, <2>1, <2>2, RefsNat DEF IInv
<1>6. Sound'
  BY <1>1, <1>3, <1>4, <1>5 DEF IInv, Sound
<1>7. Owned(heap', resources')
  BY <1>1, <1>2 DEF IInv, Owned
<1>8. Fed'
  BY <1>1, <1>2 DEF IInv, Fed, Usable
<1>. QED
  BY <1>6, <1>7, <1>8 DEF IInv

LEMMA DropHandleHolds ==
  ASSUME IInv, NEW r \in DOMAIN resources, DropHandle(r)
  PROVE  IInv'
<1>. DEFINE x == resources[r]
<1>1. x \in ResourceSet
  BY DEF IInv, Sound, ResourcesTyped
<1>2. CASE x.cnt > 1
  <2>1. resources' = [resources EXCEPT ![r].cnt = resources[r].cnt - 1]
        /\ UNCHANGED <<heap, held, session, lent>>
    BY <1>2 DEF DropHandle
  <2>2. /\ DOMAIN resources' = DOMAIN resources
        /\ \A s \in DOMAIN resources : /\ resources'[s].schema = resources[s].schema
                                       /\ resources'[s].map = resources[s].map
                                       /\ resources'[s] \in ResourceSet
    BY <1>1, <1>2, <2>1, StoreConstants DEF IInv, Sound, ResourcesTyped, ResourceSet
  <2>3. ResourcesTyped'
    BY <2>2 DEF IInv, Sound, ResourcesTyped
  <2>4. HeldTyped' /\ SessionTyped' /\ Open' = Open /\ \A v : Held(v)' = Held(v)
    BY <2>1, ClientKept DEF IInv
  <2>5. Referenced'
    <3>. SUFFICES ASSUME NEW v \in Positive PROVE Refs(v)' = Cnt(heap', v)
      BY DEF Referenced
    <3>1. Refs(v)' = Held(v) + Sharing(resources', v) + Places(Open, v)
      BY <2>4 DEF Refs
    <3>2. Sharing(resources', v) = Sharing(resources, v)
      BY <2>2, SharingSame
    <3>. QED
      BY <2>1, <3>1, <3>2, RefsNat DEF IInv
  <2>6. Sound'
    BY <2>1, <2>3, <2>4, <2>5 DEF IInv, Sound
  <2>7. Owned(heap', resources')
    BY <2>1, <2>2 DEF IInv, Owned
  <2>8. Fed'
    BY <2>1, <2>2 DEF IInv, Fed, Usable
  <2>. QED
    BY <2>6, <2>7, <2>8 DEF IInv
<1>3. CASE ~(x.cnt > 1)
  <2>. DEFINE M == heap.maps \ {x.map}
              k == [heap EXCEPT !.maps = M]
  <2>1. /\ resources' = Drop(resources, r) /\ UNCHANGED <<held, session, lent>>
        /\ heap' = IF x.schema = NULL THEN k ELSE Unref(k, x.schema)
    BY <1>3 DEF DropHandle
  <2>2. IsFiniteSet(M) /\ M \subseteq Positive
    BY FS_Subset DEF IInv, Sound, IsHeap
  <2>. HIDE DEF M
  <2>3. IsHeap(k) /\ k.wraps = heap.wraps /\ k.maps = M /\ k.leaked = heap.leaked
    BY <2>2, MapsSet DEF IInv, Sound
  <2>. HIDE DEF k
  <2>4. DOMAIN resources' = DOMAIN resources \ {r}
        /\ \A s \in DOMAIN resources' : resources'[s] = resources[s]
    BY <2>1 DEF Drop
  <2>5. ResourcesTyped'
    BY <2>4, FS_Subset DEF IInv, Sound, ResourcesTyped
  <2>6. \A v : Sharing(resources', v) = Sharing(resources, v) - IF x.schema = v THEN 1 ELSE 0
    BY <2>1, SharingDrop DEF IInv, Sound, ResourcesTyped
  <2>7. HeldTyped' /\ SessionTyped' /\ Open' = Open /\ \A v : Held(v)' = Held(v)
    BY <2>1, ClientKept DEF IInv
  <2>8. Owned(k, resources')
    BY <2>1, <2>3, OwnedDrop DEF IInv, M
  <2>9. Usable' \subseteq Usable
    BY <2>1, <2>4 DEF Usable
  <2>. HIDE DEF x
  <2>10. CASE x.schema = NULL
    <3>1. heap' = k
      BY <2>1, <2>10
    <3>2. Referenced'
      <4>. SUFFICES ASSUME NEW v \in Positive PROVE Refs(v)' = Cnt(heap', v)
        BY DEF Referenced
      <4>1. Refs(v)' = Held(v) + Sharing(resources', v) + Places(Open, v) /\ v # NULL
        BY <2>7, StoreConstants DEF Refs, Positive
      <4>2. Cnt(heap', v) = Cnt(heap, v)
        BY <2>3, <3>1 DEF Cnt
      <4>. QED
        BY <2>6, <2>10, <4>1, <4>2, RefsNat DEF IInv
    <3>3. Sound'
      BY <2>1, <2>3, <2>5, <2>7, <3>1, <3>2 DEF IInv, Sound
    <3>4. Fed'
      BY <2>1, <2>3, <2>9, <3>1 DEF IInv, Fed
    <3>. QED
      BY <2>8, <3>1, <3>3, <3>4 DEF IInv
  <2>11. CASE x.schema # NULL
    <3>. DEFINE w == x.schema
    <3>1. w \in DOMAIN heap.wraps /\ heap' = Unref(k, w)
      BY <2>1, <2>11, Alive DEF IInv, x
    <3>. HIDE DEF w
    <3>2. IsHeap(heap') /\ Remains(k, heap')
          /\ \A v : Cnt(heap', v) = Cnt(k, v) - IF v = w THEN 1 ELSE 0
      BY <2>3, <3>1, UnrefCounts
    <3>3. Referenced'
      <4>. SUFFICES ASSUME NEW v \in Positive PROVE Refs(v)' = Cnt(heap', v)
        BY DEF Referenced
      <4>1. Refs(v)' = Held(v) + Sharing(resources', v) + Places(Open, v)
        BY <2>7 DEF Refs
      <4>2. Cnt(k, v) = Cnt(heap, v)
        BY <2>3 DEF Cnt
      <4>3. Cnt(heap', v) = Cnt(heap, v) - (IF v = w THEN 1 ELSE 0)
            /\ Sharing(resources', v) = Sharing(resources, v) - (IF v = w THEN 1 ELSE 0)
        BY <2>6, <3>2, <4>2 DEF w
      <4>. DEFINE d == IF v = w THEN 1 ELSE 0
      <4>4. d \in {0, 1} /\ Cnt(heap', v) = Cnt(heap, v) - d
            /\ Sharing(resources', v) = Sharing(resources, v) - d
        BY <4>3
      <4>. HIDE DEF d
      <4>. QED
        BY <4>1, <4>4, RefsNat DEF IInv
    <3>4. Sound'
      BY <2>1, <2>5, <2>7, <3>2, <3>3 DEF IInv, Sound
    <3>5. Owned(heap', resources')
      BY <2>8, <3>2, OwnedRemains
    <3>6. Usable' \subseteq DOMAIN heap'.wraps
      BY <3>4, UsableAliveNext
    <3>7. \A v \in Usable' : heap'.wraps[v].elements = heap.wraps[v].elements
      BY <2>3, <3>2, <3>6 DEF Remains
    <3>8. Fed'
      BY <2>1, <2>9, <3>7 DEF IInv, Fed
    <3>. QED
      BY <3>4, <3>5, <3>8 DEF IInv
  <2>. QED
    BY <2>10, <2>11
<1>. QED
  BY <1>2, <1>3

-------------------------------------------------------------------------------
(* The end of a value and the end of a parse keep the invariant. *)

(* A parse goes on with another stack of states, or ends. *)
Continued(states) == [session EXCEPT !.states = states]

LEMMA ContinuedTyped ==
  ASSUME SessionTyped, session # NULL, NEW states \in Seq(Positive),
         session' = Continued(states), held' = held
  PROVE  /\ SessionTyped' /\ Open' = states /\ session' # NULL
         /\ session'.resolver = session.resolver
<1>1. session \in Sessions
  BY DEF SessionTyped
<1>2. session = [resolver |-> session.resolver, states |-> session.states]
      /\ session.resolver \in Resolvers(Nat)
  BY <1>1 DEF Sessions
<1>3. session' = [resolver |-> session.resolver, states |-> states]
  BY <1>2 DEF Continued
<1>4. states \in Seq(Nat)
  BY DEF Positive
<1>5. session' \in Sessions
  BY <1>2, <1>3, <1>4 DEF Sessions
<1>6. session' # NULL
  BY <1>5, StoreConstants
<1>7. Open' = states
  BY <1>3, <1>6 DEF Open, States
<1>8. session'.resolver = session.resolver
  BY <1>3
<1>9. Held(session.resolver.schema)' = Held(session.resolver.schema)
  BY <1>8 DEF Held
<1>10. session'.resolver.does = "lend" => Held(session.resolver.schema)' > 0
  BY <1>8, <1>9 DEF SessionTyped
<1>. QED
  BY <1>5, <1>6, <1>7, <1>8, <1>10 DEF SessionTyped

(* States of the parse are given up. *)
LEMMA DismissHolds ==
  ASSUME IInv, session # NULL, NEW g, IsHeap(g), NEW ws \in Seq(Positive),
         \A v : Places(ws, v) <= Cnt(g, v), heap' = AllUnref(g, ws),
         UNCHANGED <<held, resources, lent>>,
         \A v \in Positive : Cnt(g, v) - Places(ws, v) = Cnt(heap, v) - Places(Open, v),
         Owned(g, resources),
         ~lent => \A v \in Usable : g.wraps[v].elements = heap.wraps[v].elements,
         session' = NULL \/ session' = Continued(<<>>)
  PROVE  IInv'
<1>1. Dismissed(g, ws, heap')
  BY DismissedAll
<1>2. IsHeap(heap') /\ Remains(g, heap') /\ \A v : Cnt(heap', v) = Cnt(g, v) - Places(ws, v)
  BY <1>1 DEF Dismissed
<1>3. SessionTyped' /\ Open' = <<>> /\ (session' # NULL => session'.resolver = session.resolver)
  <2>1. CASE session' = NULL
    <3>1. Open' = <<>>
      BY <2>1 DEF Open
    <3>. QED
      BY <2>1, <3>1 DEF SessionTyped
  <2>2. CASE session' = Continued(<<>>)
    <3>1. <<>> \in Seq(Positive)
      OBVIOUS
    <3>. QED
      BY <2>2, <3>1, ContinuedTyped DEF IInv, Sound
  <2>. QED
    BY <2>1, <2>2
<1>4. HeldTyped' /\ ResourcesTyped' /\ (lent \in BOOLEAN)' /\ \A v : Held(v)' = Held(v)
  BY DEF IInv, Sound, HeldTyped, ResourcesTyped, Held
<1>5. Referenced'
  <2>. SUFFICES ASSUME NEW v \in Positive PROVE Refs(v)' = Cnt(heap', v)
    BY DEF Referenced
  <2>1. Places(<<>>, v) = 0
    BY PlacesEmpty
  <2>2. Refs(v)' = Held(v) + Sharing(resources, v) + 0
    BY <1>3, <1>4, <2>1 DEF Refs
  <2>3. Cnt(heap', v) = Cnt(heap, v) - Places(Open, v)
    BY <1>2
  <2>. QED
    BY <2>2, <2>3, RefsNat DEF IInv
<1>6. Sound'
  BY <1>2, <1>3, <1>4, <1>5 DEF Sound
<1>7. Owned(heap', resources')
  BY <1>2, OwnedRemains
<1>8. Fed'
  <2>1. Usable' = Usable /\ Usable' \subseteq DOMAIN heap'.wraps
    BY <1>6, UsableAliveNext DEF Usable
  <2>2. ~lent => \A v \in Usable : heap'.wraps[v].elements = heap.wraps[v].elements
    BY <1>2, <2>1 DEF Remains
  <2>. QED
    BY <1>3, <2>1, <2>2 DEF IInv, Fed
<1>. QED
  BY <1>6, <1>7, <1>8 DEF IInv

LEMMA StateReleaseHolds ==
  ASSUME IInv, StateRelease
  PROVE  IInv'
<1>1. session # NULL /\ heap' = AllUnref(heap, Open) /\ session' = NULL
      /\ UNCHANGED <<held, resources, lent>>
  BY DEF StateRelease, Open
<1>2. Open \in Seq(Positive) /\ \A v : Places(Open, v) <= Cnt(heap, v)
  BY OpenTyped, Alive DEF IInv, Sound
<1>. QED
  BY <1>1, <1>2, DismissHolds DEF IInv, Sound

LEMMA RefuseHolds ==
  ASSUME IInv, Refuse
  PROVE  IInv'
<1>1. session # NULL /\ heap' = AllUnref(heap, Open) /\ session' = Continued(<<>>)
      /\ UNCHANGED <<held, resources, lent>>
  BY DEF Refuse, Running, SetStates, Continued, Open
<1>2. Open \in Seq(Positive) /\ \A v : Places(Open, v) <= Cnt(heap, v)
  BY OpenTyped, Alive DEF IInv, Sound
<1>. QED
  BY <1>1, <1>2, DismissHolds DEF IInv, Sound

LEMMA PopHolds ==
  ASSUME IInv, Pop
  PROVE  IInv'
<1>. DEFINE w == Last(Open)
            front == Front(Open)
<1>1. session # NULL /\ Open # <<>> /\ heap' = Unref(heap, w) /\ session' = Continued(front)
      /\ UNCHANGED <<held, resources, lent>>
  BY DEF Pop, Running, SetStates, Continued, Open
<1>2. Open \in Seq(Positive)
  BY OpenTyped DEF IInv, Sound
<1>3. front \in Seq(Positive) /\ w \in Positive /\ w = Open[Len(Open)] /\ Len(Open) \in 1 .. Len(Open)
      /\ \A v : Places(Open, v) = Places(front, v) + IF w = v THEN 1 ELSE 0
  BY <1>1, <1>2, PlacesFront
<1>. HIDE DEF front, w
<1>4. w \in DOMAIN heap.wraps
  BY <1>3, Alive DEF IInv
<1>5. IsHeap(heap') /\ Remains(heap, heap')
      /\ \A v : Cnt(heap', v) = Cnt(heap, v) - IF v = w THEN 1 ELSE 0
  BY <1>1, <1>4, UnrefCounts DEF IInv, Sound
<1>6. SessionTyped' /\ Open' = front /\ session'.resolver = session.resolver
  BY <1>1, <1>3, ContinuedTyped DEF IInv, Sound
<1>7. HeldTyped' /\ ResourcesTyped' /\ (lent \in BOOLEAN)' /\ \A v : Held(v)' = Held(v)
  BY <1>1 DEF IInv, Sound, HeldTyped, ResourcesTyped, Held
<1>8. Referenced'
  <2>. SUFFICES ASSUME NEW v \in Positive PROVE Refs(v)' = Cnt(heap', v)
    BY DEF Referenced
  <2>. DEFINE d == IF v = w THEN 1 ELSE 0
  <2>1. Places(Open, v) = Places(front, v) + d /\ Cnt(heap', v) = Cnt(heap, v) - d
        /\ d \in {0, 1}
    BY <1>3, <1>5
  <2>2. Refs(v)' = Held(v) + Sharing(resources, v) + Places(front, v)
    BY <1>1, <1>6, <1>7 DEF Refs
  <2>3. Places(front, v) \in Nat
    BY <1>3, PlacesNat
  <2>. HIDE DEF d
  <2>. QED
    BY <2>1, <2>2, <2>3, RefsNat DEF IInv
<1>9. Sound'
  BY <1>5, <1>6, <1>7, <1>8 DEF Sound
<1>10. Owned(heap', resources')
  BY <1>1, <1>5, OwnedRemains DEF IInv
<1>11. Fed'
  BY <1>1, <1>5, <1>6, <1>9, FedRemains DEF IInv, Usable
<1>. QED
  BY <1>9, <1>10, <1>11 DEF IInv

-------------------------------------------------------------------------------
(* The start of a parse and the start of a value keep the invariant. *)

(* A resolver of a parse lends only what is there. *)
LEMMA ResolverThere ==
  ASSUME NEW r \in Resolvers(Nat), NEW D, r.does = "lend" => r.schema \in D
  PROVE  r \in Resolvers(D)
BY DEF Resolvers

LEMMA KeptCounts ==
  ASSUME NEW h, NEW k, NEW r, Kept(h, k, r)
  PROVE  /\ SameMaps(h, k)
         /\ \A v : Cnt(k, v) = Cnt(h, v)
         /\ r.does # "lend" => \A v \in DOMAIN h.wraps : k.wraps[v].elements = h.wraps[v].elements
BY DEF Kept, SameMaps, Cnt, Lending

LEMMA JschemaInitHolds ==
  ASSUME IInv, NEW w \in Usable, NEW r \in ResolversFor(w), JschemaInit(w, r)
  PROVE  IInv'
<1>. DEFINE res == Resolved(heap, heap.wraps[w].elements, r)
            els == heap.wraps[w].elements
            a == SetElements(res.heap, w, res.elements)
<1>1. w \in DOMAIN heap.wraps /\ w \in Positive
  BY Alive DEF IInv, Sound, IsHeap
<1>2. els \in Seq(Element) /\ heap.wraps[w].cnt \in Positive
  BY <1>1 DEF IInv, Sound, IsHeap, Wrapper
<1>3. r \in Resolvers(DOMAIN heap.wraps) /\ (r.does = "lend" => Held(r.schema) > 0)
  BY DEF ResolversFor
<1>4. Resolves(heap, els, r, res)
  BY <1>2, <1>3, ResolvedResolves DEF IInv, Sound
<1>5. /\ session = NULL /\ UNCHANGED <<held, resources>>
      /\ lent' = (lent \/ r.does = "lend")
      /\ IF res.ok THEN heap' = Ref(a, w) ELSE heap' = a
      /\ session' = IF res.ok THEN [resolver |-> r, states |-> <<w>>] ELSE NULL
  BY DEF JschemaInit
<1>. DEFINE g == res.heap
            es == res.elements
            ok == res.ok
<1>6. /\ ok \in BOOLEAN /\ IsHeap(g) /\ Kept(heap, g, r) /\ es \in Seq(Element)
      /\ r.does # "lend" /\ els # <<>> => es # <<>>
  BY <1>4 DEF Resolves
<1>7. /\ IF ok THEN heap' = Ref(a, w) ELSE heap' = a
      /\ session' = IF ok THEN [resolver |-> r, states |-> <<w>>] ELSE NULL
      /\ a = SetElements(g, w, es)
  BY <1>5
<1>. HIDE DEF res, els, g, es, ok, a
<1>8. w \in DOMAIN g.wraps /\ g.wraps[w].cnt = heap.wraps[w].cnt
      /\ g.wraps[w].map = heap.wraps[w].map
  BY <1>1, <1>6 DEF Kept
<1>. DEFINE x == [cnt |-> g.wraps[w].cnt, elements |-> es, map |-> g.wraps[w].map]
<1>9. IsHeap(a) /\ Rewrapped(g, a, w, x)
  BY <1>6, <1>7, <1>8, ElementsSet
<1>10. /\ DOMAIN a.wraps = DOMAIN heap.wraps /\ a.maps = heap.maps
       /\ a.wraps[w].elements = es
       /\ \A v \in DOMAIN heap.wraps : /\ a.wraps[v].map = heap.wraps[v].map
                                       /\ a.wraps[v].cnt = heap.wraps[v].cnt
       /\ r.does # "lend" => \A v \in DOMAIN heap.wraps \ {w} :
                               a.wraps[v].elements = heap.wraps[v].elements
  <2>1. x.cnt = g.wraps[w].cnt /\ x.elements = es /\ x.map = g.wraps[w].map
    OBVIOUS
  <2>. HIDE DEF x
  <2>. QED
    BY <1>6, <1>8, <1>9, <2>1 DEF Rewrapped, Kept, Lending
<1>. HIDE DEF x
<1>11. a.wraps[w].cnt + 1 \in Positive /\ w \in DOMAIN a.wraps
  BY <1>1, <1>2, <1>10 DEF Positive
<1>. DEFINE y == [cnt |-> a.wraps[w].cnt + 1, elements |-> a.wraps[w].elements,
                  map |-> a.wraps[w].map]
<1>12. ok => IsHeap(heap') /\ Rewrapped(a, heap', w, y)
  BY <1>7, <1>9, <1>11, CountedHeap DEF Ref
<1>13. /\ IsHeap(heap') /\ SameMaps(heap, heap')
       /\ heap'.wraps[w].elements = es
       /\ r.does # "lend" => \A v \in DOMAIN heap.wraps \ {w} :
                               heap'.wraps[v].elements = heap.wraps[v].elements
       /\ \A v : Cnt(heap', v) = IF v = w /\ ok THEN Cnt(heap, v) + 1 ELSE Cnt(heap, v)
  <2>1. y.cnt = a.wraps[w].cnt + 1 /\ y.elements = a.wraps[w].elements /\ y.map = a.wraps[w].map
    OBVIOUS
  <2>. HIDE DEF y
  <2>2. CASE ok
    BY <1>1, <1>10, <1>12, <2>1, <2>2 DEF Rewrapped, SameMaps, Cnt
  <2>3. CASE ~ok
    BY <1>1, <1>7, <1>9, <1>10, <2>3 DEF SameMaps, Cnt
  <2>. QED
    BY <2>2, <2>3
<1>. HIDE DEF y
<1>14. Open = <<>>
  BY <1>5 DEF Open
<1>15. HeldTyped' /\ ResourcesTyped' /\ (lent \in BOOLEAN)' /\ \A v : Held(v)' = Held(v)
  BY <1>5 DEF IInv, Sound, HeldTyped, ResourcesTyped, Held
<1>16. Open' = IF ok THEN <<w>> ELSE <<>>
  <2>1. CASE ok
    <3>1. session' = [resolver |-> r, states |-> <<w>>]
      BY <1>7, <2>1
    <3>2. session' # NULL /\ session'.states = <<w>>
      <4>1. <<w>> \in Seq(Nat) /\ r \in Resolvers(Nat)
        <5>1. DOMAIN heap.wraps \subseteq Nat
          BY DEF IInv, Sound, IsHeap, Positive
        <5>. QED
          BY <1>1, <1>3, <5>1 DEF Positive, Resolvers
      <4>2. session' \in Sessions
        BY <3>1, <4>1 DEF Sessions
      <4>. QED
        BY <3>1, <4>2, StoreConstants
    <3>. QED
      BY <2>1, <3>2 DEF Open, States
  <2>2. CASE ~ok
    BY <1>7, <2>2 DEF Open
  <2>. QED
    BY <2>1, <2>2
<1>17. SessionTyped'
  <2>1. Open' \in Seq(Positive)
    BY <1>1, <1>16
  <2>2. CASE ok
    <3>1. session' = [resolver |-> r, states |-> <<w>>]
      BY <1>7, <2>2
    <3>2. DOMAIN heap.wraps \subseteq Nat
      BY DEF IInv, Sound, IsHeap, Positive
    <3>3. <<w>> \in Seq(Nat) /\ r \in Resolvers(Nat)
      BY <1>1, <1>3, <3>2 DEF Positive, Resolvers
    <3>4. session' \in Sessions /\ session'.resolver = r
      BY <3>1, <3>3 DEF Sessions
    <3>5. Held(r.schema)' = Held(r.schema)
      BY <1>15
    <3>. QED
      BY <1>3, <2>1, <3>4, <3>5 DEF SessionTyped
  <2>3. CASE ~ok
    BY <1>7, <2>1, <2>3 DEF SessionTyped
  <2>. QED
    BY <2>2, <2>3
<1>18. Referenced'
  <2>. SUFFICES ASSUME NEW v \in Positive PROVE Refs(v)' = Cnt(heap', v)
    BY DEF Referenced
  <2>1. Places(Open, v) = 0 /\ Places(<<w>>, v) = IF w = v THEN 1 ELSE 0
    BY <1>14, PlacesEmpty, PlacesOne
  <2>2. Places(Open', v) = IF v = w /\ ok THEN 1 ELSE 0
    BY <1>14, <1>16, <2>1
  <2>3. Refs(v)' = Held(v) + Sharing(resources, v) + Places(Open', v)
    BY <1>5, <1>15 DEF Refs
  <2>4. Cnt(heap', v) = Cnt(heap, v) + Places(Open', v) /\ Places(Open', v) \in {0, 1}
    <3>1. Cnt(heap, v) \in Nat
      BY RefsNat DEF IInv
    <3>. QED
      BY <1>13, <2>2, <3>1
  <2>. QED
    BY <2>1, <2>3, <2>4, RefsNat DEF IInv
<1>19. Sound'
  BY <1>13, <1>15, <1>17, <1>18 DEF Sound
<1>20. Owned(heap', resources')
  BY <1>5, <1>13, OwnedSame DEF IInv
<1>21. Fed'
  <2>. SUFFICES ASSUME ~lent'
                PROVE  /\ \A v \in Usable' : heap'.wraps[v].elements # <<>>
                       /\ session' # NULL => session'.resolver.does # "lend"
    BY DEF Fed
  <2>1. ~lent /\ r.does # "lend" /\ Usable' = Usable
    BY <1>5 DEF Usable
  <2>2. \A v \in Usable : heap.wraps[v].elements # <<>>
    BY <2>1 DEF IInv, Fed
  <2>3. es # <<>>
    BY <1>6, <2>1, <2>2 DEF els
  <2>4. session' # NULL => session'.resolver = r
    BY <1>7
  <2>. QED
    BY <1>13, <2>1, <2>2, <2>3, <2>4, Alive DEF IInv
<1>. QED
  BY <1>19, <1>20, <1>21 DEF IInv

LEMMA PushHolds ==
  ASSUME IInv, NEW possible \in BOOLEAN, Push(possible)
  PROVE  IInv'
<1>. DEFINE m == Gathered(heap, Last(States), session.resolver)
            r == session.resolver
            around == Last(States)
            g == m.heap
            es == m.elements
            w == FreeWrap(g)
            k == Wrapped(g, es, 0)
<1>1. /\ session # NULL /\ States # <<>> /\ UNCHANGED <<held, resources, lent>>
      /\ IF m.ok /\ possible
         THEN heap' = k /\ session' = Continued(Append(States, w))
         ELSE heap' = AllUnref(k, Append(States, w)) /\ session' = Continued(<<>>)
  BY DEF Push, Running, SetStates, Continued
<1>2. Open \in Seq(Positive) /\ States = Open /\ r \in Resolvers(Nat)
  BY <1>1, OpenTyped DEF IInv, Sound
<1>3. around \in DOMAIN heap.wraps
  <2>1. Open # <<>> /\ around = Last(Open)
    BY <1>1, <1>2
  <2>2. Last(Open) = Open[Len(Open)]
    BY DEF Last
  <2>3. Len(Open) \in 1 .. Len(Open)
    BY <1>2, <2>1
  <2>. QED
    BY <2>1, <2>2, <2>3, Alive DEF IInv
<1>4. r \in Resolvers(DOMAIN heap.wraps)
  <2>1. r.does = "lend" => r.schema \in DOMAIN heap.wraps
    BY <1>1, HeldNat, Alive DEF IInv, Sound, SessionTyped
  <2>. QED
    BY <1>2, <2>1, ResolverThere
<1>5. IsResolution(heap, r, m)
  BY <1>3, <1>4, GatheredResolves DEF IInv, Sound
<1>6. IsHeap(g) /\ Kept(heap, g, r) /\ es \in Seq(Element)
  BY <1>5 DEF IsResolution
<1>. DEFINE ok == m.ok
<1>7. /\ IF ok /\ possible
         THEN heap' = k /\ session' = Continued(Append(Open, w))
         ELSE heap' = AllUnref(k, Append(Open, w)) /\ session' = Continued(<<>>)
  BY <1>1, <1>2
<1>. HIDE DEF m, g, es, ok, around
<1>8. /\ SameMaps(heap, g) /\ \A v : Cnt(g, v) = Cnt(heap, v)
      /\ r.does # "lend" => \A v \in DOMAIN heap.wraps :
                              g.wraps[v].elements = heap.wraps[v].elements
  BY <1>6, KeptCounts
<1>. DEFINE x == [cnt |-> 1, elements |-> es, map |-> 0]
<1>9. IsHeap(k) /\ Wraps(g, k, w, x) /\ k.maps = g.maps
  BY <1>6, WrappedHeap
<1>10. x.cnt = 1 /\ x.map = 0
  OBVIOUS
<1>. HIDE DEF x, w, k
<1>11. w \in Positive /\ w \notin DOMAIN heap.wraps
  BY <1>8, <1>9 DEF Wraps, SameMaps
<1>12. \A v : Cnt(k, v) = IF v = w THEN 1 ELSE Cnt(heap, v)
  BY <1>8, <1>9, <1>10 DEF Wraps, Cnt
<1>13. Held(w) = 0 /\ Sharing(resources, w) = 0 /\ Places(Open, w) = 0 /\ Cnt(heap, w) = 0
  BY <1>11, Unreferred DEF IInv
<1>. DEFINE ws == Append(Open, w)
<1>14. ws \in Seq(Positive) /\ \A v : Places(ws, v) = Places(Open, v) + IF w = v THEN 1 ELSE 0
  BY <1>2, <1>11, PlacesAppend
<1>. HIDE DEF ws
<1>15. Owned(k, resources)
  <2>1. Owned(g, resources)
    BY <1>8, OwnedSame DEF IInv
  <2>2. 0 \notin g.maps
    BY <1>6 DEF IsHeap, Positive
  <2>3. x.map \notin g.maps /\ k.maps = g.maps \cup ({x.map} \ {0})
    BY <1>9, <1>10, <2>2
  <2>. QED
    BY <1>9, <2>1, <2>3, OwnedWraps
<1>16. ~lent => \A v \in Usable : k.wraps[v].elements = heap.wraps[v].elements
  <2>1. ~lent => r.does # "lend"
    BY <1>1 DEF IInv, Fed
  <2>2. Usable \subseteq DOMAIN heap.wraps /\ DOMAIN g.wraps = DOMAIN heap.wraps
    BY <1>8, Alive DEF IInv, SameMaps
  <2>. QED
    BY <1>8, <1>9, <2>1, <2>2 DEF Wraps
<1>17. \A v \in Positive : Cnt(k, v) = Places(ws, v) + Held(v) + Sharing(resources, v)
  <2>. TAKE v \in Positive
  <2>1. CASE v = w
    <3>1. Cnt(k, v) = 1 /\ Places(ws, v) = Places(Open, v) + 1
      BY <1>12, <1>14, <2>1
    <3>. QED
      BY <1>13, <2>1, <3>1
  <2>2. CASE v # w
    <3>1. Cnt(k, v) = Cnt(heap, v) /\ Places(ws, v) = Places(Open, v) + 0
      BY <1>12, <1>14, <2>2
    <3>. QED
      BY <3>1, RefsNat DEF IInv
  <2>. QED
    BY <2>1, <2>2
<1>18. CASE ok /\ possible
  <2>1. heap' = k /\ session' = Continued(ws)
    BY <1>7, <1>18 DEF ws
  <2>2. SessionTyped' /\ Open' = ws /\ session' # NULL /\ session'.resolver = session.resolver
    BY <1>1, <1>14, <2>1, ContinuedTyped DEF IInv, Sound
  <2>3. HeldTyped' /\ ResourcesTyped' /\ (lent \in BOOLEAN)' /\ \A v : Held(v)' = Held(v)
    BY <1>1 DEF IInv, Sound, HeldTyped, ResourcesTyped, Held
  <2>4. Referenced'
    <3>. SUFFICES ASSUME NEW v \in Positive PROVE Refs(v)' = Cnt(heap', v)
      BY DEF Referenced
    <3>1. Refs(v)' = Held(v) + Sharing(resources, v) + Places(ws, v)
      BY <1>1, <2>2, <2>3 DEF Refs
    <3>2. Places(ws, v) \in Nat
      BY <1>14, PlacesNat
    <3>. QED
      BY <1>17, <2>1, <3>1, <3>2, RefsNat DEF IInv
  <2>5. Sound'
    BY <1>9, <2>1, <2>2, <2>3, <2>4 DEF Sound
  <2>6. Fed'
    <3>1. Usable' = Usable
      BY <1>1 DEF Usable
    <3>. QED
      BY <1>1, <1>16, <2>1, <2>2, <3>1 DEF IInv, Fed
  <2>. QED
    BY <1>1, <1>15, <2>1, <2>5, <2>6 DEF IInv
<1>19. CASE ~(ok /\ possible)
  <2>1. heap' = AllUnref(k, ws) /\ session' = Continued(<<>>)
    BY <1>7, <1>19 DEF ws
  <2>2. \A v : Places(ws, v) <= Cnt(k, v)
    <3>. TAKE v
    <3>1. Places(Open, v) <= Cnt(heap, v)
      BY Alive DEF IInv
    <3>2. Places(Open, v) \in Nat
      BY <1>2, PlacesNat
    <3>3. Cnt(heap, v) \in Nat
      BY DEF Cnt, IInv, Sound, IsHeap, Wrapper, Positive
    <3>. QED
      BY <1>12, <1>13, <1>14, <3>1, <3>2, <3>3
  <2>3. \A v \in Positive : Cnt(k, v) - Places(ws, v) = Cnt(heap, v) - Places(Open, v)
    <3>. TAKE v \in Positive
    <3>1. Places(ws, v) \in Nat
      BY <1>14, PlacesNat
    <3>. QED
      BY <1>17, <3>1, RefsNat DEF IInv
  <2>. QED
    BY <1>1, <1>9, <1>14, <1>15, <1>16, <2>1, <2>2, <2>3, DismissHolds
<1>. QED
  BY <1>18, <1>19

-------------------------------------------------------------------------------
(* The specification keeps the invariant. *)

LEMMA NextHolds == IInv /\ [Next]_vars => IInv'
<1>. SUFFICES ASSUME IInv, [Next]_vars PROVE IInv'
  OBVIOUS
<1>1. ASSUME NEW t \in Texts, NEW mapped \in BOOLEAN, JschemaParse(t, mapped) PROVE IInv'
  BY <1>1, ParseHolds
<1>2. ASSUME NEW w \in DOMAIN heap.wraps, JschemaCopy(w) PROVE IInv'
  BY <1>2, CopyHolds
<1>3. ASSUME NEW w \in DOMAIN heap.wraps, JschemaRelease(w) PROVE IInv'
  BY <1>3, ReleaseHolds
<1>4. ASSUME NEW t \in Texts, JSchemaFragment(t) PROVE IInv'
  BY <1>4, FragmentHolds
<1>5. ASSUME NEW t \in Texts \cup {NULL}, JSchemaFile(t) PROVE IInv'
  BY <1>5, FileHolds
<1>6. ASSUME NEW r \in DOMAIN resources, CopyHandle(r) PROVE IInv'
  BY <1>6, CopyHandleHolds
<1>7. ASSUME NEW r \in DOMAIN resources, DropHandle(r) PROVE IInv'
  BY <1>7, DropHandleHolds
<1>8. ASSUME NEW w \in Usable, NEW r \in ResolversFor(w), JschemaInit(w, r) PROVE IInv'
  BY <1>8, JschemaInitHolds
<1>9. ASSUME NEW possible \in BOOLEAN, Push(possible) PROVE IInv'
  BY <1>9, PushHolds
<1>10. CASE Pop
  BY <1>10, PopHolds
<1>11. CASE Refuse
  BY <1>11, RefuseHolds
<1>12. CASE StateRelease
  BY <1>12, StateReleaseHolds
<1>13. CASE UNCHANGED vars
  <2>1. UNCHANGED <<heap, held, resources, session, lent>>
    BY <1>13 DEF vars
  <2>2. HeldTyped' /\ SessionTyped' /\ Open' = Open /\ \A v : Held(v)' = Held(v)
    BY <2>1, ClientKept DEF IInv
  <2>3. Referenced'
    BY <2>1, <2>2 DEF IInv, Sound, Referenced, Refs
  <2>. QED
    BY <2>1, <2>2, <2>3 DEF IInv, Sound, ResourcesTyped, Fed, Usable
<1>. QED
  BY <1>1, <1>2, <1>3, <1>4, <1>5, <1>6, <1>7, <1>8, <1>9, <1>10, <1>11, <1>12, <1>13
  DEF Next

(* The invariant holds in every reachable state: the parts of the heap are
   well formed, each wrapper has a counter that is the number of references
   of clients, handles and states of the parse, each mapped file has one owner,
   and a schema without elements was lent (jschema.c, JSchema.cpp). *)
THEOREM Invariance == Spec => []IInv
<1>1. Init => IInv
  BY InitHolds
<1>2. IInv /\ [Next]_vars => IInv'
  BY NextHolds
<1>. QED
  BY <1>1, <1>2, PTL DEF Spec

(* Each wrapper has as many references as its counter says, after every
   jschema_copy and jschema_release, on every way a parse may end. *)
THEOREM WrappersCountedHolds == Spec => []WrappersCounted
<1>1. IInv => WrappersCounted
  <2>. SUFFICES ASSUME IInv, NEW w \in DOMAIN heap.wraps
                PROVE  heap.wraps[w].cnt =
                         Held(w) + Cardinality({r \in DOMAIN resources : resources[r].schema = w})
                         + (IF session = NULL THEN 0 ELSE Places(States, w))
    BY DEF WrappersCounted
  <2>1. w \in Positive /\ Cnt(heap, w) = heap.wraps[w].cnt
    BY DEF IInv, Sound, IsHeap, Cnt
  <2>2. Places(Open, w) = IF session = NULL THEN 0 ELSE Places(States, w)
    BY PlacesEmpty DEF Open
  <2>3. Held(w) + Sharing(resources, w) + Places(Open, w) = Cnt(heap, w)
    BY <2>1, RefsNat DEF IInv
  <2>. QED
    BY <2>1, <2>2, <2>3 DEF Sharing
<1>. QED
  BY <1>1, Invariance, PTL

(* A file that is mapped has one owner, a wrapper (jschema_parse_file) or a
   resource (JSchemaFile), and a file that is not has none. *)
THEOREM MapsOwnedHolds == Spec => []MapsOwned
<1>1. IInv => MapsOwned
  <2>. SUFFICES ASSUME IInv, NEW n \in 1 .. MaxParses
                PROVE  MapOwners(n) = IF n \in heap.maps THEN 1 ELSE 0
    BY DEF MapsOwned
  <2>1. n \in Positive
    BY StoreConstants DEF Positive
  <2>2. Owned(heap, resources)
    BY DEF IInv
  <2>. QED
    BY <2>1, <2>2, OwnedOnce DEF MapOwners
<1>. QED
  BY <1>1, Invariance, PTL

(* Only a resolver that hands out a schema it keeps can leave a schema of a
   client without elements (resolveSchema, its transfer). *)
THEOREM EmptiedByLendingHolds == Spec => []EmptiedByLending
<1>1. IInv => EmptiedByLending
  BY DEF IInv, Sound, Fed, EmptiedByLending
<1>. QED
  BY <1>1, Invariance, PTL

-------------------------------------------------------------------------------
(***************************************************************************)
(* The balance of an element: its counter, and the references to it.       *)
(***************************************************************************)

CountsTyped(counts) == IsFiniteSet(DOMAIN counts) /\ DOMAIN counts \subseteq Element
WrapsTyped(wraps) ==
  IsFiniteSet(DOMAIN wraps) /\ \A w \in DOMAIN wraps : wraps[w].elements \in Seq(Element)

Count(counts, e) == IF e \in DOMAIN counts THEN counts[e] ELSE 0
Holders(counts, e) == {g \in DOMAIN counts : Encloses(g, e)}

(* The cells of the wrappers that are not in X. *)
CellsBut(wraps, X, e) == {c \in Cells(wraps, e) : c[1] \notin X}

CellsOf(wraps, w, e) ==
  {c \in {w} \X DOMAIN wraps[w].elements : wraps[w].elements[c[2]] = e}

(* The cells of one wrapper are the places of its array. *)
LEMMA CellsOfOne ==
  ASSUME NEW wraps, WrapsTyped(wraps), NEW w \in DOMAIN wraps, NEW e
  PROVE  /\ IsFiniteSet(CellsOf(wraps, w, e))
         /\ Cardinality(CellsOf(wraps, w, e)) = Places(wraps[w].elements, e)
<1>. DEFINE s == wraps[w].elements
            I == {i \in DOMAIN s : s[i] = e}
            C == CellsOf(wraps, w, e)
            f == [i \in I |-> <<w, i>>]
<1>1. s \in Seq(Element)
  BY DEF WrapsTyped
<1>2. IsFiniteSet(I)
  BY <1>1, PlacesFinite
<1>3. \A c : c \in C <=> \E i \in I : c = <<w, i>>
  BY DEF CellsOf
<1>4. f \in Bijection(I, C)
  <2>1. f \in [I -> C]
    BY <1>3
  <2>2. \A i, j \in I : f[i] = f[j] => i = j
    OBVIOUS
  <2>3. \A c \in C : \E i \in I : f[i] = c
    BY <1>3
  <2>. HIDE DEF C, I, f
  <2>. QED
    BY <2>1, <2>2, <2>3 DEF Bijection, Injection, IsInjective, Surjection
<1>. HIDE DEF C, I, f
<1>5. ExistsBijection(I, C)
  BY <1>4 DEF ExistsBijection
<1>6. IsFiniteSet(C) /\ Cardinality(C) = Cardinality(I)
  BY <1>2, <1>5, FS_Bijection
<1>. QED
  BY <1>6 DEF C, I, Places

(* The cells of a wrapper and those of the others. *)
LEMMA CellsSplit ==
  ASSUME NEW wraps, WrapsTyped(wraps), NEW X, NEW w \in DOMAIN wraps, w \notin X, NEW e,
         IsFiniteSet(CellsBut(wraps, X \cup {w}, e))
  PROVE  /\ IsFiniteSet(CellsBut(wraps, X, e))
         /\ Cardinality(CellsBut(wraps, X, e)) =
              Cardinality(CellsBut(wraps, X \cup {w}, e)) + Places(wraps[w].elements, e)
<1>. DEFINE A == CellsBut(wraps, X \cup {w}, e)
            B == CellsOf(wraps, w, e)
<1>1. CellsBut(wraps, X, e) = A \cup B
  BY DEF CellsBut, CellsOf, Cells
<1>2. A \cap B = {}
  BY DEF CellsBut, CellsOf
<1>3. IsFiniteSet(B) /\ Cardinality(B) = Places(wraps[w].elements, e)
  BY CellsOfOne
<1>. HIDE DEF A, B
<1>4. IsFiniteSet(A \cup B)
      /\ Cardinality(A \cup B) = Cardinality(A) + Cardinality(B) - Cardinality(A \cap B)
  BY <1>3, FS_Union DEF A
<1>5. Cardinality(A) \in Nat /\ Cardinality(B) \in Nat
  BY <1>3, FS_CardinalityType DEF A
<1>6. Cardinality(A \cap B) = 0
  BY <1>2, FS_EmptySet
<1>7. Cardinality(A \cup B) = Cardinality(A) + Places(wraps[w].elements, e)
  BY <1>3, <1>4, <1>5, <1>6
<1>8. IsFiniteSet(CellsBut(wraps, X, e)) /\ Cardinality(CellsBut(wraps, X, e)) = Cardinality(A \cup B)
  BY <1>1, <1>4
<1>. QED
  BY <1>7, <1>8 DEF A

(* All cells of all wrappers but some are finitely many. *)
LEMMA CellsFinite ==
  ASSUME NEW wraps, WrapsTyped(wraps), NEW X, NEW e
  PROVE  IsFiniteSet(CellsBut(wraps, X, e))
<1>. DEFINE S(w) == {w} \X DOMAIN wraps[w].elements
            f == [w \in DOMAIN wraps |-> S(w)]
            R == {S(w) : w \in DOMAIN wraps}
<1>1. IsFiniteSet(R)
  <2>1. f \in Surjection(DOMAIN wraps, R)
    BY DEF Surjection
  <2>. HIDE DEF f, R
  <2>. QED
    BY <2>1, FS_Surjection DEF WrapsTyped
<1>2. ASSUME NEW w \in DOMAIN wraps PROVE IsFiniteSet(S(w))
  <2>1. wraps[w].elements \in Seq(Element)
    BY DEF WrapsTyped
  <2>2. IsFiniteSet(DOMAIN wraps[w].elements)
    <3>1. DOMAIN wraps[w].elements = 1 .. Len(wraps[w].elements) /\ Len(wraps[w].elements) \in Int
      BY <2>1
    <3>. QED
      BY <3>1, FS_Interval
  <2>3. IsFiniteSet({w})
    BY FS_Singleton
  <2>. QED
    BY <2>2, <2>3, FS_Product
<1>3. \A T \in R : IsFiniteSet(T)
  BY <1>2
<1>4. IsFiniteSet(UNION R)
  <2>. HIDE DEF R
  <2>. QED
    BY <1>1, <1>3, FS_UNION
<1>5. CellsBut(wraps, X, e) \subseteq UNION R
  BY DEF CellsBut, Cells
<1>. QED
  BY <1>4, <1>5, FS_Subset

(* Wrappers that hold the same hold the same cells. *)
LEMMA CellsSame ==
  ASSUME NEW wraps, NEW other, NEW X,
         \A w : w \in DOMAIN wraps /\ w \notin X <=> w \in DOMAIN other /\ w \notin X,
         \A w \in DOMAIN wraps \ X : wraps[w].elements = other[w].elements, NEW e
  PROVE  CellsBut(wraps, X, e) = CellsBut(other, X, e)
BY DEF CellsBut, Cells

-------------------------------------------------------------------------------
(* Counters that are even: each is the number of references from outside,
   given by a function, and one for what contains the element. *)

(* The elements of a number are of one text. *)
OneText(counts) ==
  \A e \in DOMAIN counts : \E t \in Texts : \A f \in DOMAIN counts :
    f.text = e.text => f.node \in Family[t]

(* Each element is counted once for what contains it, and as often as others
   refer to it. *)
Even(counts, others) ==
  /\ CountsTyped(counts)
  /\ \A e \in DOMAIN counts : counts[e] \in Positive
  /\ OneText(counts)
  /\ others \in [Element -> Nat]
  /\ \A e \in Element : Count(counts, e) = others[e] + Cardinality(Holders(counts, e))

(* What holds an element. *)
LEMMA HoldersFinite ==
  ASSUME NEW counts, CountsTyped(counts), NEW e
  PROVE  /\ IsFiniteSet(Holders(counts, e)) /\ Cardinality(Holders(counts, e)) \in Nat
         /\ Cardinality(Holders(counts, e)) = 0 <=> Holders(counts, e) = {}
<1>1. IsFiniteSet(Holders(counts, e))
  BY FS_Subset DEF CountsTyped, Holders
<1>. QED
  BY <1>1, FS_CardinalityType, FS_EmptySet

(* What an even counter says of one element. *)
LEMMA EvenCounts ==
  ASSUME NEW counts, NEW others, Even(counts, others), NEW e \in Element
  PROVE  /\ Count(counts, e) \in Nat /\ others[e] \in Nat
         /\ Cardinality(Holders(counts, e)) \in Nat
         /\ Count(counts, e) = 0 <=> e \notin DOMAIN counts
         /\ e \in DOMAIN counts => Count(counts, e) = counts[e]
         /\ others[e] > 0 => e \in DOMAIN counts
         /\ Holders(counts, e) # {} => e \in DOMAIN counts
<1>1. Count(counts, e) \in Nat /\ (Count(counts, e) = 0 <=> e \notin DOMAIN counts)
  BY DEF Even, Count, Positive
<1>2. others[e] \in Nat /\ Count(counts, e) = others[e] + Cardinality(Holders(counts, e))
  BY DEF Even
<1>3. Cardinality(Holders(counts, e)) \in Nat
      /\ (Cardinality(Holders(counts, e)) = 0 <=> Holders(counts, e) = {})
  BY HoldersFinite DEF Even
<1>. QED
  BY <1>1, <1>2, <1>3 DEF Count

(* What contains an element is one. *)
LEMMA OneHolder ==
  ASSUME NEW counts, CountsTyped(counts), OneText(counts), NEW e \in DOMAIN counts,
         NEW f \in Holders(counts, e), NEW g \in Holders(counts, e)
  PROVE  f = g
<1>1. /\ e \in Element /\ f \in Element /\ g \in Element
      /\ f \in DOMAIN counts /\ g \in DOMAIN counts
  BY DEF CountsTyped, Holders
<1>2. f.text = e.text /\ g.text = e.text /\ Includes(f.node, e.node) /\ Includes(g.node, e.node)
  BY DEF Holders, Encloses
<1>3. PICK t \in Texts : \A x \in DOMAIN counts : x.text = e.text => x.node \in Family[t]
  BY DEF OneText
<1>4. e.node \in Family[t] /\ f.node \in Family[t] /\ g.node \in Family[t]
  BY <1>1, <1>2, <1>3
<1>5. f.node = g.node
  BY <1>2, <1>4, NodesAreTrees
<1>. QED
  BY <1>1, <1>2, <1>5 DEF Element

(* An element is contained at most once. *)
LEMMA OneHolderCounts ==
  ASSUME NEW counts, CountsTyped(counts), OneText(counts), NEW e \in DOMAIN counts,
         NEW g \in Holders(counts, e)
  PROVE  Holders(counts, e) = {g} /\ Cardinality(Holders(counts, e)) = 1
<1>1. Holders(counts, e) = {g}
  BY OneHolder
<1>. QED
  BY <1>1, FS_Singleton

(* What is inside an element that is there is there. *)
LEMMA InsideThere ==
  ASSUME NEW counts, NEW others, Even(counts, others), NEW e \in DOMAIN counts,
         NEW x \in Family[e.node]
  PROVE  [text |-> e.text, node |-> x] \in DOMAIN counts
<1>. DEFINE At(n) == [text |-> e.text, node |-> n]
            S == {n \in Nodes : At(n) \in DOMAIN counts /\ \E y \in Family[n] : At(y) \notin DOMAIN counts}
<1>1. e \in Element /\ e.text \in Positive /\ e.node \in Nodes /\ At(e.node) = e
  BY DEF Even, CountsTyped, Element
<1>2. SUFFICES S = {}
  <2>1. ASSUME S = {} PROVE At(x) \in DOMAIN counts
    BY <1>1, <2>1
  <2>. QED
    BY <2>1
<1>3. SUFFICES ASSUME S # {} PROVE FALSE
  OBVIOUS
<1>4. S \in SUBSET Nodes
  OBVIOUS
<1>5. PICK n \in S : \A m \in S : ~Includes(n, m)
  <2>. HIDE DEF S
  <2>. QED
    BY <1>3, <1>4, Innermost
<1>6. n \in Nodes /\ At(n) \in DOMAIN counts
  BY <1>5
<1>7. PICK y \in Family[n] : At(y) \notin DOMAIN counts
  BY <1>5
<1>8. y # n
  BY <1>6, <1>7
<1>9. PICK m \in Nodes : Includes(n, m) /\ y \in Family[m]
  BY <1>6, <1>8, FamilyMembers
<1>10. At(m) \in DOMAIN counts
  <2>1. At(m) \in Element
    BY <1>1 DEF Element
  <2>2. Encloses(At(n), At(m))
    BY <1>9 DEF Encloses
  <2>. HIDE DEF At
  <2>3. At(n) \in Holders(counts, At(m))
    BY <1>6, <2>2 DEF Holders
  <2>. QED
    BY <2>1, <2>3, EvenCounts
<1>11. m \in S
  BY <1>7, <1>9, <1>10
<1>. QED
  BY <1>5, <1>9, <1>11

-------------------------------------------------------------------------------
(* References that are copied. *)

(* When no element comes or goes, no element has another holder. *)
LEMMA SameHolders ==
  ASSUME NEW counts, NEW more, DOMAIN more = DOMAIN counts
  PROVE  /\ \A e : Holders(more, e) = Holders(counts, e)
         /\ CountsTyped(counts) => CountsTyped(more)
         /\ OneText(counts) => OneText(more)
BY DEF Holders, CountsTyped, OneText

(* Each copy is a reference from outside. *)
LEMMA EvenAllCopied ==
  ASSUME NEW counts, NEW others, Even(counts, others), NEW es \in Seq(Element),
         \A i \in 1 .. Len(es) : es[i] \in DOMAIN counts,
         NEW more \in [Element -> Nat], \A e \in Element : more[e] = others[e] + Places(es, e)
  PROVE  Even(AllCopied(counts, es), more)
<1>. DEFINE c == AllCopied(counts, es)
<1>1. DOMAIN c = DOMAIN counts /\ \A e \in DOMAIN counts : c[e] = counts[e] + Places(es, e)
  BY DEF AllCopied
<1>. HIDE DEF c
<1>2. \A e : Places(es, e) \in Nat
  BY PlacesNat
<1>3. \A e \in DOMAIN c : c[e] \in Positive
  BY <1>1, <1>2 DEF Even, Positive
<1>4. CountsTyped(c) /\ OneText(c) /\ \A e : Holders(c, e) = Holders(counts, e)
  BY <1>1, SameHolders DEF Even
<1>5. \A e \in Element : Count(c, e) = more[e] + Cardinality(Holders(c, e))
  <2>. TAKE e \in Element
  <2>1. /\ Count(counts, e) = others[e] + Cardinality(Holders(counts, e))
        /\ others[e] \in Nat /\ Cardinality(Holders(counts, e)) \in Nat
    BY EvenCounts DEF Even
  <2>2. CASE e \in DOMAIN counts
    BY <1>1, <1>2, <1>4, <2>1, <2>2 DEF Count
  <2>3. CASE e \notin DOMAIN counts
    <3>1. Places(es, e) = 0
      BY <2>3, PlacesNat
    <3>. QED
      BY <1>1, <1>4, <2>1, <2>3, <3>1 DEF Count
  <2>. QED
    BY <2>2, <2>3
<1>6. Even(c, more)
  BY <1>3, <1>4, <1>5 DEF Even
<1>. QED
  BY <1>6 DEF c

LEMMA EvenCopied ==
  ASSUME NEW counts, NEW others, Even(counts, others), NEW x \in DOMAIN counts,
         NEW more \in [Element -> Nat],
         \A e \in Element : more[e] = others[e] + IF x = e THEN 1 ELSE 0
  PROVE  Even(Copied(counts, x), more)
<1>. DEFINE c == Copied(counts, x)
<1>1. DOMAIN c = DOMAIN counts /\ c[x] = counts[x] + 1
      /\ \A e \in DOMAIN counts \ {x} : c[e] = counts[e]
  BY DEF Copied
<1>. HIDE DEF c
<1>2. \A e \in DOMAIN c : c[e] \in Positive
  BY <1>1 DEF Even, Positive
<1>3. CountsTyped(c) /\ OneText(c) /\ \A e : Holders(c, e) = Holders(counts, e)
  BY <1>1, SameHolders DEF Even
<1>4. \A e \in Element : Count(c, e) = more[e] + Cardinality(Holders(c, e))
  <2>. TAKE e \in Element
  <2>1. /\ Count(counts, e) = others[e] + Cardinality(Holders(counts, e))
        /\ others[e] \in Nat /\ Cardinality(Holders(counts, e)) \in Nat
    BY EvenCounts DEF Even
  <2>2. CASE e = x
    BY <1>1, <1>3, <2>1, <2>2 DEF Count
  <2>3. CASE e # x
    BY <1>1, <1>3, <2>1, <2>3 DEF Count
  <2>. QED
    BY <2>2, <2>3
<1>5. Even(c, more)
  BY <1>2, <1>3, <1>4 DEF Even
<1>. QED
  BY <1>5 DEF c

-------------------------------------------------------------------------------
(* References that are released. *)

(* A release takes one reference from outside: what is freed had no other,
   and what the freed contained has a reference less. *)
LEMMA EvenReleased ==
  ASSUME NEW counts, NEW others, Even(counts, others), NEW x \in Element, others[x] > 0,
         NEW less \in [Element -> Nat],
         \A e \in Element : less[e] = others[e] - IF x = e THEN 1 ELSE 0
  PROVE  Even(Released(counts, x), less)
<1>. DEFINE freed == Freed(counts, x)
            c == Released(counts, x)
<1>1. x \in DOMAIN counts
  BY EvenCounts
<1>2. /\ DOMAIN c = DOMAIN counts \ freed
      /\ \A f \in DOMAIN c : c[f] = IF f = x \/ \E g \in freed : Encloses(g, f)
                                    THEN counts[f] - 1 ELSE counts[f]
  BY DEF Released
<1>3. \A f : f \in freed <=> /\ f \in DOMAIN counts /\ Inside(f, x)
                             /\ \A g \in DOMAIN counts :
                                  Inside(g, x) /\ Inside(f, g) => counts[g] <= 1
  BY DEF Freed
<1>. HIDE DEF freed, c
<1>4. \A e \in DOMAIN counts : /\ e \in Element /\ e.node \in Nodes /\ e.text \in Positive
                               /\ counts[e] \in Positive
                               /\ e = [text |-> e.text, node |-> e.node]
  BY DEF Even, CountsTyped, Element
<1>5. \A e \in DOMAIN counts : Inside(e, e)
  BY <1>4, FamilyTyped DEF Inside
<1>6. \A e, f, g \in DOMAIN counts : Inside(e, f) /\ Inside(f, g) => Inside(e, g)
  <2>. TAKE e, f, g \in DOMAIN counts
  <2>. HAVE Inside(e, f) /\ Inside(f, g)
  <2>1. e.text = g.text /\ e.node \in Family[f.node] /\ f.node \in Family[g.node]
    BY DEF Inside
  <2>2. Family[f.node] \subseteq Family[g.node]
    BY <1>4, <2>1, FamilyTransitive
  <2>. QED
    BY <2>1, <2>2 DEF Inside
<1>7. \A e, f \in DOMAIN counts : Encloses(e, f) => Inside(f, e)
  <2>. TAKE e, f \in DOMAIN counts
  <2>. HAVE Encloses(e, f)
  <2>1. e.text = f.text /\ Includes(e.node, f.node) /\ f.node \in Family[f.node]
    BY <1>4, FamilyTyped DEF Encloses
  <2>2. f.node \in Family[e.node]
    BY <1>4, <2>1, FamilyMembers
  <2>. QED
    BY <2>1, <2>2 DEF Inside
(* What is inside something else is contained by something inside that. *)
<1>8. \A e, f \in DOMAIN counts : Inside(f, e) /\ f # e =>
        \E g \in DOMAIN counts : Inside(g, e) /\ Encloses(g, f)
  <2>. TAKE e, f \in DOMAIN counts
  <2>. HAVE Inside(f, e) /\ f # e
  <2>1. f.text = e.text /\ f.node \in Family[e.node] /\ f.node # e.node
    BY <1>4 DEF Inside
  <2>2. PICK m \in Family[e.node] : Includes(m, f.node)
    BY <1>4, <2>1, FamilyHolder
  <2>. DEFINE g == [text |-> e.text, node |-> m]
  <2>3. g \in DOMAIN counts
    BY <2>2, InsideThere
  <2>4. Inside(g, e) /\ Encloses(g, f)
    BY <2>1, <2>2 DEF Inside, Encloses
  <2>. QED
    BY <2>3, <2>4
<1>9. \A f \in DOMAIN counts : \A e, g \in DOMAIN counts : Encloses(e, f) /\ Encloses(g, f) => e = g
  BY OneHolder DEF Even, Holders
<1>10. CASE counts[x] > 1
  <2>1. freed = {}
    <3>. SUFFICES ASSUME NEW f \in freed PROVE FALSE
      OBVIOUS
    <3>1. counts[x] <= 1
      BY <1>1, <1>3, <1>5
    <3>. QED
      BY <1>1, <1>4, <1>10, <3>1 DEF Positive
  <2>2. DOMAIN c = DOMAIN counts /\ c[x] = counts[x] - 1
        /\ \A f \in DOMAIN counts \ {x} : c[f] = counts[f]
    BY <1>1, <1>2, <2>1
  <2>3. \A e \in DOMAIN c : c[e] \in Positive
    BY <1>1, <1>4, <1>10, <2>2 DEF Positive
  <2>4. CountsTyped(c) /\ OneText(c) /\ \A e : Holders(c, e) = Holders(counts, e)
    BY <2>2, SameHolders DEF Even
  <2>5. \A e \in Element : Count(c, e) = less[e] + Cardinality(Holders(c, e))
    <3>. TAKE e \in Element
    <3>1. /\ Count(counts, e) = others[e] + Cardinality(Holders(counts, e))
          /\ others[e] \in Nat /\ Cardinality(Holders(counts, e)) \in Nat
      BY EvenCounts DEF Even
    <3>2. CASE e = x
      BY <1>1, <1>4, <2>2, <2>4, <3>1, <3>2 DEF Count, Positive
    <3>3. CASE e # x
      BY <2>2, <2>4, <3>1, <3>3 DEF Count
    <3>. QED
      BY <3>2, <3>3
  <2>6. Even(c, less)
    BY <2>3, <2>4, <2>5 DEF Even
  <2>. QED
    BY <2>6 DEF c
<1>11. CASE ~(counts[x] > 1)
  <2>1. counts[x] = 1
    BY <1>1, <1>4, <1>11 DEF Positive
  <2>2. x \in freed
    <3>. SUFFICES ASSUME NEW g \in DOMAIN counts, Inside(g, x), Inside(x, g)
                  PROVE  counts[g] <= 1
      BY <1>1, <1>3, <1>5
    <3>1. CASE g = x
      BY <2>1, <3>1
    <3>2. CASE g # x
      <4>1. PICK m \in DOMAIN counts : Inside(m, g) /\ Encloses(m, x)
        BY <1>1, <1>8, <3>2
      <4>2. x \notin DOMAIN counts
        <5>1. Inside(m, x)
          BY <1>1, <1>6, <4>1
        <5>2. x.node \in Nodes /\ m.node \in Nodes /\ Includes(m.node, x.node)
              /\ m.node \in Family[x.node]
          BY <1>1, <1>4, <4>1, <5>1 DEF Encloses, Inside
        <5>3. m.node \notin Family[x.node]
          BY <5>2, FamilyOrdered
        <5>. QED
          BY <5>2, <5>3
      <4>. QED
        BY <1>1, <4>2
    <3>. QED
      BY <3>1, <3>2
  (* What remains and was contained by what is freed has another reference. *)
  <2>3. \A f \in DOMAIN c : (\E g \in freed : Encloses(g, f)) => counts[f] # 1
    <3>. TAKE f \in DOMAIN c
    <3>. SUFFICES ASSUME NEW g \in freed, Encloses(g, f), counts[f] = 1 PROVE FALSE
      OBVIOUS
    <3>1. f \in DOMAIN counts /\ f \notin freed /\ g \in DOMAIN counts /\ Inside(g, x)
      BY <1>2, <1>3
    <3>2. Inside(f, x)
      BY <1>1, <1>6, <1>7, <3>1
    <3>3. PICK k \in DOMAIN counts : Inside(k, x) /\ Inside(f, k) /\ ~(counts[k] <= 1)
      BY <1>3, <3>1, <3>2
    <3>4. k # f
      BY <3>3
    <3>5. PICK m \in DOMAIN counts : Inside(m, k) /\ Encloses(m, f)
      BY <1>8, <3>1, <3>3, <3>4
    <3>6. m = g
      BY <1>9, <3>1, <3>5
    <3>. QED
      BY <1>3, <3>3, <3>5, <3>6
  <2>4. \A f \in DOMAIN c : c[f] \in Positive
    <3>. TAKE f \in DOMAIN c
    <3>1. f \in DOMAIN counts /\ f # x /\ counts[f] \in Positive
      BY <1>2, <1>4, <2>2
    <3>2. CASE \E g \in freed : Encloses(g, f)
      BY <1>2, <2>3, <3>1, <3>2 DEF Positive
    <3>3. CASE ~ \E g \in freed : Encloses(g, f)
      BY <1>2, <3>1, <3>3
    <3>. QED
      BY <3>2, <3>3
  <2>5. CountsTyped(c)
    BY <1>2, FS_Subset DEF Even, CountsTyped
  <2>6. OneText(c)
    <3>. SUFFICES ASSUME NEW e \in DOMAIN c
                  PROVE  \E t \in Texts : \A f \in DOMAIN c : f.text = e.text => f.node \in Family[t]
      BY DEF OneText
    <3>1. DOMAIN c \subseteq DOMAIN counts
      BY <1>2
    <3>. QED
      BY <3>1 DEF Even, OneText
  <2>7. \A e : Holders(c, e) = Holders(counts, e) \ freed
    BY <1>2 DEF Holders
  <2>8. \A e \in Element : Count(c, e) = less[e] + Cardinality(Holders(c, e))
    <3>. TAKE e \in Element
    <3>1. /\ Count(counts, e) = others[e] + Cardinality(Holders(counts, e))
          /\ others[e] \in Nat /\ Cardinality(Holders(counts, e)) \in Nat
          /\ Count(counts, e) = 0 <=> e \notin DOMAIN counts
          /\ e \in DOMAIN counts => Count(counts, e) = counts[e]
      BY EvenCounts DEF Even
    <3>2. CASE e \notin DOMAIN counts
      <4>1. Holders(counts, e) = {} /\ others[e] = 0 /\ e # x
        BY <1>1, <3>1, <3>2, EvenCounts
      <4>2. Holders(c, e) = {} /\ Cardinality(Holders(c, e)) = 0
        BY <2>7, <4>1, FS_EmptySet
      <4>3. Count(c, e) = 0
        BY <1>2, <3>2 DEF Count
      <4>. QED
        BY <4>1, <4>2, <4>3
    <3>3. CASE e \in freed
      <4>1. e \in DOMAIN counts /\ Inside(e, x) /\ counts[e] = 1
        BY <1>3, <1>4, <1>5, <3>3 DEF Positive
      <4>2. Count(c, e) = 0
        BY <1>2, <3>3 DEF Count
      <4>3. CASE e = x
        <5>1. others[e] = 1 /\ Cardinality(Holders(counts, e)) = 0
          BY <3>1, <4>1, <4>3
        <5>2. Holders(counts, e) = {}
          BY <5>1, HoldersFinite DEF Even
        <5>3. Cardinality(Holders(c, e)) = 0
          BY <2>7, <5>2, FS_EmptySet
        <5>. QED
          BY <4>2, <4>3, <5>1, <5>3
      <4>4. CASE e # x
        <5>1. PICK g \in DOMAIN counts : Inside(g, x) /\ Encloses(g, e)
          BY <1>1, <1>8, <4>1, <4>4
        <5>2. Holders(counts, e) = {g} /\ Cardinality(Holders(counts, e)) = 1
          <6>1. g \in Holders(counts, e)
            BY <5>1 DEF Holders
          <6>. QED
            BY <4>1, <6>1, OneHolderCounts DEF Even
        <5>3. g \in freed
          <6>. SUFFICES ASSUME NEW k \in DOMAIN counts, Inside(k, x), Inside(g, k)
                        PROVE  counts[k] <= 1
            BY <1>3, <5>1
          <6>1. Inside(e, k)
            BY <1>6, <1>7, <4>1, <5>1
          <6>. QED
            BY <1>3, <3>3, <6>1
        <5>4. Holders(c, e) = {}
          BY <2>7, <5>2, <5>3
        <5>5. others[e] = 0
          BY <3>1, <4>1, <5>2
        <5>. QED
          BY <4>2, <4>4, <5>4, <5>5, FS_EmptySet
      <4>. QED
        BY <4>3, <4>4
    <3>4. CASE e \in DOMAIN counts /\ e \notin freed
      <4>1. e \in DOMAIN c /\ e # x /\ Count(c, e) = c[e]
        BY <1>2, <2>2, <3>4 DEF Count
      <4>2. CASE \E g \in freed : Encloses(g, e)
        <5>1. PICK g \in freed : Encloses(g, e)
          BY <4>2
        <5>2. g \in Holders(counts, e)
          BY <1>3, <5>1 DEF Holders
        <5>3. Holders(counts, e) = {g} /\ Cardinality(Holders(counts, e)) = 1
          BY <3>4, <5>2, OneHolderCounts DEF Even
        <5>4. Cardinality(Holders(c, e)) = 0
          BY <2>7, <5>3, FS_EmptySet
        <5>5. c[e] = counts[e] - 1
          BY <1>2, <4>1, <4>2
        <5>. QED
          BY <3>1, <3>4, <4>1, <5>3, <5>4, <5>5
      <4>3. CASE ~ \E g \in freed : Encloses(g, e)
        <5>1. Holders(c, e) = Holders(counts, e)
          BY <2>7, <4>3 DEF Holders
        <5>2. c[e] = counts[e]
          BY <1>2, <4>1, <4>3
        <5>. QED
          BY <3>1, <3>4, <4>1, <5>1, <5>2
      <4>. QED
        BY <4>2, <4>3
    <3>. QED
      BY <3>2, <3>3, <3>4
  <2>9. Even(c, less)
    BY <2>4, <2>5, <2>6, <2>8 DEF Even
  <2>. QED
    BY <2>9 DEF c
<1>. QED
  BY <1>10, <1>11

-------------------------------------------------------------------------------
(* Several elements that are released. *)

LEMMA ReleasedNone ==
  ASSUME NEW counts
  PROVE  AllReleased(counts, <<>>) = counts
<1>1. PICK f : ReleaseSteps(counts, <<>>, f) /\ AllReleased(counts, <<>>) = f[Len(<<>>)]
  BY <<>> \in Seq({}), AllReleasedSteps
<1>2. Len(<<>>) = 0 /\ 0 \in 0 .. 0
  OBVIOUS
<1>. QED
  BY <1>1, <1>2 DEF ReleaseSteps

LEMMA ReleasedAppend ==
  ASSUME NEW S, NEW es \in Seq(S), NEW x \in S, NEW counts
  PROVE  AllReleased(counts, Append(es, x)) = Released(AllReleased(counts, es), x)
<1>. DEFINE l == Len(es)
            fs == Append(es, x)
<1>1. fs \in Seq(S) /\ Len(fs) = l + 1 /\ fs[l + 1] = x /\ l \in Nat
      /\ \A i \in 1 .. l : fs[i] = es[i]
  OBVIOUS
<1>2. PICK f : ReleaseSteps(counts, fs, f) /\ AllReleased(counts, fs) = f[Len(fs)]
  BY <1>1, AllReleasedSteps
<1>3. PICK g : ReleaseSteps(counts, es, g) /\ AllReleased(counts, es) = g[Len(es)]
  BY AllReleasedSteps
<1>. HIDE DEF fs
<1>4. \A n \in 0 .. l + 1 : f[n] = IF n = 0 THEN counts ELSE Released(f[n - 1], fs[n])
  BY <1>1, <1>2 DEF ReleaseSteps
<1>5. \A n \in 0 .. l : g[n] = IF n = 0 THEN counts ELSE Released(g[n - 1], es[n])
  BY <1>3 DEF ReleaseSteps
<1>6. g[Len(es)] = g[l] /\ f[Len(fs)] = f[l + 1]
  BY <1>1
<1>. HIDE DEF l
<1>. DEFINE T == {n \in 0 .. l : f[n] # g[n]}
<1>7. T = {}
  <2>1. SUFFICES ASSUME T # {} PROVE FALSE
    OBVIOUS
  <2>2. T \subseteq Nat
    BY <1>1
  <2>3. PICK n \in T : \A m \in T : ~(m < n)
    <3>. HIDE DEF T
    <3>. QED
      BY <2>1, <2>2, LeastOf
  <2>4. n \in 0 .. l /\ n \in 0 .. l + 1 /\ f[n] # g[n]
    BY <1>1, <2>3
  <2>5. n # 0
    BY <1>4, <1>5, <2>4
  <2>6. n - 1 \in 0 .. l /\ n - 1 < n /\ n \in 1 .. l
    BY <1>1, <2>4, <2>5
  <2>7. f[n - 1] = g[n - 1]
    BY <2>3, <2>6
  <2>8. fs[n] = es[n]
    BY <1>1, <2>6
  <2>. QED
    BY <1>4, <1>5, <2>4, <2>5, <2>7, <2>8
<1>8. f[l] = g[l]
  BY <1>1, <1>7
<1>9. f[l + 1] = Released(f[l], x)
  <2>1. l + 1 \in 0 .. l + 1 /\ l + 1 # 0 /\ (l + 1) - 1 = l
    BY <1>1
  <2>. QED
    BY <1>1, <1>4, <2>1
<1>. QED
  BY <1>2, <1>3, <1>6, <1>8, <1>9 DEF fs

(* One element after the other. *)
LEMMA EvenAllReleased ==
  ASSUME NEW counts, NEW others, Even(counts, others), NEW es \in Seq(Element),
         NEW less \in [Element -> Nat], \A e \in Element : others[e] = less[e] + Places(es, e)
  PROVE  Even(AllReleased(counts, es), less)
<1>. DEFINE Wrong(gs, v) == /\ gs \in Seq(Element) /\ v \in [Element -> Nat]
                            /\ \A e \in Element : others[e] = v[e] + Places(gs, e)
                            /\ ~Even(AllReleased(counts, gs), v)
            T == {n \in Nat : \E gs, v : Wrong(gs, v) /\ Len(gs) = n}
<1>1. SUFFICES T = {}
  <2>1. ASSUME T = {} PROVE ~Wrong(es, less)
    BY <2>1
  <2>. QED
    BY <2>1
<1>2. SUFFICES ASSUME T # {} PROVE FALSE
  OBVIOUS
<1>3. T \subseteq Nat
  OBVIOUS
<1>4. PICK n \in T : \A m \in T : ~(m < n)
  <2>. HIDE DEF T
  <2>. QED
    BY <1>2, <1>3, LeastOf
<1>5. PICK gs, v : Wrong(gs, v) /\ Len(gs) = n
  BY <1>4
<1>6. /\ gs \in Seq(Element) /\ v \in [Element -> Nat] /\ n \in Nat /\ Len(gs) = n
      /\ \A e \in Element : others[e] = v[e] + Places(gs, e)
      /\ ~Even(AllReleased(counts, gs), v)
  BY <1>4, <1>5
<1>. HIDE DEF Wrong
<1>7. CASE gs = <<>>
  <2>1. AllReleased(counts, gs) = counts
    BY <1>7, ReleasedNone
  <2>2. others \in [Element -> Nat]
    BY DEF Even
  <2>3. \A e \in Element : others[e] = v[e]
    <3>. TAKE e \in Element
    <3>1. Places(gs, e) = 0
      BY <1>7, PlacesEmpty
    <3>. QED
      BY <1>6, <3>1
  <2>4. others = v
    BY <1>6, <2>2, <2>3
  <2>. QED
    BY <1>6, <2>1, <2>4
<1>8. CASE gs # <<>>
  <2>. DEFINE front == Front(gs)
              x == Last(gs)
              u == [e \in Element |-> v[e] + IF x = e THEN 1 ELSE 0]
  <2>1. /\ front \in Seq(Element) /\ x \in Element /\ gs = Append(front, x)
        /\ Len(front) = n - 1
        /\ \A e : Places(gs, e) = Places(front, e) + IF x = e THEN 1 ELSE 0
    BY <1>6, <1>8, PlacesFront
  <2>. HIDE DEF front, x
  <2>2. u \in [Element -> Nat]
    BY <1>6
  <2>3. \A e \in Element : u[e] = v[e] + IF x = e THEN 1 ELSE 0
    OBVIOUS
  <2>. HIDE DEF u
  <2>4. \A e \in Element : others[e] = u[e] + Places(front, e)
    <3>. TAKE e \in Element
    <3>. DEFINE d == IF x = e THEN 1 ELSE 0
    <3>1. others[e] = v[e] + Places(gs, e) /\ Places(gs, e) = Places(front, e) + d
          /\ u[e] = v[e] + d
      BY <1>6, <2>1, <2>3
    <3>2. v[e] \in Nat /\ Places(front, e) \in Nat /\ d \in {0, 1}
      BY <1>6, <2>1, PlacesNat
    <3>. HIDE DEF d
    <3>. QED
      BY <3>1, <3>2
  <2>5. n - 1 \in Nat /\ n - 1 < n
    BY <1>6, <1>8, <2>1
  <2>6. Even(AllReleased(counts, front), u)
    <3>1. ~Wrong(front, u)
      BY <1>4, <2>1, <2>5
    <3>. QED
      BY <2>1, <2>2, <2>4, <3>1 DEF Wrong
  <2>7. AllReleased(counts, gs) = Released(AllReleased(counts, front), x)
    BY <2>1, ReleasedAppend
  <2>8. u[x] > 0 /\ \A e \in Element : v[e] = u[e] - IF x = e THEN 1 ELSE 0
    <3>1. \A e \in Element : v[e] \in Nat
      BY <1>6
    <3>2. \A e \in Element : v[e] = u[e] - IF x = e THEN 1 ELSE 0
      <4>. TAKE e \in Element
      <4>. DEFINE d == IF x = e THEN 1 ELSE 0
      <4>1. u[e] = v[e] + d /\ v[e] \in Nat /\ d \in {0, 1}
        BY <2>3, <3>1
      <4>. HIDE DEF d
      <4>2. v[e] = u[e] - d
        BY <4>1
      <4>. QED
        BY <4>2 DEF d
    <3>3. u[x] = v[x] + 1 /\ v[x] \in Nat
      BY <2>1, <2>3, <3>1
    <3>. QED
      BY <3>2, <3>3
  <2>. DEFINE c == AllReleased(counts, front)
  <2>9. Even(c, u)
    BY <2>6
  <2>. HIDE DEF c
  <2>10. Even(Released(c, x), v)
    BY <1>6, <2>1, <2>8, <2>9, EvenReleased
  <2>. QED
    BY <1>6, <2>7, <2>10 DEF c
<1>. QED
  BY <1>7, <1>8

-------------------------------------------------------------------------------
(* A heap is balanced but for the wrappers in X and what is loose: its
   counters count all cells but those of X, what is leaked, and what is loose. *)

(* A text that is parsed: what contains an element of it is in it, and the
   outermost has one reference. *)
ParsedCounts(counts, c, number, all) ==
  /\ number \in Positive /\ \A e \in DOMAIN counts : e.text # number
  /\ DOMAIN c = DOMAIN counts \cup all
  /\ \A e \in DOMAIN c : c[e] = IF e \in all THEN 1 ELSE counts[e]

OneMore(others, more, x) ==
  /\ more \in [Element -> Nat]
  /\ \A e \in Element : more[e] = others[e] + IF e = x THEN 1 ELSE 0

(* A text comes with one reference from outside, to its outermost node. *)
LEMMA EvenParsed ==
  ASSUME NEW counts, NEW others, Even(counts, others), NEW number, NEW t \in Texts,
         NEW all, all = Content(number, t), NEW root, root = [text |-> number, node |-> t],
         NEW c, ParsedCounts(counts, c, number, all), NEW more, OneMore(others, more, root)
  PROVE  Even(c, more)
<1>1. /\ number \in Positive /\ \A e \in DOMAIN counts : e.text # number
      /\ DOMAIN c = DOMAIN counts \cup all
      /\ \A e \in DOMAIN c : c[e] = IF e \in all THEN 1 ELSE counts[e]
      /\ more \in [Element -> Nat]
      /\ \A e \in Element : more[e] = others[e] + IF e = root THEN 1 ELSE 0
  BY DEF ParsedCounts, OneMore
<1>. USE <1>1
<1>2. t \in Nodes
  BY StoreConstants
<1>3. IsFiniteSet(all) /\ all \subseteq Element /\ root \in all
  BY <1>2, ContentFinite
<1>4. /\ \A e \in all : e.text = number /\ e.node \in Family[t] /\ e.node \in Nodes
      /\ \A n \in Family[t] : [text |-> number, node |-> n] \in all
      /\ \A e \in all : e.node = t => e = root
  BY <1>3 DEF Content, Element
<1>5. CountsTyped(c)
  <2>1. DOMAIN c = DOMAIN counts \cup all
    OBVIOUS
  <2>2. IsFiniteSet(DOMAIN counts) /\ DOMAIN counts \subseteq Element
    BY DEF Even, CountsTyped
  <2>3. IsFiniteSet(DOMAIN counts \cup all)
    BY <1>3, <2>2, FS_Union
  <2>. QED
    BY <1>3, <2>1, <2>2, <2>3 DEF CountsTyped
<1>6. all \cap DOMAIN counts = {}
  BY <1>4
<1>7. \A e \in DOMAIN c : c[e] \in Positive
  BY DEF Even, Positive
<1>8. OneText(c)
  <2>. SUFFICES ASSUME NEW e \in DOMAIN c
                PROVE  \E s \in Texts : \A f \in DOMAIN c : f.text = e.text => f.node \in Family[s]
    BY DEF OneText
  <2>1. CASE e \in all
    BY <1>4, <2>1
  <2>2. CASE e \in DOMAIN counts
    <3>1. \A f \in all : f.text # e.text
      BY <1>4, <2>2
    <3>. QED
      BY <2>2, <3>1 DEF Even, OneText
  <2>. QED
    BY <2>1, <2>2
<1>9. \A e \in Element : Count(c, e) = more[e] + Cardinality(Holders(c, e))
  <2>. TAKE e \in Element
  <2>1. /\ Count(counts, e) = others[e] + Cardinality(Holders(counts, e))
        /\ others[e] \in Nat /\ Cardinality(Holders(counts, e)) \in Nat
        /\ Count(counts, e) = 0 <=> e \notin DOMAIN counts
    BY EvenCounts DEF Even
  <2>2. more[e] = IF e = root THEN others[e] + 1 ELSE others[e]
    BY <2>1
  <2>3. CASE e.text # number
    <3>1. e \notin all /\ e # root
      BY <1>3, <1>4, <2>3
    <3>2. Holders(c, e) = Holders(counts, e)
      BY <1>4, <2>3 DEF Holders, Encloses
    <3>3. Count(c, e) = Count(counts, e)
      BY <3>1 DEF Count
    <3>. QED
      BY <2>1, <2>2, <3>1, <3>2, <3>3
  <2>4. CASE e.text = number
    <3>1. e \notin DOMAIN counts
      BY <2>4
    <3>2. others[e] = 0
      BY <2>1, <3>1
    <3>3. Holders(c, e) \subseteq all
      <4>1. \A f \in DOMAIN counts : ~Encloses(f, e)
        BY <2>4 DEF Encloses
      <4>. QED
        BY <4>1 DEF Holders
    <3>4. CASE e = root
      <4>1. Holders(c, e) = {}
        <5>. SUFFICES ASSUME NEW f \in Holders(c, e) PROVE FALSE
          OBVIOUS
        <5>1. f \in all /\ Encloses(f, e)
          BY <3>3 DEF Holders
        <5>2. Includes(f.node, t) /\ f.node \in Nodes /\ f.node \in Family[t]
          BY <1>4, <3>4, <5>1 DEF Encloses
        <5>. QED
          BY <1>2, <5>2, FamilyOrdered
      <4>2. Cardinality(Holders(c, e)) = 0
        BY <4>1, FS_EmptySet
      <4>3. Count(c, e) = 1
        BY <1>3, <3>4 DEF Count
      <4>. QED
        BY <2>2, <3>2, <3>4, <4>2, <4>3
    <3>5. CASE e # root /\ e \in all
      <4>1. e.node \in Family[t] /\ e.node # t
        BY <1>4, <3>5
      <4>2. PICK m \in Family[t] : Includes(m, e.node)
        BY <1>2, <4>1, FamilyHolder
      <4>. DEFINE g == [text |-> number, node |-> m]
      <4>3. g \in all /\ Encloses(g, e)
        BY <1>4, <2>4, <4>2 DEF Encloses
      <4>. HIDE DEF g
      <4>4. g \in Holders(c, e) /\ e \in DOMAIN c
        BY <3>5, <4>3 DEF Holders
      <4>5. Cardinality(Holders(c, e)) = 1
        BY <1>5, <1>8, <4>4, OneHolderCounts
      <4>6. Count(c, e) = 1
        BY <3>5 DEF Count
      <4>. QED
        BY <2>2, <3>2, <3>5, <4>5, <4>6
    <3>6. CASE e \notin all
      <4>1. e # root
        BY <1>3, <3>6
      <4>2. Holders(c, e) = {}
        <5>. SUFFICES ASSUME NEW f \in Holders(c, e) PROVE FALSE
          OBVIOUS
        <5>1. f \in all /\ Encloses(f, e)
          BY <3>3 DEF Holders
        <5>2. Includes(f.node, e.node) /\ f.node \in Family[t] /\ e.node \in Nodes
          BY <1>4, <5>1 DEF Encloses, Element
        <5>3. e.node \in Family[f.node] /\ f.node \in Nodes
          BY <1>4, <5>1, <5>2, FamilyTyped, FamilyMembers
        <5>4. e.node \in Family[t]
          BY <1>2, <5>2, <5>3, FamilyTransitive
        <5>5. e = [text |-> number, node |-> e.node]
          BY <2>4 DEF Element
        <5>. QED
          BY <1>4, <3>6, <5>4, <5>5
      <4>3. Cardinality(Holders(c, e)) = 0
        BY <4>2, FS_EmptySet
      <4>4. Count(c, e) = 0
        BY <3>1, <3>6 DEF Count
      <4>. QED
        BY <2>2, <3>2, <4>1, <4>3, <4>4
    <3>. QED
      BY <1>3, <3>4, <3>5, <3>6
  <2>. QED
    BY <2>3, <2>4
<1>. QED
  BY <1>5, <1>7, <1>8, <1>9 DEF Even

-------------------------------------------------------------------------------
(* The references to elements of cells and of leaked arrays, and of an array
   that a call of the resolution holds. *)

Away(h, X, e) == Cardinality(CellsBut(h.wraps, X, e)) + Places(h.leaked, e)

Others(h, X, loose) == [e \in Element |-> Away(h, X, e) + Places(loose, e)]

Balanced(h, X, loose) == Even(h.counts, Others(h, X, loose))

LEMMA HeapWraps ==
  ASSUME NEW h, IsHeap(h)
  PROVE  WrapsTyped(h.wraps)
BY DEF IsHeap, WrapsTyped, Wrapper

(* The references from outside are a number. *)
LEMMA AwayNat ==
  ASSUME NEW h, IsHeap(h), NEW X, NEW e
  PROVE  /\ Away(h, X, e) \in Nat
         /\ Cardinality(CellsBut(h.wraps, X, e)) \in Nat /\ Places(h.leaked, e) \in Nat
<1>1. Cardinality(CellsBut(h.wraps, X, e)) \in Nat
  BY HeapWraps, CellsFinite, FS_CardinalityType
<1>2. Places(h.leaked, e) \in Nat
  BY PlacesNat DEF IsHeap
<1>. QED
  BY <1>1, <1>2 DEF Away

LEMMA OthersNat ==
  ASSUME NEW h, IsHeap(h), NEW X, NEW loose \in Seq(Element)
  PROVE  /\ Others(h, X, loose) \in [Element -> Nat]
         /\ \A e \in Element : Others(h, X, loose)[e] = Away(h, X, e) + Places(loose, e)
<1>1. \A e : Away(h, X, e) \in Nat /\ Places(loose, e) \in Nat
  BY AwayNat, PlacesNat
<1>. QED
  BY <1>1 DEF Others

(* Elements that move between arrays stay balanced. *)
LEMMA BalancedSame ==
  ASSUME NEW h, NEW X, NEW loose, Balanced(h, X, loose), NEW k, k.counts = h.counts,
         NEW Y, NEW rest,
         \A e \in Element : Away(k, Y, e) + Places(rest, e) = Away(h, X, e) + Places(loose, e)
  PROVE  Balanced(k, Y, rest)
<1>1. Others(k, Y, rest) = Others(h, X, loose)
  BY DEF Others
<1>. QED
  BY <1>1 DEF Balanced

(* The order of what is loose does not matter. *)
LEMMA BalancedPlaces ==
  ASSUME NEW h, NEW X, NEW loose, Balanced(h, X, loose), NEW rest,
         \A e : Places(rest, e) = Places(loose, e)
  PROVE  Balanced(h, X, rest)
<1>1. \A e \in Element : Away(h, X, e) + Places(rest, e) = Away(h, X, e) + Places(loose, e)
  OBVIOUS
<1>. QED
  BY <1>1, BalancedSame

-------------------------------------------------------------------------------
(* The steps on a heap that keep it balanced. *)

(* One wrapper gets other elements. *)
LEMMA CellsMoved ==
  ASSUME NEW wraps, WrapsTyped(wraps), NEW other, WrapsTyped(other), NEW X, NEW w, w \notin X,
         w \in DOMAIN wraps, w \in DOMAIN other,
         DOMAIN other = DOMAIN wraps,
         \A v \in DOMAIN wraps \ {w} : other[v].elements = wraps[v].elements, NEW e
  PROVE  Cardinality(CellsBut(other, X, e)) + Places(wraps[w].elements, e)
         = Cardinality(CellsBut(wraps, X, e)) + Places(other[w].elements, e)
<1>. DEFINE Y == X \cup {w}
            a == Cardinality(CellsBut(wraps, Y, e))
<1>1. CellsBut(other, Y, e) = CellsBut(wraps, Y, e)
  <2>1. \A v : v \in DOMAIN wraps /\ v \notin Y <=> v \in DOMAIN other /\ v \notin Y
    OBVIOUS
  <2>2. \A v \in DOMAIN wraps \ Y : wraps[v].elements = other[v].elements
    OBVIOUS
  <2>. HIDE DEF Y
  <2>. QED
    BY <2>1, <2>2, CellsSame
<1>2. IsFiniteSet(CellsBut(wraps, Y, e)) /\ IsFiniteSet(CellsBut(other, Y, e))
  BY CellsFinite
<1>3. Cardinality(CellsBut(wraps, X, e)) = a + Places(wraps[w].elements, e)
  BY <1>2, CellsSplit
<1>4. Cardinality(CellsBut(other, X, e)) = a + Places(other[w].elements, e)
  <2>1. Cardinality(CellsBut(other, X, e)) =
          Cardinality(CellsBut(other, Y, e)) + Places(other[w].elements, e)
    BY <1>2, CellsSplit
  <2>. QED
    BY <1>1, <2>1
<1>5. a \in Nat /\ Places(wraps[w].elements, e) \in Nat /\ Places(other[w].elements, e) \in Nat
  BY <1>2, FS_CardinalityType, PlacesNat DEF WrapsTyped
<1>. HIDE DEF a
<1>. QED
  BY <1>3, <1>4, <1>5

(* One wrapper less. *)
LEMMA CellsLess ==
  ASSUME NEW wraps, WrapsTyped(wraps), NEW other, NEW X, NEW w \in DOMAIN wraps, w \notin X,
         DOMAIN other = DOMAIN wraps \ {w},
         \A v \in DOMAIN other : other[v].elements = wraps[v].elements, NEW e
  PROVE  Cardinality(CellsBut(wraps, X, e))
         = Cardinality(CellsBut(other, X, e)) + Places(wraps[w].elements, e)
<1>. DEFINE Y == X \cup {w}
<1>1. CellsBut(other, X, e) = CellsBut(wraps, Y, e)
  BY DEF CellsBut, Cells
<1>2. IsFiniteSet(CellsBut(wraps, Y, e))
  BY CellsFinite
<1>3. Cardinality(CellsBut(wraps, X, e)) =
        Cardinality(CellsBut(wraps, Y, e)) + Places(wraps[w].elements, e)
  BY <1>2, CellsSplit
<1>. QED
  BY <1>1, <1>3

(* The cells of another heap with the same arrays, one array changed, one less. *)
LEMMA AwaySame ==
  ASSUME NEW h, NEW k, k.wraps = h.wraps, k.leaked = h.leaked, NEW X, NEW e
  PROVE  Away(k, X, e) = Away(h, X, e)
BY DEF Away

LEMMA AwayMoved ==
  ASSUME NEW h, IsHeap(h), NEW k, IsHeap(k), NEW X, NEW w \in DOMAIN h.wraps, w \notin X,
         NEW x, Rewrapped(h, k, w, x), NEW e
  PROVE  /\ Away(k, X, e) + Places(h.wraps[w].elements, e) = Away(h, X, e) + Places(x.elements, e)
         /\ Places(h.wraps[w].elements, e) \in Nat /\ Places(x.elements, e) \in Nat
<1>. DEFINE a == Cardinality(CellsBut(h.wraps, X, e))
            b == Cardinality(CellsBut(k.wraps, X, e))
            c == Places(h.wraps[w].elements, e)
            d == Places(x.elements, e)
            l == Places(h.leaked, e)
<1>1. /\ k.leaked = h.leaked /\ DOMAIN k.wraps = DOMAIN h.wraps
      /\ k.wraps[w].elements = x.elements
      /\ \A v \in DOMAIN h.wraps \ {w} : k.wraps[v].elements = h.wraps[v].elements
  BY DEF Rewrapped
<1>2. WrapsTyped(h.wraps) /\ WrapsTyped(k.wraps)
  BY HeapWraps
<1>3. b + c = a + d
  BY <1>1, <1>2, CellsMoved
<1>4. c \in Nat /\ d \in Nat
  BY <1>1, <1>2, PlacesNat DEF WrapsTyped
<1>5. a \in Nat /\ b \in Nat /\ l \in Nat
  BY AwayNat
<1>6. Away(h, X, e) = a + l /\ Away(k, X, e) = b + l
  BY <1>1 DEF Away
<1>. HIDE DEF a, b, c, d, l
<1>7. Away(k, X, e) + c = Away(h, X, e) + d
  BY <1>3, <1>4, <1>5, <1>6
<1>. QED
  BY <1>4, <1>7 DEF c, d

LEMMA AwayLess ==
  ASSUME NEW h, IsHeap(h), NEW k, IsHeap(k), NEW X, NEW w \in DOMAIN h.wraps, w \notin X,
         k.leaked = h.leaked, DOMAIN k.wraps = DOMAIN h.wraps \ {w},
         \A v \in DOMAIN k.wraps : k.wraps[v].elements = h.wraps[v].elements, NEW e
  PROVE  /\ Away(h, X, e) = Away(k, X, e) + Places(h.wraps[w].elements, e)
         /\ Places(h.wraps[w].elements, e) \in Nat
<1>. DEFINE a == Cardinality(CellsBut(h.wraps, X, e))
            b == Cardinality(CellsBut(k.wraps, X, e))
            c == Places(h.wraps[w].elements, e)
            l == Places(h.leaked, e)
<1>1. WrapsTyped(h.wraps)
  BY HeapWraps
<1>2. a = b + c
  BY <1>1, CellsLess
<1>3. c \in Nat
  BY <1>1, PlacesNat DEF WrapsTyped
<1>4. a \in Nat /\ b \in Nat /\ l \in Nat
  BY AwayNat
<1>5. Away(h, X, e) = a + l /\ Away(k, X, e) = b + l
  BY DEF Away
<1>. HIDE DEF a, b, c, l
<1>6. Away(h, X, e) = Away(k, X, e) + c
  BY <1>2, <1>3, <1>4, <1>5
<1>. QED
  BY <1>3, <1>6 DEF c

(* Elements move between what is loose and an array. *)
LEMMA BalancedMoved ==
  ASSUME NEW h, IsHeap(h), NEW X, NEW loose \in Seq(Element), Balanced(h, X, loose),
         NEW k, IsHeap(k), NEW w \in DOMAIN h.wraps, w \notin X, NEW x, Rewrapped(h, k, w, x),
         NEW rest \in Seq(Element),
         \A e : Places(rest, e) + Places(x.elements, e)
                = Places(loose, e) + Places(h.wraps[w].elements, e)
  PROVE  Balanced(k, X, rest)
<1>1. k.counts = h.counts
  BY DEF Rewrapped
<1>2. \A e \in Element : Away(k, X, e) + Places(rest, e) = Away(h, X, e) + Places(loose, e)
  <2>. TAKE e \in Element
  <2>1. /\ Away(k, X, e) + Places(h.wraps[w].elements, e)
             = Away(h, X, e) + Places(x.elements, e)
        /\ Places(h.wraps[w].elements, e) \in Nat /\ Places(x.elements, e) \in Nat
    BY AwayMoved
  <2>2. Places(rest, e) + Places(x.elements, e)
        = Places(loose, e) + Places(h.wraps[w].elements, e)
    OBVIOUS
  <2>3. /\ Away(k, X, e) \in Nat /\ Away(h, X, e) \in Nat
        /\ Places(rest, e) \in Nat /\ Places(loose, e) \in Nat
    BY AwayNat, PlacesNat
  <2>. DEFINE a == Away(h, X, e)
              b == Away(k, X, e)
              c == Places(h.wraps[w].elements, e)
              d == Places(x.elements, e)
              p == Places(loose, e)
              q == Places(rest, e)
  <2>4. a \in Nat /\ b \in Nat /\ c \in Nat /\ d \in Nat /\ p \in Nat /\ q \in Nat
    BY <2>1, <2>3
  <2>5. b + c = a + d /\ q + d = p + c
    BY <2>1, <2>2
  <2>. HIDE DEF a, b, c, d, p, q
  <2>6. b + q = a + p
    BY ONLY <2>4, <2>5
  <2>. QED
    BY <2>6 DEF a, b, p, q
<1>. QED
  BY <1>1, <1>2, BalancedSame

(* A wrapper is made of what is loose. *)
LEMMA BalancedWraps ==
  ASSUME NEW h, IsHeap(h), NEW X, NEW loose \in Seq(Element), Balanced(h, X, loose),
         NEW k, IsHeap(k), NEW w, w \notin X, NEW x, Wraps(h, k, w, x), k.counts = h.counts,
         NEW rest \in Seq(Element),
         \A e : Places(loose, e) = Places(rest, e) + Places(x.elements, e)
  PROVE  Balanced(k, X, rest)
<1>1. /\ h.leaked = k.leaked /\ w \in DOMAIN k.wraps /\ DOMAIN h.wraps = DOMAIN k.wraps \ {w}
      /\ k.wraps[w].elements = x.elements
      /\ \A v \in DOMAIN h.wraps : h.wraps[v].elements = k.wraps[v].elements
  BY DEF Wraps
<1>2. \A e \in Element : Away(k, X, e) + Places(rest, e) = Away(h, X, e) + Places(loose, e)
  <2>. TAKE e \in Element
  <2>. DEFINE d == Places(k.wraps[w].elements, e)
  <2>1. Away(k, X, e) = Away(h, X, e) + d /\ d \in Nat
    BY <1>1, AwayLess
  <2>2. Places(loose, e) = Places(rest, e) + d
    BY <1>1
  <2>3. Away(h, X, e) \in Nat /\ Places(rest, e) \in Nat
    BY AwayNat, PlacesNat
  <2>. HIDE DEF d
  <2>. QED
    BY <2>1, <2>2, <2>3
<1>. QED
  BY <1>2, BalancedSame

(* A wrapper is given up, with a reference to each of its elements when it
   was the last. *)
LEMMA BalancedUnref ==
  ASSUME NEW h, IsHeap(h), NEW X, NEW loose \in Seq(Element), Balanced(h, X, loose),
         NEW w \in DOMAIN h.wraps, w \notin X
  PROVE  Balanced(Unref(h, w), X, loose)
<1>. DEFINE k == Unref(h, w)
            es == h.wraps[w].elements
<1>1. IsHeap(k) /\ Unwrapped(h, k, w)
  BY UnrefHeap
<1>2. es \in Seq(Element)
  BY HeapWraps DEF WrapsTyped
<1>. HIDE DEF k
<1>3. CASE h.wraps[w].cnt > 1
  <2>. DEFINE x == [cnt |-> h.wraps[w].cnt - 1, elements |-> es, map |-> h.wraps[w].map]
  <2>1. Rewrapped(h, k, w, x)
    BY <1>1, <1>3 DEF Unwrapped
  <2>2. \A e : Places(loose, e) + Places(x.elements, e) = Places(loose, e) + Places(es, e)
    OBVIOUS
  <2>. HIDE DEF x
  <2>3. Balanced(k, X, loose)
    BY <1>1, <2>1, <2>2, BalancedMoved
  <2>. QED
    BY <2>3 DEF k
<1>4. CASE ~(h.wraps[w].cnt > 1)
  <2>1. /\ k.leaked = h.leaked /\ k.counts = AllReleased(h.counts, es)
        /\ DOMAIN k.wraps = DOMAIN h.wraps \ {w}
        /\ \A v \in DOMAIN k.wraps : k.wraps[v] = h.wraps[v]
    BY <1>1, <1>4 DEF Unwrapped
  <2>2. \A v \in DOMAIN k.wraps : k.wraps[v].elements = h.wraps[v].elements
    BY <2>1
  <2>. DEFINE u == Others(h, X, loose)
              v == Others(k, X, loose)
  <2>3. u \in [Element -> Nat] /\ v \in [Element -> Nat] /\ Even(h.counts, u)
    BY <1>1, OthersNat DEF Balanced
  <2>4. \A e \in Element : u[e] = Away(h, X, e) + Places(loose, e)
    BY OthersNat
  <2>5. \A e \in Element : v[e] = Away(k, X, e) + Places(loose, e)
    BY <1>1, OthersNat
  <2>. HIDE DEF u, v
  <2>6. \A e \in Element : u[e] = v[e] + Places(es, e)
    <3>. TAKE e \in Element
    <3>1. Away(h, X, e) = Away(k, X, e) + Places(es, e) /\ Places(es, e) \in Nat
      BY <1>1, <2>1, <2>2, AwayLess
    <3>2. Away(k, X, e) \in Nat /\ Places(loose, e) \in Nat
      BY <1>1, AwayNat, PlacesNat
    <3>. HIDE DEF es
    <3>. QED
      BY <2>4, <2>5, <3>1, <3>2
  <2>. HIDE DEF es
  <2>. DEFINE c == h.counts
  <2>7. Even(c, u) /\ k.counts = AllReleased(c, es)
    BY <2>1, <2>3
  <2>. HIDE DEF c
  <2>8. Even(AllReleased(c, es), v)
    BY <1>2, <2>3, <2>6, <2>7, EvenAllReleased
  <2>. QED
    BY <2>7, <2>8 DEF Balanced, k, v
<1>. QED
  BY <1>3, <1>4

(* A loose reference is released. *)
LEMMA BalancedReleased ==
  ASSUME NEW h, IsHeap(h), NEW X, NEW loose \in Seq(Element), Balanced(h, X, loose),
         NEW x \in Element, NEW rest \in Seq(Element),
         \A e : Places(loose, e) = Places(rest, e) + IF x = e THEN 1 ELSE 0,
         NEW k, k.counts = Released(h.counts, x), k.wraps = h.wraps, k.leaked = h.leaked
  PROVE  Balanced(k, X, rest)
<1>. DEFINE u == Others(h, X, loose)
            v == Others(h, X, rest)
<1>1. u \in [Element -> Nat] /\ v \in [Element -> Nat] /\ Even(h.counts, u)
  BY OthersNat DEF Balanced
<1>2. \A e \in Element : u[e] = Away(h, X, e) + Places(loose, e)
                         /\ v[e] = Away(h, X, e) + Places(rest, e)
                         /\ Away(h, X, e) \in Nat /\ Places(rest, e) \in Nat
  BY OthersNat, AwayNat, PlacesNat
<1>3. v = Others(k, X, rest)
  BY AwaySame DEF Others
<1>. HIDE DEF u, v
<1>4. \A e \in Element : v[e] = u[e] - IF x = e THEN 1 ELSE 0
  <2>. TAKE e \in Element
  <2>. DEFINE d == IF x = e THEN 1 ELSE 0
  <2>1. Places(loose, e) = Places(rest, e) + d /\ d \in {0, 1}
    OBVIOUS
  <2>. HIDE DEF d
  <2>2. v[e] = u[e] - d
    BY <1>2, <2>1
  <2>. QED
    BY <2>2 DEF d
<1>5. u[x] > 0
  <2>1. Places(loose, x) = Places(rest, x) + 1
    OBVIOUS
  <2>. QED
    BY <1>2, <2>1
<1>6. Even(Released(h.counts, x), v)
  BY <1>1, <1>4, <1>5, EvenReleased
<1>. QED
  BY <1>3, <1>6 DEF Balanced

(* References are copied to an array. *)
LEMMA BalancedAllCopied ==
  ASSUME NEW h, IsHeap(h), NEW X, NEW loose \in Seq(Element), Balanced(h, X, loose),
         NEW es \in Seq(Element), \A i \in 1 .. Len(es) : es[i] \in DOMAIN h.counts,
         NEW rest \in Seq(Element),
         \A e : Places(rest, e) = Places(loose, e) + Places(es, e),
         NEW k, k.counts = AllCopied(h.counts, es), k.wraps = h.wraps, k.leaked = h.leaked
  PROVE  Balanced(k, X, rest)
<1>. DEFINE u == Others(h, X, loose)
            v == Others(h, X, rest)
<1>1. u \in [Element -> Nat] /\ v \in [Element -> Nat] /\ Even(h.counts, u)
  BY OthersNat DEF Balanced
<1>2. \A e \in Element : u[e] = Away(h, X, e) + Places(loose, e)
                         /\ v[e] = Away(h, X, e) + Places(rest, e)
                         /\ Away(h, X, e) \in Nat /\ Places(loose, e) \in Nat
                         /\ Places(es, e) \in Nat
  BY OthersNat, AwayNat, PlacesNat
<1>3. v = Others(k, X, rest)
  BY AwaySame DEF Others
<1>. HIDE DEF u, v
<1>4. \A e \in Element : v[e] = u[e] + Places(es, e)
  <2>. TAKE e \in Element
  <2>1. Places(rest, e) = Places(loose, e) + Places(es, e)
    OBVIOUS
  <2>. QED
    BY <1>2, <2>1
<1>5. Even(AllCopied(h.counts, es), v)
  BY <1>1, <1>4, EvenAllCopied
<1>. QED
  BY <1>3, <1>5 DEF Balanced

LEMMA BalancedCopied ==
  ASSUME NEW h, IsHeap(h), NEW X, NEW loose \in Seq(Element), Balanced(h, X, loose),
         NEW x \in DOMAIN h.counts,
         NEW k, k.counts = Copied(h.counts, x), k.wraps = h.wraps, k.leaked = h.leaked
  PROVE  Balanced(k, X, Append(loose, x))
<1>. DEFINE rest == Append(loose, x)
            u == Others(h, X, loose)
            v == Others(h, X, rest)
<1>1. x \in Element /\ rest \in Seq(Element)
  BY DEF IsHeap
<1>2. \A e : Places(rest, e) = Places(loose, e) + IF x = e THEN 1 ELSE 0
  BY <1>1, PlacesAppend
<1>. HIDE DEF rest
<1>3. u \in [Element -> Nat] /\ v \in [Element -> Nat] /\ Even(h.counts, u)
  BY <1>1, OthersNat DEF Balanced
<1>4. \A e \in Element : u[e] = Away(h, X, e) + Places(loose, e)
                         /\ v[e] = Away(h, X, e) + Places(rest, e)
                         /\ Away(h, X, e) \in Nat /\ Places(loose, e) \in Nat
  BY <1>1, OthersNat, AwayNat, PlacesNat
<1>5. v = Others(k, X, rest)
  BY AwaySame DEF Others
<1>. HIDE DEF u, v
<1>6. \A e \in Element : v[e] = u[e] + IF x = e THEN 1 ELSE 0
  <2>. TAKE e \in Element
  <2>. DEFINE d == IF x = e THEN 1 ELSE 0
  <2>1. Places(rest, e) = Places(loose, e) + d /\ d \in {0, 1}
    BY <1>2
  <2>. HIDE DEF d
  <2>2. v[e] = u[e] + d
    BY <1>4, <2>1
  <2>. QED
    BY <2>2 DEF d
<1>7. Even(Copied(h.counts, x), v)
  BY <1>3, <1>6, EvenCopied
<1>8. Balanced(k, X, rest)
  BY <1>5, <1>7 DEF Balanced
<1>. QED
  BY <1>8 DEF rest

(* A text is parsed. *)
LEMMA BalancedParsed ==
  ASSUME NEW h, IsHeap(h), NEW X, NEW loose \in Seq(Element), Balanced(h, X, loose),
         NEW k, IsHeap(k), NEW t \in Texts, NEW mapped \in BOOLEAN, NEW number, NEW w, w \notin X,
         ParsedAs(h, k, t, mapped, number, w)
  PROVE  Balanced(k, X, loose)
<1>. DEFINE root == [text |-> number, node |-> t]
            x == [cnt |-> 1, elements |-> <<root>>, map |-> IF mapped THEN number ELSE 0]
            u == Others(h, X, loose)
            v == Others(k, X, loose)
<1>1. /\ number \in Positive /\ \A e \in DOMAIN h.counts : e.text # number
      /\ DOMAIN k.counts = DOMAIN h.counts \cup Content(number, t)
      /\ \A e \in DOMAIN k.counts : k.counts[e] = IF e \in Content(number, t) THEN 1
                                                  ELSE h.counts[e]
      /\ Wraps(h, k, w, x)
  BY DEF ParsedAs
<1>2. x.elements = <<root>>
  OBVIOUS
<1>. HIDE DEF x
<1>3. /\ k.leaked = h.leaked /\ w \in DOMAIN k.wraps /\ DOMAIN h.wraps = DOMAIN k.wraps \ {w}
      /\ k.wraps[w].elements = <<root>>
      /\ \A z \in DOMAIN h.wraps : h.wraps[z].elements = k.wraps[z].elements
  <2>. HIDE DEF root
  <2>. QED
    BY <1>1, <1>2 DEF Wraps
<1>4. u \in [Element -> Nat] /\ v \in [Element -> Nat] /\ Even(h.counts, u)
  BY OthersNat DEF Balanced
<1>5. \A e \in Element : u[e] = Away(h, X, e) + Places(loose, e)
                         /\ v[e] = Away(k, X, e) + Places(loose, e)
                         /\ Away(h, X, e) \in Nat /\ Places(loose, e) \in Nat
  BY OthersNat, AwayNat, PlacesNat
<1>. HIDE DEF u, v
<1>6. \A e \in Element : v[e] = u[e] + IF e = root THEN 1 ELSE 0
  <2>. HIDE DEF root
  <2>. TAKE e \in Element
  <2>. DEFINE d == IF root = e THEN 1 ELSE 0
  <2>1. Away(k, X, e) = Away(h, X, e) + Places(k.wraps[w].elements, e)
    BY <1>3, AwayLess
  <2>2. Places(k.wraps[w].elements, e) = d /\ d \in {0, 1}
    BY <1>3, PlacesOne
  <2>. HIDE DEF d
  <2>3. v[e] = u[e] + d
    BY <1>5, <2>1, <2>2
  <2>. QED
    BY <2>3 DEF d
<1>. DEFINE all == Content(number, t)
<1>7. ParsedCounts(h.counts, k.counts, number, all) /\ OneMore(u, v, root)
  BY <1>1, <1>4, <1>6 DEF ParsedCounts, OneMore
<1>8. all = Content(number, t) /\ root = [text |-> number, node |-> t]
  OBVIOUS
<1>. HIDE DEF all, root
<1>9. Even(k.counts, v)
  BY <1>4, <1>7, <1>8, EvenParsed
<1>. QED
  BY <1>9 DEF Balanced, v

(* Elements that are leaked. *)
LEMMA BalancedLeaked ==
  ASSUME NEW h, IsHeap(h), NEW X, NEW loose \in Seq(Element), Balanced(h, X, loose),
         NEW es \in Seq(Element), NEW rest \in Seq(Element),
         \A e : Places(loose, e) = Places(rest, e) + Places(es, e)
  PROVE  Balanced(Leak(h, es), X, rest)
<1>. DEFINE k == Leak(h, es)
<1>1. k.counts = h.counts /\ k.wraps = h.wraps /\ k.leaked = h.leaked \o es
  BY LeakHeap
<1>2. h.leaked \in Seq(Element)
  BY DEF IsHeap
<1>3. \A e : Places(h.leaked \o es, e) = Places(h.leaked, e) + Places(es, e)
  BY <1>2, PlacesConcat
<1>. HIDE DEF k
<1>4. \A e \in Element : Away(k, X, e) + Places(rest, e) = Away(h, X, e) + Places(loose, e)
  <2>. TAKE e \in Element
  <2>. DEFINE a == Cardinality(CellsBut(h.wraps, X, e))
              l == Places(h.leaked, e)
  <2>1. Away(h, X, e) = a + l /\ Away(k, X, e) = a + (l + Places(es, e))
    BY <1>1, <1>3 DEF Away
  <2>2. Places(loose, e) = Places(rest, e) + Places(es, e)
    OBVIOUS
  <2>3. a \in Nat /\ l \in Nat /\ Places(rest, e) \in Nat /\ Places(es, e) \in Nat
    BY AwayNat, PlacesNat
  <2>. HIDE DEF a, l
  <2>. QED
    BY <2>1, <2>2, <2>3
<1>5. Balanced(k, X, rest)
  BY <1>1, <1>4, BalancedSame
<1>. QED
  BY <1>5 DEF k

-------------------------------------------------------------------------------
(* A reference keeps the heap balanced. *)

(* The wrappers in X are there, and the resolver lends none of them. *)
Spared(h, X, r) == X \subseteq DOMAIN h.wraps /\ (r.does = "lend" => r.schema \notin X)

(* What a resolver answers leaves the elements on their way alone. *)
LEMMA AnswerBalanced ==
  ASSUME NEW h, IsHeap(h), NEW X,
         NEW loose \in Seq(Element), Balanced(h, X, loose),
         NEW r \in Resolvers(DOMAIN h.wraps), Spared(h, X, r), r.does # "fail",
         NEW b, b = Answered(h, r).heap, NEW w, w = Answered(h, r).schema
  PROVE  IsHeap(b) /\ w \in DOMAIN b.wraps /\ w \notin X /\ Balanced(b, X, loose)
<1>1. /\ IsHeap(b) /\ r.does \in {"parse", "lend"}
      /\ r.does = "parse" => r.text \in Texts /\ ParsedAs(h, b, r.text, FALSE, FreeText(h), w)
      /\ r.does = "lend" => /\ w = r.schema /\ w \in DOMAIN h.wraps
                            /\ Rewrapped(h, b, w, [cnt |-> h.wraps[w].cnt + 1,
                                                   elements |-> h.wraps[w].elements,
                                                   map |-> h.wraps[w].map])
  BY Answers
<1>2. CASE r.does = "parse"
  <2>1. r.text \in Texts /\ ParsedAs(h, b, r.text, FALSE, FreeText(h), w)
    BY <1>1, <1>2
  <2>2. w \notin DOMAIN h.wraps /\ w \in DOMAIN b.wraps
    BY <2>1 DEF ParsedAs, Wraps
  <2>3. w \notin X
    BY <2>2 DEF Spared
  <2>4. Balanced(b, X, loose)
    BY <1>1, <2>1, <2>3, BalancedParsed
  <2>. QED
    BY <1>1, <2>2, <2>3, <2>4
<1>3. CASE r.does = "lend"
  <2>. DEFINE x == [cnt |-> h.wraps[w].cnt + 1, elements |-> h.wraps[w].elements,
                    map |-> h.wraps[w].map]
  <2>1. w \in DOMAIN h.wraps /\ w \notin X /\ Rewrapped(h, b, w, x)
        /\ x.elements = h.wraps[w].elements
    BY <1>1, <1>3 DEF Spared
  <2>. HIDE DEF x
  <2>2. \A e : Places(loose, e) + Places(x.elements, e)
               = Places(loose, e) + Places(h.wraps[w].elements, e)
    BY <2>1
  <2>3. Balanced(b, X, loose)
    BY <1>1, <2>1, <2>2, BalancedMoved
  <2>. QED
    BY <1>1, <2>1, <2>3 DEF Rewrapped
<1>. QED
  BY <1>1, <1>2, <1>3

(* What is in s is in a or in b. *)
Sum(s, a, b) == \A e : Places(s, e) = Places(a, e) + Places(b, e)

(* The elements that a reference takes over: what is released is the
   reference, and the schema that held them has none of them any more. *)
LEMMA ReferredBalanced ==
  ASSUME NEW h, IsHeap(h), NEW X,
         NEW els \in Seq(Element), els # <<>>, NEW rest \in Seq(Element),
         NEW loose \in Seq(Element), Balanced(h, X, loose),
         Sum(loose, els, rest),
         NEW r \in Resolvers(DOMAIN h.wraps), Spared(h, X, r),
         NEW k, k = Referred(h, els, r), NEW out \in Seq(Element),
         Sum(out, k.elements, rest)
  PROVE  Balanced(k.heap, X, out)
<1>. USE DEF Sum
<1>1. CASE r.does = "fail"
  <2>1. k = Resolution(FALSE, h, els)
    BY <1>1, Zenon DEF Referred
  <2>2. k.heap = h /\ k.elements = els
    BY <2>1 DEF Resolution
  <2>3. \A e : Places(out, e) = Places(loose, e)
    BY <2>2
  <2>. QED
    BY <2>2, <2>3, BalancedPlaces
<1>2. CASE r.does # "fail"
  <2>. DEFINE b == Answered(h, r).heap
              w == Answered(h, r).schema
              taken == b.wraps[w].elements
              front == Front(els)
              last == Last(els)
              mid == front \o rest
              c == SetCounts(b, Released(b.counts, last))
              g == SetElements(c, w, <<>>)
  <2>1. IsHeap(b) /\ w \in DOMAIN b.wraps /\ w \notin X /\ Balanced(b, X, loose)
    <3>1. b = Answered(h, r).heap /\ w = Answered(h, r).schema
      OBVIOUS
    <3>. HIDE DEF b, w, taken, front, last, mid, c, g
    <3>. QED
      BY <1>2, <3>1, AnswerBalanced
  <2>2. /\ taken \in Seq(Element)
        /\ \A e : Places(k.elements, e) = Places(front, e) + Places(taken, e)
    <3>. HIDE DEF b, w
    <3>. QED
      BY <1>2, ReferredFacts DEF b, w
  <2>3. /\ front \in Seq(Element) /\ last \in Element
        /\ \A e : Places(els, e) = Places(front, e) + IF last = e THEN 1 ELSE 0
    BY PlacesFront
  <2>. HIDE DEF front, last
  <2>4. mid \in Seq(Element) /\ \A e : Places(mid, e) = Places(front, e) + Places(rest, e)
    BY <2>3, PlacesConcat
  <2>. HIDE DEF mid
  <2>5. /\ IsHeap(c) /\ c.wraps = b.wraps /\ c.leaked = b.leaked
        /\ c.counts = Released(b.counts, last)
    <3>1. DOMAIN Released(b.counts, last) \subseteq DOMAIN b.counts
      BY DEF Released
    <3>. HIDE DEF b
    <3>. QED
      BY <2>1, <3>1, NewCounts
  <2>6. k.heap = IF taken = <<>> THEN Unref(c, w) ELSE Unref(g, w)
    <3>1. CASE taken = <<>>
      <4>1. k = Resolution(FALSE, Unref(c, w), Front(els))
        BY <1>2, <3>1, Zenon DEF Referred, last
      <4>. HIDE DEF taken, c, g
      <4>. QED
        BY <3>1, <4>1 DEF Resolution
    <3>2. CASE taken # <<>>
      <4>1. k = Resolution(TRUE, Unref(g, w), SpliceAppend(Front(els), taken))
        BY <1>2, <3>2, Zenon DEF Referred, last
      <4>. HIDE DEF taken, c, g
      <4>. QED
        BY <3>2, <4>1 DEF Resolution
    <3>. QED
      BY <3>1, <3>2
  <2>. HIDE DEF b, w, c
  <2>7. Balanced(c, X, mid)
    <3>1. \A e : Places(loose, e) = Places(mid, e) + IF last = e THEN 1 ELSE 0
      <4>. TAKE e
      <4>. DEFINE d == IF last = e THEN 1 ELSE 0
                  p == Places(front, e)
                  q == Places(rest, e)
      <4>1. Places(loose, e) = (p + d) + q /\ Places(mid, e) = p + q /\ d \in {0, 1}
        BY <2>3, <2>4
      <4>2. p \in Nat /\ q \in Nat
        BY <2>3, PlacesNat
      <4>. HIDE DEF d, p, q
      <4>3. Places(loose, e) = Places(mid, e) + d
        BY <4>1, <4>2
      <4>. QED
        BY <4>3 DEF d
    <3>. QED
      BY <2>1, <2>3, <2>4, <2>5, <3>1, BalancedReleased
  <2>8. \A e : Places(out, e) = Places(mid, e) + Places(taken, e)
    <3>. TAKE e
    <3>. DEFINE p == Places(front, e)
                q == Places(rest, e)
                t == Places(taken, e)
    <3>1. Places(out, e) = (p + t) + q /\ Places(mid, e) = p + q
      BY <2>2, <2>4
    <3>2. p \in Nat /\ q \in Nat /\ t \in Nat
      BY <2>2, <2>3, PlacesNat
    <3>. HIDE DEF p, q, t
    <3>3. Places(out, e) = Places(mid, e) + t
      BY <3>1, <3>2
    <3>. QED
      BY <3>3 DEF t
  <2>9. CASE taken = <<>>
    <3>1. k.heap = Unref(c, w)
      BY <2>6, <2>9
    <3>2. Balanced(k.heap, X, mid)
      BY <2>1, <2>4, <2>5, <2>7, <3>1, BalancedUnref
    <3>3. \A e : Places(out, e) = Places(mid, e)
      <4>. TAKE e
      <4>1. Places(taken, e) = 0 /\ Places(mid, e) \in Nat
        BY <2>4, <2>9, PlacesEmpty, PlacesNat
      <4>. HIDE DEF taken
      <4>. QED
        BY <2>8, <4>1
    <3>. QED
      BY <3>2, <3>3, BalancedPlaces
  <2>10. CASE taken # <<>>
    <3>1. k.heap = Unref(g, w)
      BY <2>6, <2>10
    <3>. DEFINE x == [cnt |-> c.wraps[w].cnt, elements |-> <<>>, map |-> c.wraps[w].map]
    <3>2. IsHeap(g) /\ Rewrapped(c, g, w, x)
      BY <2>1, <2>5, EmptySeq, ElementsSet
    <3>3. x.elements = <<>>
      OBVIOUS
    <3>. HIDE DEF x, g
    <3>4. \A e : Places(out, e) + Places(x.elements, e)
                 = Places(mid, e) + Places(c.wraps[w].elements, e)
      <4>. TAKE e
      <4>1. Places(x.elements, e) = 0 /\ c.wraps[w].elements = taken
        BY <2>5, <3>3, PlacesEmpty
      <4>2. Places(out, e) \in Nat
        BY PlacesNat
      <4>. HIDE DEF taken
      <4>. QED
        BY <2>8, <4>1, <4>2
    <3>5. Balanced(g, X, out)
      <4>1. /\ w \in DOMAIN c.wraps /\ w \notin X /\ IsHeap(c) /\ IsHeap(g)
            /\ mid \in Seq(Element) /\ Rewrapped(c, g, w, x) /\ Balanced(c, X, mid)
        BY <2>1, <2>4, <2>5, <2>7, <3>2
      <4>. HIDE DEF taken
      <4>. QED
        BY <3>4, <4>1, BalancedMoved
    <3>6. w \in DOMAIN g.wraps
      BY <2>1, <2>5, <3>2 DEF Rewrapped
    <3>. QED
      BY <2>1, <3>1, <3>2, <3>5, <3>6, BalancedUnref
  <2>. QED
    BY <2>9, <2>10
<1>. QED
  BY <1>1, <1>2

-------------------------------------------------------------------------------
(* The elements that resolution copies are there. *)

(* The bases of a node are in its family, and the first of them is the first
   base of what the node extends. *)
LEMMA BasesInside ==
  ASSUME NEW n \in Nodes
  PROVE  /\ \A i \in 1 .. Len(Bases[n]) : Bases[n][i] \in Family[n]
         /\ Continues(n) => n.extends \in Nodes /\ Bases[n][1] = Bases[n.extends][1]
         /\ ~Continues(n) => Bases[n][1] = n
<1>. DEFINE Good(m) == \A i \in 1 .. Len(Bases[m]) : Bases[m][i] \in Family[m]
            T == {m \in Nodes : ~Good(m)}
<1>1. ASSUME NEW m \in Nodes, Continues(m)
      PROVE  /\ m.extends \in Nodes /\ Includes(m, m.extends)
             /\ Len(Bases[m]) = Len(Bases[m.extends]) + 1 /\ Bases[m][Len(Bases[m])] = m
             /\ \A i \in 1 .. Len(Bases[m.extends]) : Bases[m][i] = Bases[m.extends][i]
             /\ Len(Bases[m.extends]) \in Nat \ {0}
  <2>1. m.extends \in Nodes /\ Includes(m, m.extends)
    BY <1>1, NodesAreTrees DEF Continues, Includes
  <2>. DEFINE before == Bases[m.extends]
              one == <<m>>
  <2>2. before \in Seq(Nodes) /\ before # <<>> /\ Bases[m] = before \o one
    BY <1>1, <2>1, BasesTyped, BasesDefined DEF BasesOf
  <2>3. one \in Seq(Nodes) /\ Len(one) = 1 /\ one[1] = m
    OBVIOUS
  <2>. HIDE DEF one, before
  <2>4. Len(before) \in Nat \ {0}
    BY <2>2, EmptySeq, LenProperties
  <2>5. /\ Len(before \o one) = Len(before) + Len(one)
        /\ \A i \in 1 .. Len(before) + Len(one) :
             (before \o one)[i] = IF i <= Len(before) THEN before[i] ELSE one[i - Len(before)]
    BY <2>2, <2>3, ConcatProperties
  <2>. QED
    BY <2>1, <2>2, <2>3, <2>4, <2>5 DEF before
<1>2. ASSUME NEW m \in Nodes, ~Continues(m)
      PROVE  Len(Bases[m]) = 1 /\ Bases[m][1] = m
  <2>. DEFINE one == <<m>>
  <2>1. Bases[m] = <<>> \o one
    BY <1>2, BasesDefined DEF BasesOf
  <2>2. one \in Seq(Nodes) /\ Len(one) = 1 /\ one[1] = m
    OBVIOUS
  <2>. HIDE DEF one
  <2>3. <<>> \o one = one
    BY <2>2, ConcatEmptySeq
  <2>. QED
    BY <2>1, <2>2, <2>3
<1>3. ASSUME T # {} PROVE FALSE
  <2>1. PICK m \in T : \A i \in T : ~Includes(m, i)
    <3>1. T \in SUBSET Nodes
      OBVIOUS
    <3>. HIDE DEF T
    <3>. QED
      BY <1>3, <3>1, Innermost
  <2>2. m \in Nodes /\ ~Good(m) /\ m \in Family[m]
    BY <2>1, FamilyTyped
  <2>3. CASE Continues(m)
    <3>1. m.extends \in Nodes /\ Includes(m, m.extends)
      BY <1>1, <2>2, <2>3
    <3>2. Good(m.extends)
      BY <2>1, <3>1
    <3>3. Family[m.extends] \subseteq Family[m]
      <4>1. m.extends \in Family[m]
        BY <2>2, <3>1, FamilyMembers, FamilyTyped
      <4>. QED
        BY <2>2, <4>1, FamilyTransitive
    <3>4. ASSUME NEW i \in 1 .. Len(Bases[m]) PROVE Bases[m][i] \in Family[m]
      <4>1. i = Len(Bases[m]) \/ i \in 1 .. Len(Bases[m.extends])
        BY <1>1, <2>2, <2>3
      <4>2. CASE i = Len(Bases[m])
        BY <1>1, <2>2, <2>3, <4>2
      <4>3. CASE i \in 1 .. Len(Bases[m.extends])
        <5>1. Bases[m][i] = Bases[m.extends][i]
          BY <1>1, <2>2, <2>3, <4>3
        <5>. QED
          BY <3>2, <3>3, <4>3, <5>1
      <4>. QED
        BY <4>1, <4>2, <4>3
    <3>. QED
      BY <2>2, <3>4
  <2>4. CASE ~Continues(m)
    BY <1>2, <2>2, <2>4
  <2>. QED
    BY <2>3, <2>4
<1>4. Good(n)
  BY <1>3
<1>5. Continues(n) => n.extends \in Nodes /\ Bases[n][1] = Bases[n.extends][1]
  BY <1>1
<1>6. ~Continues(n) => Bases[n][1] = n
  BY <1>2
<1>. QED
  BY <1>4, <1>5, <1>6

(* The bases of an element are all there. *)
LEMMA BasesThere ==
  ASSUME NEW counts, NEW others, Even(counts, others), NEW e \in DOMAIN counts,
         "extends" \in DOMAIN Node(e)
  PROVE  \A i \in 1 .. Len(BasesAt(e)) : BasesAt(e)[i] \in DOMAIN counts
<1>. DEFINE ns == Bases[Node(e).extends]
<1>1. e \in Element /\ e.node \in Nodes /\ Node(e) = e.node
  BY DEF Even, CountsTyped, Element, Node
<1>2. Node(e).extends \in Nodes /\ Includes(e.node, Node(e).extends)
  BY <1>1, NodesAreTrees DEF Includes
<1>3. ns \in Seq(Nodes) /\ \A i \in 1 .. Len(ns) : ns[i] \in Family[Node(e).extends]
  BY <1>2, BasesTyped, BasesInside
<1>4. Family[Node(e).extends] \subseteq Family[e.node]
  <2>1. Node(e).extends \in Family[e.node]
    BY <1>1, <1>2, FamilyMembers, FamilyTyped
  <2>. QED
    BY <1>1, <2>1, FamilyTransitive
<1>5. DOMAIN ns = 1 .. Len(ns) /\ Len(ns) \in Nat
  BY <1>3, LenProperties
<1>6. BasesAt(e) = [i \in 1 .. Len(ns) |-> [text |-> e.text, node |-> ns[i]]]
  BY <1>5 DEF BasesAt, OfText
<1>. HIDE DEF ns
<1>7. Len(BasesAt(e)) = Len(ns)
  BY <1>5, <1>6
<1>8. ASSUME NEW i \in 1 .. Len(ns) PROVE BasesAt(e)[i] \in DOMAIN counts
  <2>1. ns[i] \in Family[e.node] /\ BasesAt(e)[i] = [text |-> e.text, node |-> ns[i]]
    BY <1>3, <1>4, <1>6
  <2>2. [text |-> e.text, node |-> ns[i]] \in DOMAIN counts
    BY <2>1, InsideThere
  <2>. QED
    BY <2>1, <2>2
<1>. QED
  BY <1>7, <1>8

(* What a loose reference or a cell holds is there. *)
LEMMA LooseThere ==
  ASSUME NEW h, IsHeap(h), NEW X, NEW loose \in Seq(Element), Balanced(h, X, loose),
         NEW e \in Element, Places(loose, e) # 0
  PROVE  e \in DOMAIN h.counts
<1>. DEFINE u == Others(h, X, loose)
<1>1. Even(h.counts, u) /\ u[e] = Away(h, X, e) + Places(loose, e)
  BY OthersNat DEF Balanced
<1>2. Away(h, X, e) \in Nat /\ Places(loose, e) \in Nat
  BY AwayNat, PlacesNat
<1>. HIDE DEF u
<1>3. u[e] > 0
  BY <1>1, <1>2
<1>. QED
  BY <1>1, <1>3, EvenCounts

(* An element in an array has not been freed. *)
LEMMA CellThere ==
  ASSUME NEW h, IsHeap(h), NEW X, NEW loose \in Seq(Element), Balanced(h, X, loose),
         NEW w \in DOMAIN h.wraps, w \notin X, NEW i \in DOMAIN h.wraps[w].elements
  PROVE  h.wraps[w].elements[i] \in DOMAIN h.counts
<1>. DEFINE es == h.wraps[w].elements
            e == es[i]
            u == Others(h, X, loose)
            C == CellsBut(h.wraps, X, e)
<1>1. es \in Seq(Element)
  BY HeapWraps DEF WrapsTyped
<1>2. e \in Element
  BY <1>1, LenProperties
<1>3. Even(h.counts, u) /\ u[e] = Away(h, X, e) + Places(loose, e)
  BY <1>2, OthersNat DEF Balanced
<1>4. <<w, i>> \in C
  BY DEF CellsBut, Cells
<1>5. IsFiniteSet(C)
  BY HeapWraps, CellsFinite
<1>. HIDE DEF C, u, e
<1>6. Cardinality(C) # 0 /\ Cardinality(C) \in Nat
  BY <1>4, <1>5, FS_EmptySet, FS_CardinalityType
<1>7. Away(h, X, e) = Cardinality(C) + Places(h.leaked, e)
  BY DEF Away, C
<1>8. Places(loose, e) \in Nat /\ Places(h.leaked, e) \in Nat
  BY AwayNat, PlacesNat
<1>9. u[e] > 0
  BY <1>3, <1>6, <1>7, <1>8
<1>10. e \in DOMAIN h.counts
  BY <1>2, <1>3, <1>9, EvenCounts
<1>. QED
  BY <1>10 DEF e

-------------------------------------------------------------------------------
(* An extension, and resolution, keep the heap balanced. *)

(* The innermost base, resolved or not. *)
LEMMA InnerBalanced ==
  ASSUME NEW h, IsHeap(h), NEW X, X \subseteq DOMAIN h.wraps,
         NEW e \in DOMAIN h.counts, "extends" \in DOMAIN Node(e),
         NEW loose \in Seq(Element), Balanced(h, X, loose),
         NEW r \in Resolvers(DOMAIN h.wraps),
         "ref" \in DOMAIN Node(BasesAt(e)[1]) => Spared(h, X, r),
         NEW k, k = InnerOf(h, e, r), NEW out \in Seq(Element),
         \A f : Places(out, f) = Places(k.elements, f)
                                 + (Places(Tail(BasesAt(e)), f) + Places(loose, f))
  PROVE  Balanced(k.heap, X, out)
<1>. DEFINE bs == BasesAt(e)
            base == bs[1]
            rest == Tail(bs)
            one == <<base>>
            c == SetCounts(h, AllCopied(h.counts, bs))
            both == bs \o loose
            others == rest \o loose
<1>1. e \in Element
  BY DEF IsHeap
<1>2. /\ bs \in Seq(Element) /\ rest \in Seq(Element) /\ base \in Element
      /\ \A f : Places(bs, f) = Places(rest, f) + IF base = f THEN 1 ELSE 0
  BY <1>1, BasesFound
<1>3. \A i \in 1 .. Len(bs) : bs[i] \in DOMAIN h.counts
  BY BasesThere DEF Balanced
<1>4. /\ IsHeap(c) /\ c.counts = AllCopied(h.counts, bs) /\ c.wraps = h.wraps
      /\ c.leaked = h.leaked
  BY CopiedHeap
<1>5. k = IF "ref" \in DOMAIN Node(base) THEN Referred(c, one, r) ELSE Resolution(TRUE, c, one)
  BY Zenon DEF InnerOf
<1>6. \A f : Places(one, f) = IF base = f THEN 1 ELSE 0
  BY PlacesOne
<1>7. one \in Seq(Element) /\ one # <<>>
  BY <1>2
<1>8. "ref" \in DOMAIN Node(base) => Spared(h, X, r)
  OBVIOUS
<1>9. \A f : Places(out, f) = Places(k.elements, f) + (Places(rest, f) + Places(loose, f))
  OBVIOUS
<1>. HIDE DEF rest, base, one, c
<1>10. /\ both \in Seq(Element) /\ others \in Seq(Element)
       /\ \A f : Places(both, f) = Places(bs, f) + Places(loose, f)
       /\ \A f : Places(others, f) = Places(rest, f) + Places(loose, f)
  <2>. HIDE DEF bs
  <2>. QED
    BY <1>2, PlacesConcat
<1>. HIDE DEF bs, both, others
<1>11. Balanced(c, X, both)
  <2>1. \A f : Places(both, f) = Places(loose, f) + Places(bs, f)
    <3>. TAKE f
    <3>1. Places(bs, f) \in Nat /\ Places(loose, f) \in Nat
      BY <1>2, PlacesNat
    <3>. QED
      BY <1>10, <3>1
  <2>. QED
    BY <1>2, <1>3, <1>4, <1>10, <2>1, BalancedAllCopied
<1>12. \A f : Places(both, f) = Places(one, f) + Places(others, f)
  <2>. TAKE f
  <2>. DEFINE d == IF base = f THEN 1 ELSE 0
              p == Places(rest, f)
              q == Places(loose, f)
  <2>1. Places(both, f) = (p + d) + q /\ Places(others, f) = p + q /\ Places(one, f) = d
        /\ d \in {0, 1}
    BY <1>2, <1>6, <1>10
  <2>2. p \in Nat /\ q \in Nat
    BY <1>2, PlacesNat
  <2>. HIDE DEF d, p, q
  <2>. QED
    BY <2>1, <2>2
<1>13. \A f : Places(out, f) = Places(k.elements, f) + Places(others, f)
  BY <1>9, <1>10
<1>14. CASE "ref" \in DOMAIN Node(base)
  <2>1. k = Referred(c, one, r) /\ Spared(c, X, r) /\ r \in Resolvers(DOMAIN c.wraps)
    BY <1>4, <1>5, <1>8, <1>14 DEF Spared
  <2>2. /\ IsHeap(c) /\ one \in Seq(Element) /\ one # <<>>
        /\ both \in Seq(Element) /\ others \in Seq(Element) /\ Balanced(c, X, both)
    BY <1>4, <1>7, <1>10, <1>11
  <2>3. Sum(both, one, others) /\ Sum(out, k.elements, others)
    BY <1>12, <1>13 DEF Sum
  <2>. QED
    BY <2>1, <2>2, <2>3, ReferredBalanced
<1>15. CASE "ref" \notin DOMAIN Node(base)
  <2>1. k.heap = c /\ k.elements = one
    BY <1>5, <1>15 DEF Resolution
  <2>2. \A f : Places(out, f) = Places(both, f)
    BY <1>12, <1>13, <2>1
  <2>. QED
    BY <1>11, <2>1, <2>2, BalancedPlaces
<1>. QED
  BY <1>14, <1>15

(* The bases go to the array of the extension, or leak. *)
LEMMA ExtendedBalanced ==
  ASSUME NEW h, IsHeap(h), NEW X, X \subseteq DOMAIN h.wraps,
         NEW els \in Seq(Element), els # <<>>, "extends" \in DOMAIN Node(els[1]),
         NEW rest \in Seq(Element), NEW loose \in Seq(Element), Balanced(h, X, loose),
         Sum(loose, els, rest),
         NEW r \in Resolvers(DOMAIN h.wraps),
         "ref" \in DOMAIN Node(BasesAt(els[1])[1]) => Spared(h, X, r),
         NEW k, k = Extended(h, els, r), NEW out \in Seq(Element),
         Sum(out, k.elements, rest)
  PROVE  Balanced(k.heap, X, out)
<1>. USE DEF Sum
<1>. DEFINE first == els[1]
            inner == InnerOf(h, first, r)
            tail == Tail(BasesAt(first))
            t == inner.elements \o tail
            mid == t \o loose
            s == tail \o inner.elements
            l == Leak(inner.heap, s)
<1>1. first \in Element
  BY EmptySeq, ElementOfSeq
<1>2. first \in DOMAIN h.counts
  <2>1. Places(els, first) # 0
    <3>1. Len(els) \in Nat /\ Len(els) # 0
      BY EmptySeq, LenProperties
    <3>2. 1 \in 1 .. Len(els) /\ els[1] = first
      BY <3>1
    <3>. HIDE DEF first
    <3>. QED
      BY <3>2, PlacesNat
  <2>2. Places(els, first) \in Nat /\ Places(rest, first) \in Nat
    BY PlacesNat
  <2>3. Places(loose, first) = Places(els, first) + Places(rest, first)
    OBVIOUS
  <2>. HIDE DEF first
  <2>4. Places(loose, first) # 0
    BY <2>1, <2>2, <2>3
  <2>. QED
    BY <1>1, <2>4, LooseThere
<1>3. /\ IsHeap(inner.heap) /\ inner.elements \in Seq(Element)
  BY <1>1, InnerResolves DEF Resolves
<1>4. tail \in Seq(Element)
  BY <1>1, BasesFound
<1>5. k = IF inner.ok THEN Resolution(TRUE, inner.heap, SpliceAppend(els, t))
          ELSE Resolution(FALSE, l, els)
  BY ExtendedIs, Zenon
<1>6. ASSUME NEW all \in Seq(Element),
             \A f : Places(all, f) = Places(inner.elements, f) + (Places(tail, f) + Places(loose, f))
      PROVE  Balanced(inner.heap, X, all)
  BY <1>2, <1>6, InnerBalanced
<1>. HIDE DEF inner, tail, first
<1>7. /\ t \in Seq(Element) /\ s \in Seq(Element)
      /\ \A f : Places(t, f) = Places(inner.elements, f) + Places(tail, f)
      /\ \A f : Places(s, f) = Places(tail, f) + Places(inner.elements, f)
  BY <1>3, <1>4, PlacesConcat
<1>8. \A f : /\ Places(inner.elements, f) \in Nat /\ Places(tail, f) \in Nat
             /\ Places(loose, f) \in Nat /\ Places(els, f) \in Nat /\ Places(rest, f) \in Nat
  BY <1>3, <1>4, PlacesNat
<1>9. CASE inner.ok
  <2>1. k = Resolution(TRUE, inner.heap, SpliceAppend(els, t))
    BY <1>5, <1>9
  <2>. HIDE DEF t
  <2>2. k.heap = inner.heap /\ k.elements = SpliceAppend(els, t)
    BY <2>1 DEF Resolution
  <2>3. \A f : Places(k.elements, f) = Places(els, f) + Places(t, f)
    BY <1>7, <2>2, Spliced
  <2>4. \A f : Places(out, f) = Places(inner.elements, f) + (Places(tail, f) + Places(loose, f))
    <3>. TAKE f
    <3>. DEFINE a == Places(inner.elements, f)
                b == Places(tail, f)
                p == Places(els, f)
                q == Places(rest, f)
    <3>1. Places(out, f) = (p + (a + b)) + q /\ Places(loose, f) = p + q
      BY <1>7, <2>3
    <3>2. a \in Nat /\ b \in Nat /\ p \in Nat /\ q \in Nat
      BY <1>8
    <3>. HIDE DEF a, b, p, q
    <3>3. Places(out, f) = a + (b + Places(loose, f))
      BY <3>1, <3>2
    <3>. QED
      BY <3>3 DEF a, b
  <2>5. Balanced(inner.heap, X, out)
    BY <1>6, <2>4
  <2>. QED
    BY <2>2, <2>5
<1>10. CASE ~inner.ok
  <2>1. k = Resolution(FALSE, l, els)
    BY <1>5, <1>10
  <2>2. k.heap = l /\ k.elements = els
    <3>. HIDE DEF l
    <3>. QED
      BY <2>1 DEF Resolution
  <2>. HIDE DEF t, s
  <2>3. mid \in Seq(Element) /\ \A f : Places(mid, f) = Places(t, f) + Places(loose, f)
    BY <1>7, PlacesConcat
  <2>. HIDE DEF mid
  <2>4. \A f : Places(mid, f) = Places(inner.elements, f) + (Places(tail, f) + Places(loose, f))
    <3>. TAKE f
    <3>. DEFINE a == Places(inner.elements, f)
                b == Places(tail, f)
                p == Places(loose, f)
    <3>1. Places(mid, f) = (a + b) + p
      BY <1>7, <2>3
    <3>2. a \in Nat /\ b \in Nat /\ p \in Nat
      BY <1>8
    <3>. HIDE DEF a, b, p
    <3>3. Places(mid, f) = a + (b + p)
      BY <3>1, <3>2
    <3>. QED
      BY <3>3 DEF a, b, p
  <2>5. Balanced(inner.heap, X, mid)
    BY <1>6, <2>3, <2>4
  <2>6. \A f : Places(mid, f) = Places(out, f) + Places(s, f)
    <3>. TAKE f
    <3>. DEFINE a == Places(inner.elements, f)
                b == Places(tail, f)
                p == Places(els, f)
                q == Places(rest, f)
    <3>1. /\ Places(mid, f) = a + (b + (p + q)) /\ Places(out, f) = p + q
          /\ Places(s, f) = b + a
      BY <1>7, <2>2, <2>4
    <3>2. a \in Nat /\ b \in Nat /\ p \in Nat /\ q \in Nat
      BY <1>8
    <3>. HIDE DEF a, b, p, q
    <3>. QED
      BY <3>1, <3>2
  <2>7. Balanced(l, X, out)
    BY <1>3, <1>7, <2>3, <2>5, <2>6, BalancedLeaked
  <2>. QED
    BY <2>2, <2>7
<1>. QED
  BY <1>9, <1>10

(* The resolver is asked for one of els or of what they extend. *)
AsksFor(els) ==
  els # <<>> /\ \/ "ref" \in DOMAIN Node(Last(els))
                \/ "ref" \in DOMAIN Bases[Node(els[1])][1]

(* Resolution of the elements els takes them and returns others, whatever
   else is on its way. *)
LEMMA ResolvedBalanced ==
  ASSUME NEW h, IsHeap(h), NEW X, X \subseteq DOMAIN h.wraps,
         NEW els \in Seq(Element), NEW rest \in Seq(Element),
         NEW loose \in Seq(Element), Balanced(h, X, loose),
         Sum(loose, els, rest),
         NEW r \in Resolvers(DOMAIN h.wraps), AsksFor(els) => Spared(h, X, r),
         NEW k, k = Resolved(h, els, r), NEW out \in Seq(Element),
         Sum(out, k.elements, rest)
  PROVE  Balanced(k.heap, X, out)
<1>1. CASE els # <<>> /\ "ref" \in DOMAIN Node(Last(els))
  <2>1. k = Referred(h, els, r)
    BY <1>1, Zenon DEF Resolved
  <2>2. Spared(h, X, r)
    BY <1>1 DEF AsksFor
  <2>. QED
    BY <1>1, <2>1, <2>2, ReferredBalanced
<1>2. CASE /\ ~(els # <<>> /\ "ref" \in DOMAIN Node(Last(els)))
           /\ els # <<>> /\ "extends" \in DOMAIN Node(els[1])
  <2>1. k = Extended(h, els, r)
    BY <1>2, Zenon DEF Resolved
  <2>2. "ref" \in DOMAIN Node(BasesAt(els[1])[1]) => Spared(h, X, r)
    <3>. DEFINE e == els[1]
                ns == Bases[Node(e).extends]
    <3>1. e \in Element
      BY <1>2, EmptySeq, ElementOfSeq
    <3>2. Node(e) \in Nodes
      BY <3>1 DEF Element, Node
    <3>3. Node(e).extends \in Nodes
      BY <1>2, <3>2, NodesAreTrees
    <3>4. ns \in Seq(Nodes) /\ ns # <<>>
      BY <3>3, BasesTyped
    <3>5. 1 \in DOMAIN ns
      <4>1. DOMAIN ns = 1 .. Len(ns) /\ Len(ns) \in Nat \ {0}
        BY <3>4, EmptySeq, LenProperties
      <4>. QED
        BY <4>1
    <3>6. Node(BasesAt(e)[1]) = ns[1]
      BY <3>5 DEF BasesAt, OfText, Node
    <3>7. CASE "ref" \in DOMAIN Node(e)
      <4>1. Bases[Node(e)][1] = Node(e)
        BY <3>2, <3>7, BasesInside DEF Continues
      <4>. QED
        BY <1>2, <3>7, <4>1 DEF AsksFor
    <3>8. CASE "ref" \notin DOMAIN Node(e)
      <4>1. Bases[Node(e)][1] = ns[1]
        BY <1>2, <3>2, <3>8, BasesInside DEF Continues
      <4>. QED
        BY <1>2, <3>6, <4>1 DEF AsksFor
    <3>. QED
      BY <3>7, <3>8
  <2>. QED
    BY <1>2, <2>1, <2>2, ExtendedBalanced
<1>3. CASE /\ ~(els # <<>> /\ "ref" \in DOMAIN Node(Last(els)))
           /\ ~(els # <<>> /\ "extends" \in DOMAIN Node(els[1]))
  <2>1. k = Resolution(TRUE, h, els)
    BY <1>3, Zenon DEF Resolved
  <2>2. k.heap = h /\ k.elements = els
    BY <2>1 DEF Resolution
  <2>3. \A e : Places(out, e) = Places(loose, e)
    BY <2>2 DEF Sum
  <2>. QED
    BY <2>2, <2>3, BalancedPlaces
<1>. QED
  BY <1>1, <1>2, <1>3

-------------------------------------------------------------------------------
(* A hierarchy that is taken out of its wrapper and put back, and one that is
   gathered for the next value. *)

LEMMA SumNone ==
  ASSUME NEW S, NEW s \in Seq(S)
  PROVE  Sum(s, s, <<>>)
<1>. SUFFICES ASSUME NEW e PROVE Places(s, e) = Places(s, e) + Places(<<>>, e)
  BY DEF Sum
<1>1. Places(s, e) \in Nat /\ Places(<<>>, e) = 0
  BY PlacesNat, PlacesEmpty
<1>. QED
  BY <1>1

(* Files do not matter. *)
LEMMA BalancedParts ==
  ASSUME NEW h, NEW X, NEW loose, Balanced(h, X, loose),
         NEW k, k.counts = h.counts, k.wraps = h.wraps, k.leaked = h.leaked
  PROVE  Balanced(k, X, loose)
BY DEF Balanced, Others, Away

(* The elements of a wrapper are taken out of it. *)
LEMMA TakenOut ==
  ASSUME NEW h, IsHeap(h), Balanced(h, {}, <<>>), NEW w \in DOMAIN h.wraps
  PROVE  Balanced(h, {w}, h.wraps[w].elements)
<1>. DEFINE es == h.wraps[w].elements
            X == {w}
<1>1. \A e \in Element : Away(h, X, e) + Places(es, e) = Away(h, {}, e) + Places(<<>>, e)
  <2>. TAKE e \in Element
  <2>. DEFINE a == Cardinality(CellsBut(h.wraps, {}, e))
              b == Cardinality(CellsBut(h.wraps, X, e))
              c == Places(es, e)
              l == Places(h.leaked, e)
  <2>1. a = b + c
    <3>1. {} \cup {w} = X /\ w \notin {}
      OBVIOUS
    <3>2. WrapsTyped(h.wraps) /\ IsFiniteSet(CellsBut(h.wraps, {} \cup {w}, e))
      BY HeapWraps, CellsFinite
    <3>3. Cardinality(CellsBut(h.wraps, {}, e)) =
            Cardinality(CellsBut(h.wraps, {} \cup {w}, e)) + Places(h.wraps[w].elements, e)
      BY <3>1, <3>2, CellsSplit
    <3>. QED
      BY <3>1, <3>3
  <2>2. Away(h, {}, e) = a + l /\ Away(h, X, e) = b + l
    BY DEF Away
  <2>3. a \in Nat /\ b \in Nat /\ l \in Nat
    BY AwayNat
  <2>4. c \in Nat
    BY HeapWraps, PlacesNat DEF WrapsTyped
  <2>5. Places(<<>>, e) = 0
    BY PlacesEmpty
  <2>. HIDE DEF a, b, c, l, X
  <2>6. Away(h, X, e) + c = Away(h, {}, e) + Places(<<>>, e)
    BY <2>1, <2>2, <2>3, <2>4, <2>5
  <2>. QED
    BY <2>6 DEF c
<1>. HIDE DEF es, X
<1>2. Balanced(h, X, es)
  BY <1>1, BalancedSame
<1>. QED
  BY <1>2 DEF es, X

(* What is loose is put into a wrapper. *)
LEMMA PutBack ==
  ASSUME NEW h, IsHeap(h), NEW w \in DOMAIN h.wraps, NEW es \in Seq(Element),
         Balanced(h, {w}, es), NEW k, IsHeap(k), NEW x, Rewrapped(h, k, w, x), x.elements = es
  PROVE  Balanced(k, {}, <<>>)
<1>. DEFINE X == {w}
<1>1. /\ k.counts = h.counts /\ k.leaked = h.leaked /\ DOMAIN k.wraps = DOMAIN h.wraps
      /\ k.wraps[w].elements = es
      /\ \A v \in DOMAIN h.wraps \ X : h.wraps[v].elements = k.wraps[v].elements
  BY DEF Rewrapped
<1>2. \A e \in Element : Away(k, {}, e) + Places(<<>>, e) = Away(h, X, e) + Places(es, e)
  <2>. TAKE e \in Element
  <2>. DEFINE a == Cardinality(CellsBut(k.wraps, {}, e))
              b == Cardinality(CellsBut(h.wraps, X, e))
              c == Places(es, e)
              l == Places(h.leaked, e)
  <2>1. CellsBut(h.wraps, X, e) = CellsBut(k.wraps, X, e)
    <3>1. \A v : v \in DOMAIN h.wraps /\ v \notin X <=> v \in DOMAIN k.wraps /\ v \notin X
      BY <1>1
    <3>. HIDE DEF X
    <3>. QED
      BY <1>1, <3>1, CellsSame
  <2>2. a = b + c
    <3>. DEFINE ws == k.wraps
                none == {}
    <3>1. WrapsTyped(ws) /\ IsFiniteSet(CellsBut(ws, none \cup {w}, e))
      BY HeapWraps, CellsFinite
    <3>2. w \in DOMAIN ws /\ ws[w].elements = es
      BY <1>1
    <3>3. w \notin none /\ none \cup {w} = {w}
      OBVIOUS
    <3>4. a = Cardinality(CellsBut(ws, none, e)) /\ b = Cardinality(CellsBut(ws, {w}, e))
      BY <2>1
    <3>. HIDE DEF ws, a, b, none
    <3>5. Cardinality(CellsBut(ws, none, e)) =
            Cardinality(CellsBut(ws, none \cup {w}, e)) + Places(ws[w].elements, e)
      BY <3>1, <3>2, <3>3, CellsSplit
    <3>. QED
      BY <3>2, <3>3, <3>4, <3>5
  <2>3. Away(k, {}, e) = a + l /\ Away(h, X, e) = b + l
    BY <1>1 DEF Away
  <2>4. b \in Nat /\ l \in Nat /\ a \in Nat
    BY AwayNat
  <2>5. c \in Nat /\ Places(<<>>, e) = 0
    BY PlacesNat, PlacesEmpty
  <2>. HIDE DEF a, b, c, l, X
  <2>6. Away(k, {}, e) + Places(<<>>, e) = Away(h, X, e) + c
    BY <2>2, <2>3, <2>4, <2>5
  <2>. QED
    BY <2>6 DEF c
<1>. HIDE DEF X
<1>3. Balanced(h, X, es)
  BY DEF X
<1>. QED
  BY <1>1, <1>2, <1>3, BalancedSame

-------------------------------------------------------------------------------
(* What an element asks of the next value is a reference of its own. *)

LEMMA WithInnerBalanced ==
  ASSUME NEW h, NEW r \in Resolvers(DOMAIN h.wraps), NEW m, IsResolution(h, r, m),
         Balanced(m.heap, {}, m.elements), NEW e \in DOMAIN m.heap.counts,
         NEW k, k = WithInner(m, e, r)
  PROVE  Balanced(k.heap, {}, k.elements)
<1>. DEFINE g == m.heap
            inner == Child(e, "inner")
            c == SetCounts(g, Copied(g.counts, inner))
            es == Append(m.elements, inner)
            X == {}
<1>1. CASE "inner" \notin DOMAIN Node(e)
  BY <1>1 DEF WithInner
<1>2. CASE "inner" \in DOMAIN Node(e)
  <2>1. k = Resolved(c, es, r)
    BY <1>2, Zenon DEF WithInner
  <2>2. IsHeap(g) /\ m.elements \in Seq(Element) /\ Balanced(g, X, m.elements)
        /\ DOMAIN g.wraps = DOMAIN h.wraps
    BY DEF IsResolution, Kept
  <2>3. e \in Element /\ e.node \in Nodes /\ Node(e) = e.node
    BY <2>2 DEF IsHeap, Element, Node
  <2>4. inner \in DOMAIN g.counts
    <3>1. e.node.inner \in Nodes /\ Includes(e.node, e.node.inner)
      BY <1>2, <2>3, NodesAreTrees DEF Includes
    <3>2. e.node.inner \in Family[e.node]
      BY <2>3, <3>1, FamilyMembers, FamilyTyped
    <3>3. [text |-> e.text, node |-> e.node.inner] \in DOMAIN g.counts
      BY <2>2, <3>2, InsideThere DEF Balanced
    <3>. QED
      BY <2>3, <3>3 DEF Child
  <2>5. inner \in Element
    BY <2>2, <2>4 DEF IsHeap
  <2>6. DOMAIN Copied(g.counts, inner) \subseteq DOMAIN g.counts
    BY DEF Copied
  <2>. HIDE DEF inner, X, g
  <2>7. /\ IsHeap(c) /\ c.wraps = g.wraps /\ c.counts = Copied(g.counts, inner)
        /\ c.leaked = g.leaked
    BY <2>2, <2>6, NewCounts
  <2>8. es \in Seq(Element)
    BY <2>2, <2>5, AppendProperties
  <2>9. Balanced(c, X, es)
    <3>. HIDE DEF c
    <3>. QED
      BY <2>2, <2>4, <2>7, BalancedCopied
  <2>. HIDE DEF c, es
  <2>10. r \in Resolvers(DOMAIN c.wraps) /\ X \subseteq DOMAIN c.wraps /\ Spared(c, X, r)
    BY <2>2, <2>7 DEF Spared, X
  <2>11. k.elements \in Seq(Element)
    BY <2>1, <2>7, <2>8, <2>10, ResolvedResolves DEF Resolves
  <2>. DEFINE none == <<>>
  <2>12. none \in Seq(Element) /\ Sum(es, es, none) /\ Sum(k.elements, k.elements, none)
    BY <2>8, <2>11, SumNone, EmptySeq
  <2>. HIDE DEF none
  <2>13. Balanced(k.heap, X, k.elements)
    BY <2>1, <2>7, <2>8, <2>9, <2>10, <2>11, <2>12, ResolvedBalanced
  <2>. QED
    BY <2>13 DEF X
<1>. QED
  BY <1>1, <1>2

LEMMA GatheredBalanced ==
  ASSUME NEW h, IsHeap(h), Balanced(h, {}, <<>>), NEW r \in Resolvers(DOMAIN h.wraps),
         NEW around \in DOMAIN h.wraps, NEW k, k = Gathered(h, around, r)
  PROVE  Balanced(k.heap, {}, k.elements)
<1>. DEFINE l == Len(h.wraps[around].elements)
            Right(m) == IsResolution(h, r, m) /\ Balanced(m.heap, {}, m.elements)
<1>1. l \in Nat
  BY LenProperties DEF IsHeap, Wrapper
<1>2. PICK f : GatherSteps(h, around, r, l, f) /\ Gathered(h, around, r) = f[l]
  BY <1>1, GatheredSteps
<1>. HIDE DEF l
<1>. DEFINE T == {n \in 0 .. l : ~Right(f[n])}
<1>3. ASSUME T # {} PROVE FALSE
  <2>1. PICK n \in T : \A m \in T : ~(m < n)
    <3>1. T \subseteq Nat
      BY <1>1
    <3>. HIDE DEF T
    <3>. QED
      BY <1>3, <3>1, LeastOf
  <2>2. n \in 0 .. l /\ ~Right(f[n])
    BY <2>1
  <2>3. f[n] = IF n = 0 THEN Resolution(TRUE, h, <<>>) ELSE GatherStep(f[n - 1], around, n, r)
    BY <1>2, <2>2 DEF GatherSteps
  <2>4. CASE n = 0
    <3>1. f[n].ok = TRUE /\ f[n].heap = h /\ f[n].elements = <<>>
      BY <2>3, <2>4 DEF Resolution
    <3>2. Kept(h, h, r) /\ <<>> \in Seq(Element)
      BY EmptySeq DEF Kept
    <3>. QED
      BY <2>2, <3>1, <3>2 DEF IsResolution
  <2>5. CASE n # 0
    <3>1. n - 1 \in 0 .. l /\ n - 1 < n
      BY <1>1, <2>2, <2>5
    <3>2. Right(f[n - 1])
      BY <2>1, <3>1
    <3>. DEFINE m == f[n - 1]
                es == m.heap.wraps[around].elements
    <3>3. IsResolution(h, r, m) /\ Balanced(m.heap, {}, m.elements)
      BY <3>2
    <3>4. f[n] = m \/ (n \in DOMAIN es /\ f[n] = WithInner(m, es[n], r))
      BY <2>3, <2>5 DEF GatherStep
    <3>. HIDE DEF m
    <3>5. IsHeap(m.heap) /\ around \in DOMAIN m.heap.wraps /\ m.elements \in Seq(Element)
      BY <3>3 DEF IsResolution, Kept
    <3>6. n \in DOMAIN es => es[n] \in DOMAIN m.heap.counts
      BY <3>3, <3>5, CellThere
    <3>7. n \in DOMAIN es => es[n] \in Element
      BY <3>5, <3>6 DEF IsHeap
    <3>. HIDE DEF es
    <3>8. n \in DOMAIN es => Right(WithInner(m, es[n], r))
      BY <3>3, <3>6, <3>7, WithInnerResolves, WithInnerBalanced
    <3>. QED
      BY <2>2, <3>3, <3>4, <3>8
  <2>. QED
    BY <2>4, <2>5
<1>4. l \in 0 .. l
  BY <1>1
<1>5. Right(f[l])
  BY <1>3, <1>4
<1>. QED
  BY <1>2, <1>5

(* Several wrappers that are given up. *)
LEMMA AllUnrefBalanced ==
  ASSUME NEW h, IsHeap(h), NEW ws \in Seq(Positive), \A v : Places(ws, v) <= Cnt(h, v),
         Balanced(h, {}, <<>>)
  PROVE  Balanced(AllUnref(h, ws), {}, <<>>)
<1>. DEFINE Fits(g, us) == IsHeap(g) /\ Balanced(g, {}, <<>>) /\ \A v : Places(us, v) <= Cnt(g, v)
            Wrong(g, us) == us \in Seq(Positive) /\ Fits(g, us)
                            /\ ~Balanced(AllUnref(g, us), {}, <<>>)
            T == {n \in Nat : \E g, us : Wrong(g, us) /\ Len(us) = n}
<1>1. SUFFICES T = {}
  <2>1. ASSUME T = {} PROVE ~Wrong(h, ws)
    BY <2>1
  <2>. QED
    BY <2>1
<1>2. SUFFICES ASSUME T # {} PROVE FALSE
  OBVIOUS
<1>3. T \subseteq Nat
  OBVIOUS
<1>4. PICK n \in T : \A m \in T : ~(m < n)
  <2>. HIDE DEF T
  <2>. QED
    BY <1>2, <1>3, LeastOf
<1>5. n \in Nat /\ \E g, us : Wrong(g, us) /\ Len(us) = n
  BY <1>4
<1>6. PICK g, us : Wrong(g, us) /\ Len(us) = n
  BY <1>5
<1>7. Len(us) = n
  BY <1>6
<1>8. /\ us \in Seq(Positive) /\ IsHeap(g) /\ Balanced(g, {}, <<>>)
      /\ ~Balanced(AllUnref(g, us), {}, <<>>)
      /\ \A v : Places(us, v) <= Cnt(g, v)
  BY <1>6
<1>9. CASE us = <<>>
  <2>1. AllUnref(g, us) = g
    BY <1>9, AllUnrefNone
  <2>. QED
    BY <1>8, <2>1
<1>10. CASE us # <<>>
  <2>. DEFINE front == Front(us)
              w == Last(us)
              k == Unref(g, w)
  <2>1. /\ front \in Seq(Positive) /\ w \in Positive /\ us = Append(front, w) /\ Len(front) = n - 1
        /\ \A v : Places(us, v) = Places(front, v) + IF w = v THEN 1 ELSE 0
    <3>1. us \in Seq(Positive)
      BY <1>8
    <3>. HIDE DEF T, Fits, Wrong
    <3>. QED
      BY <1>10, <1>7, <3>1, PlacesFront
  <2>. HIDE DEF front, w, k
  <2>2. \A v : Places(front, v) \in Nat
    BY <2>1, PlacesNat
  <2>3. w \in DOMAIN g.wraps
    <3>1. Places(us, w) = Places(front, w) + 1
      BY <2>1
    <3>2. Places(us, w) <= Cnt(g, w)
      BY <1>8
    <3>3. Cnt(g, w) # 0
      BY <2>2, <3>1, <3>2
    <3>. QED
      BY <3>3 DEF Cnt
  <2>4. IsHeap(k) /\ \A v : Cnt(k, v) = Cnt(g, v) - IF v = w THEN 1 ELSE 0
    BY <1>8, <2>3, UnrefCounts DEF k
  <2>5. \A v : Cnt(g, v) \in Nat /\ Cnt(k, v) \in Nat
    BY <1>8, <2>4 DEF Cnt, IsHeap, Wrapper, Positive
  <2>6. \A v : Places(front, v) <= Cnt(k, v)
    <3>. TAKE v
    <3>. DEFINE d == IF w = v THEN 1 ELSE 0
    <3>1. Places(us, v) <= Cnt(g, v) /\ Places(us, v) = Places(front, v) + d
          /\ Cnt(k, v) = Cnt(g, v) - d
      BY <1>8, <2>1, <2>4
    <3>2. d \in {0, 1} /\ Places(front, v) \in Nat /\ Cnt(g, v) \in Nat
      BY <2>2, <2>5
    <3>. HIDE DEF d
    <3>. QED
      BY <3>1, <3>2
  <2>7. Balanced(k, {}, <<>>)
    BY <1>8, <2>3, EmptySeq, BalancedUnref DEF k
  <2>8. Fits(k, front)
    BY <2>4, <2>6, <2>7
  <2>9. n - 1 \in Nat /\ n - 1 < n
    BY <1>5, <2>1
  <2>10. Balanced(AllUnref(k, front), {}, <<>>)
    BY <1>4, <2>1, <2>8, <2>9
  <2>11. AllUnref(g, us) = AllUnref(k, front)
    BY <2>1, AllUnrefAppend DEF k
  <2>. QED
    BY <1>8, <2>10, <2>11
<1>. QED
  BY <1>9, <1>10

-------------------------------------------------------------------------------
(* The specification keeps the heap balanced. *)

(* No element is missing and none is left over between two steps. *)
Settled(h) == Balanced(h, {}, <<>>)

LInv == IInv /\ Settled(heap)

-------------------------------------------------------------------------------
(* The steps on a heap that keep it settled. *)

LEMMA SettledRewrapped ==
  ASSUME NEW h, IsHeap(h), Settled(h), NEW k, IsHeap(k), NEW w \in DOMAIN h.wraps, NEW x,
         Rewrapped(h, k, w, x), x.elements = h.wraps[w].elements
  PROVE  Settled(k)
<1>. DEFINE X == {}
            none == <<>>
<1>1. Balanced(h, X, none) /\ w \notin X /\ none \in Seq(Element)
  BY EmptySeq DEF Settled
<1>2. \A e : Places(none, e) + Places(x.elements, e)
             = Places(none, e) + Places(h.wraps[w].elements, e)
  OBVIOUS
<1>. HIDE DEF X, none
<1>3. Balanced(k, X, none)
  BY <1>1, <1>2, BalancedMoved
<1>. QED
  BY <1>3 DEF Settled, X, none

LEMMA SettledUnref ==
  ASSUME NEW h, IsHeap(h), Settled(h), NEW w \in DOMAIN h.wraps
  PROVE  Settled(Unref(h, w))
BY EmptySeq, BalancedUnref DEF Settled

LEMMA SettledParts ==
  ASSUME NEW h, Settled(h),
         NEW k, k.counts = h.counts, k.wraps = h.wraps, k.leaked = h.leaked
  PROVE  Settled(k)
BY BalancedParts DEF Settled

LEMMA SettledParsed ==
  ASSUME NEW h, IsHeap(h), Settled(h), NEW t \in Texts, NEW mapped \in BOOLEAN
  PROVE  Settled(Parsed(h, t, mapped))
<1>. DEFINE X == {}
            none == <<>>
            k == Parsed(h, t, mapped)
            n == FreeText(h)
            w == FreeWrap(h)
<1>1. IsHeap(k) /\ ParsedAs(h, k, t, mapped, n, w)
  BY ParsedHeap
<1>2. Balanced(h, X, none) /\ w \notin X /\ none \in Seq(Element)
  BY EmptySeq DEF Settled
<1>. HIDE DEF X, none, k, n, w
<1>3. Balanced(k, X, none)
  BY <1>1, <1>2, BalancedParsed
<1>. QED
  BY <1>3 DEF Settled, X, none, k

LEMMA SettledWrapped ==
  ASSUME NEW h, IsHeap(h), NEW es \in Seq(Element), Balanced(h, {}, es), NEW map \in Nat
  PROVE  Settled(Wrapped(h, es, map))
<1>. DEFINE X == {}
            none == <<>>
            k == Wrapped(h, es, map)
            x == [cnt |-> 1, elements |-> es, map |-> map]
            w == FreeWrap(h)
<1>1. IsHeap(k) /\ Wraps(h, k, w, x) /\ k.counts = h.counts
  BY WrappedHeap
<1>2. Balanced(h, X, es) /\ w \notin X /\ none \in Seq(Element)
  BY EmptySeq
<1>3. \A e : Places(es, e) = Places(none, e) + Places(x.elements, e)
  <2>. TAKE e
  <2>1. Places(es, e) \in Nat /\ Places(none, e) = 0 /\ x.elements = es
    BY PlacesNat, PlacesEmpty
  <2>. QED
    BY <2>1
<1>. HIDE DEF X, none, k, x, w
<1>4. Balanced(k, X, none)
  BY <1>1, <1>2, <1>3, BalancedWraps
<1>. QED
  BY <1>4 DEF Settled, X, none, k

LEMMA SettledAllUnref ==
  ASSUME NEW h, IsHeap(h), NEW ws \in Seq(Positive), \A v : Places(ws, v) <= Cnt(h, v),
         Settled(h)
  PROVE  Settled(AllUnref(h, ws))
BY AllUnrefBalanced DEF Settled

-------------------------------------------------------------------------------
(* The initial state and the steps of the specification. *)

LEMMA InitSettled == Init => Settled(heap)
<1>. SUFFICES ASSUME Init PROVE Settled(heap)
  OBVIOUS
<1>1. heap.counts = <<>> /\ heap.wraps = <<>> /\ heap.leaked = <<>> /\ DOMAIN heap.counts = {}
  BY DEF Init
<1>2. \A e : Cells(heap.wraps, e) = {}
  BY <1>1 DEF Cells
<1>3. \A e : Away(heap, {}, e) = 0
  <2>. TAKE e
  <2>1. CellsBut(heap.wraps, {}, e) = {}
    BY <1>2 DEF CellsBut
  <2>2. Cardinality(CellsBut(heap.wraps, {}, e)) = 0
    BY <2>1, FS_EmptySet
  <2>3. Places(heap.leaked, e) = 0
    BY <1>1, PlacesEmpty
  <2>. QED
    BY <2>2, <2>3 DEF Away
<1>4. Others(heap, {}, <<>>) \in [Element -> Nat]
      /\ \A e \in Element : Others(heap, {}, <<>>)[e] = 0
  <2>1. \A e : Places(<<>>, e) = 0
    BY PlacesEmpty
  <2>. QED
    BY <1>3, <2>1 DEF Others
<1>5. \A e : Cardinality(Holders(heap.counts, e)) = 0
  <2>. TAKE e
  <2>1. Holders(heap.counts, e) = {}
    BY <1>1 DEF Holders
  <2>. QED
    BY <2>1, FS_EmptySet
<1>6. \A e : Count(heap.counts, e) = 0
  BY <1>1 DEF Count
<1>7. CountsTyped(heap.counts)
  BY <1>1, FS_EmptySet DEF CountsTyped
<1>8. OneText(heap.counts)
  BY <1>1 DEF OneText
<1>. QED
  BY <1>1, <1>4, <1>5, <1>6, <1>7, <1>8 DEF Settled, Balanced, Even

-------------------------------------------------------------------------------

LEMMA ParseSettled ==
  ASSUME LInv, NEW t \in Texts, NEW mapped \in BOOLEAN, JschemaParse(t, mapped)
  PROVE  Settled(heap')
BY SettledParsed DEF LInv, IInv, Sound, JschemaParse

LEMMA CopySettled ==
  ASSUME LInv, NEW w \in DOMAIN heap.wraps, JschemaCopy(w)
  PROVE  Settled(heap')
<1>. DEFINE x == [cnt |-> heap.wraps[w].cnt + 1, elements |-> heap.wraps[w].elements,
                  map |-> heap.wraps[w].map]
<1>1. heap.wraps[w].cnt + 1 \in Positive
  BY DEF LInv, IInv, Sound, IsHeap, Wrapper, Positive
<1>2. IsHeap(heap') /\ Rewrapped(heap, heap', w, x) /\ x.elements = heap.wraps[w].elements
  BY <1>1, CountedHeap DEF JschemaCopy, Ref, LInv, IInv, Sound
<1>. HIDE DEF x
<1>. QED
  BY <1>2, SettledRewrapped DEF LInv, IInv, Sound

LEMMA ReleaseSettled ==
  ASSUME LInv, NEW w \in DOMAIN heap.wraps, JschemaRelease(w)
  PROVE  Settled(heap')
BY SettledUnref DEF LInv, IInv, Sound, JschemaRelease

LEMMA FragmentSettled ==
  ASSUME LInv, NEW t \in Texts, JSchemaFragment(t)
  PROVE  Settled(heap')
BY SettledParsed DEF LInv, IInv, Sound, JSchemaFragment

LEMMA FileSettled ==
  ASSUME LInv, NEW t \in Texts \cup {NULL}, JSchemaFile(t)
  PROVE  Settled(heap')
<1>. DEFINE n == FreeText(heap)
            k == Parsed(heap, t, FALSE)
<1>1. n \in Positive
  BY TextNumber DEF LInv, IInv, Sound
<1>2. IsFiniteSet(heap.maps \cup {n}) /\ heap.maps \cup {n} \subseteq Positive
  BY <1>1, FS_AddElement DEF LInv, IInv, Sound, IsHeap
<1>3. CASE t = NULL
  <2>1. heap' = [heap EXCEPT !.maps = heap.maps \cup {n}]
    BY <1>3 DEF JSchemaFile
  <2>. HIDE DEF n
  <2>2. heap'.counts = heap.counts /\ heap'.wraps = heap.wraps /\ heap'.leaked = heap.leaked
    BY <1>2, <2>1, MapsSet DEF LInv, IInv, Sound
  <2>. QED
    BY <2>2, SettledParts DEF LInv
<1>4. CASE t # NULL
  <2>1. t \in Texts
    BY <1>4
  <2>2. IsHeap(k) /\ k.maps = heap.maps /\ Settled(k)
    <3>1. IsHeap(heap) /\ Settled(heap)
      BY DEF LInv, IInv, Sound
    <3>2. IsHeap(k) /\ ParsedAs(heap, k, t, FALSE, n, FreeWrap(heap))
      BY <2>1, <3>1, ParsedHeap
    <3>3. Settled(k)
      BY <2>1, <3>1, SettledParsed
    <3>. QED
      BY <3>2, <3>3 DEF ParsedAs
  <2>3. heap' = [k EXCEPT !.maps = k.maps \cup {n}]
    BY <1>4 DEF JSchemaFile
  <2>. HIDE DEF n, k
  <2>4. heap'.counts = k.counts /\ heap'.wraps = k.wraps /\ heap'.leaked = k.leaked
    BY <1>2, <2>2, <2>3, MapsSet
  <2>. QED
    BY <2>2, <2>4, SettledParts
<1>. QED
  BY <1>3, <1>4

LEMMA DropHandleSettled ==
  ASSUME LInv, NEW r \in DOMAIN resources, DropHandle(r)
  PROVE  Settled(heap')
<1>. DEFINE x == resources[r]
            M == heap.maps \ {x.map}
            k == [heap EXCEPT !.maps = M]
<1>1. CASE x.cnt > 1
  BY <1>1 DEF DropHandle, LInv
<1>2. CASE ~(x.cnt > 1)
  <2>1. heap' = IF x.schema = NULL THEN k ELSE Unref(k, x.schema)
    BY <1>2 DEF DropHandle
  <2>2. IsFiniteSet(M) /\ M \subseteq Positive
    BY FS_Subset DEF LInv, IInv, Sound, IsHeap
  <2>3. x.schema # NULL => x.schema \in DOMAIN heap.wraps
    BY Alive DEF LInv, IInv
  <2>. HIDE DEF M
  <2>4. IsHeap(k) /\ k.counts = heap.counts /\ k.wraps = heap.wraps /\ k.leaked = heap.leaked
    BY <2>2, MapsSet DEF LInv, IInv, Sound
  <2>. HIDE DEF k, x
  <2>5. Settled(k)
    BY <2>4, SettledParts DEF LInv
  <2>. QED
    BY <2>1, <2>3, <2>4, <2>5, SettledUnref
<1>. QED
  BY <1>1, <1>2

LEMMA JschemaInitSettled ==
  ASSUME LInv, NEW w \in Usable, NEW r \in ResolversFor(w), JschemaInit(w, r)
  PROVE  Settled(heap')
<1>. DEFINE res == Resolved(heap, heap.wraps[w].elements, r)
            els == heap.wraps[w].elements
            a == SetElements(res.heap, w, res.elements)
            X == {w}
            none == <<>>
<1>1. w \in DOMAIN heap.wraps
  BY Alive DEF LInv, IInv
<1>2. els \in Seq(Element)
  BY <1>1 DEF LInv, IInv, Sound, IsHeap, Wrapper
<1>3. r \in Resolvers(DOMAIN heap.wraps) /\ (r.does = "lend" => (r.schema = w => ~Asks(w)))
  BY DEF ResolversFor
<1>4. Resolves(heap, els, r, res)
  BY <1>2, <1>3, ResolvedResolves DEF LInv, IInv, Sound
<1>5. IF res.ok THEN heap' = Ref(a, w) ELSE heap' = a
  BY DEF JschemaInit
<1>6. Balanced(heap, X, els) /\ IsHeap(heap)
  BY <1>1, TakenOut DEF LInv, Settled, IInv, Sound
<1>7. AsksFor(els) => Spared(heap, X, r)
  BY <1>1, <1>3 DEF AsksFor, Asks, Spared
<1>. DEFINE g == res.heap
            es == res.elements
            ok == res.ok
<1>8. IsHeap(g) /\ Kept(heap, g, r) /\ es \in Seq(Element)
  BY <1>4 DEF Resolves
<1>9. X \subseteq DOMAIN heap.wraps
  BY <1>1
<1>10. none \in Seq(Element) /\ Sum(els, els, none) /\ Sum(es, es, none)
  BY <1>2, <1>8, SumNone, EmptySeq
<1>11. Balanced(g, X, es)
  <2>. HIDE DEF res, els, X, none
  <2>1. res = Resolved(heap, els, r)
    BY DEF res, els
  <2>. QED
    BY <1>2, <1>3, <1>6, <1>7, <1>8, <1>9, <1>10, <2>1, ResolvedBalanced
<1>12. IF ok THEN heap' = Ref(a, w) ELSE heap' = a
  BY <1>5
<1>13. a = SetElements(g, w, es)
  OBVIOUS
<1>. HIDE DEF res, els, g, es, ok, a
<1>14. w \in DOMAIN g.wraps
  BY <1>1, <1>8 DEF Kept
<1>. DEFINE x == [cnt |-> g.wraps[w].cnt, elements |-> es, map |-> g.wraps[w].map]
<1>15. IsHeap(a) /\ Rewrapped(g, a, w, x) /\ x.elements = es
  BY <1>8, <1>13, <1>14, ElementsSet
<1>. HIDE DEF x
<1>16. Balanced(g, {w}, es)
  BY <1>11
<1>17. Settled(a)
  BY <1>8, <1>14, <1>15, <1>16, PutBack DEF Settled
<1>18. w \in DOMAIN a.wraps /\ a.wraps[w].cnt + 1 \in Positive
  BY <1>14, <1>15 DEF Rewrapped, IsHeap, Wrapper, Positive
<1>. DEFINE y == [cnt |-> a.wraps[w].cnt + 1, elements |-> a.wraps[w].elements,
                  map |-> a.wraps[w].map]
<1>19. IsHeap(Ref(a, w)) /\ Rewrapped(a, Ref(a, w), w, y) /\ y.elements = a.wraps[w].elements
  BY <1>15, <1>18, CountedHeap DEF Ref
<1>. HIDE DEF y
<1>20. Settled(Ref(a, w))
  BY <1>15, <1>17, <1>18, <1>19, SettledRewrapped
<1>. QED
  BY <1>12, <1>17, <1>20

LEMMA PushSettled ==
  ASSUME LInv, NEW possible \in BOOLEAN, Push(possible)
  PROVE  Settled(heap')
<1>. DEFINE r == session.resolver
            around == Last(States)
            m == Gathered(heap, around, r)
            w == FreeWrap(m.heap)
            k == Wrapped(m.heap, m.elements, 0)
<1>1. /\ session # NULL /\ States # <<>>
      /\ heap' = k \/ heap' = AllUnref(k, Append(States, w))
  BY DEF Push, Running
<1>2. Open \in Seq(Positive) /\ States = Open /\ r \in Resolvers(Nat)
  BY <1>1, OpenTyped DEF LInv, IInv, Sound
<1>3. around \in DOMAIN heap.wraps
  <2>1. Open # <<>> /\ around = Last(Open)
    BY <1>1, <1>2
  <2>2. Last(Open) = Open[Len(Open)]
    BY DEF Last
  <2>3. Len(Open) \in 1 .. Len(Open)
    BY <1>2, <2>1
  <2>. QED
    BY <2>1, <2>2, <2>3, Alive DEF LInv, IInv
<1>4. r \in Resolvers(DOMAIN heap.wraps)
  <2>1. r.does = "lend" => r.schema \in DOMAIN heap.wraps
    BY <1>1, HeldNat, Alive DEF LInv, IInv, Sound, SessionTyped
  <2>. QED
    BY <1>2, <2>1, ResolverThere
<1>5. IsResolution(heap, r, m)
  BY <1>3, <1>4, GatheredResolves DEF LInv, IInv, Sound
<1>. DEFINE g == m.heap
            es == m.elements
<1>6. IsHeap(g) /\ Kept(heap, g, r) /\ es \in Seq(Element)
  BY <1>5 DEF IsResolution
<1>7. Balanced(g, {}, es)
  BY <1>3, <1>4, GatheredBalanced DEF LInv, IInv, Sound, Settled
<1>8. heap' = k \/ heap' = AllUnref(k, Append(Open, w))
  BY <1>1, <1>2
<1>9. k = Wrapped(g, es, 0) /\ w = FreeWrap(g)
  OBVIOUS
<1>. HIDE DEF m, g, es, k, w, around
<1>10. \A v : Cnt(g, v) = Cnt(heap, v)
  BY <1>6, KeptCounts
<1>. DEFINE x == [cnt |-> 1, elements |-> es, map |-> 0]
<1>11. IsHeap(k) /\ Wraps(g, k, w, x) /\ x.cnt = 1
  BY <1>6, <1>9, WrappedHeap
<1>12. Settled(k)
  BY <1>6, <1>7, <1>9, SettledWrapped
<1>. HIDE DEF x
<1>13. \A v : Cnt(k, v) = IF v = w THEN 1 ELSE Cnt(heap, v)
  BY <1>10, <1>11 DEF Wraps, Cnt
<1>14. w \in Positive /\ w \notin DOMAIN heap.wraps
  BY <1>6, <1>11 DEF Wraps, Kept
<1>15. Places(Open, w) = 0
  BY <1>14, Unreferred DEF LInv, IInv
<1>. DEFINE ws == Append(Open, w)
<1>16. ws \in Seq(Positive) /\ \A v : Places(ws, v) = Places(Open, v) + IF w = v THEN 1 ELSE 0
  BY <1>2, <1>14, PlacesAppend
<1>17. heap' = k \/ heap' = AllUnref(k, ws)
  BY <1>8
<1>. HIDE DEF ws
<1>18. \A v : Places(ws, v) <= Cnt(k, v)
  <2>. TAKE v
  <2>1. Places(Open, v) <= Cnt(heap, v)
    BY Alive DEF LInv, IInv
  <2>2. Places(Open, v) \in Nat
    BY <1>2, PlacesNat
  <2>3. Cnt(heap, v) \in Nat
    BY DEF Cnt, LInv, IInv, Sound, IsHeap, Wrapper, Positive
  <2>. QED
    BY <1>13, <1>15, <1>16, <2>1, <2>2, <2>3
<1>19. Settled(AllUnref(k, ws))
  BY <1>11, <1>12, <1>16, <1>18, SettledAllUnref
<1>. QED
  BY <1>12, <1>17, <1>19

LEMMA PopSettled ==
  ASSUME LInv, Pop
  PROVE  Settled(heap')
<1>1. session # NULL /\ Open # <<>> /\ heap' = Unref(heap, Last(Open))
  BY DEF Pop, Running, Open
<1>2. Open \in Seq(Positive)
  BY OpenTyped DEF LInv, IInv, Sound
<1>3. Last(Open) = Open[Len(Open)] /\ Len(Open) \in 1 .. Len(Open)
  <2>1. Len(Open) \in Nat \ {0}
    BY <1>1, <1>2, EmptySeq
  <2>. QED
    BY <2>1 DEF Last
<1>4. Last(Open) \in DOMAIN heap.wraps
  BY <1>3, Alive DEF LInv, IInv
<1>. QED
  BY <1>1, <1>4, SettledUnref DEF LInv, IInv, Sound

(* Of a parse that is refused, or released. *)
LEMMA DismissSettled ==
  ASSUME LInv, Refuse \/ StateRelease
  PROVE  Settled(heap')
<1>1. heap' = AllUnref(heap, Open)
  BY DEF Refuse, StateRelease, Running, Open
<1>2. Open \in Seq(Positive) /\ \A v : Places(Open, v) <= Cnt(heap, v)
  BY OpenTyped, Alive DEF LInv, IInv, Sound
<1>. QED
  BY <1>1, <1>2, SettledAllUnref DEF LInv, IInv, Sound

LEMMA NextSettled == LInv /\ [Next]_vars => LInv'
<1>. SUFFICES ASSUME LInv, [Next]_vars PROVE Settled(heap')
  BY NextHolds DEF LInv
<1>1. ASSUME NEW t \in Texts, NEW mapped \in BOOLEAN, JschemaParse(t, mapped)
      PROVE Settled(heap')
  BY <1>1, ParseSettled
<1>2. ASSUME NEW w \in DOMAIN heap.wraps, JschemaCopy(w) PROVE Settled(heap')
  BY <1>2, CopySettled
<1>3. ASSUME NEW w \in DOMAIN heap.wraps, JschemaRelease(w) PROVE Settled(heap')
  BY <1>3, ReleaseSettled
<1>4. ASSUME NEW t \in Texts, JSchemaFragment(t) PROVE Settled(heap')
  BY <1>4, FragmentSettled
<1>5. ASSUME NEW t \in Texts \cup {NULL}, JSchemaFile(t) PROVE Settled(heap')
  BY <1>5, FileSettled
<1>6. ASSUME NEW r \in DOMAIN resources, CopyHandle(r) PROVE Settled(heap')
  BY <1>6 DEF CopyHandle, LInv
<1>7. ASSUME NEW r \in DOMAIN resources, DropHandle(r) PROVE Settled(heap')
  BY <1>7, DropHandleSettled
<1>8. ASSUME NEW w \in Usable, NEW r \in ResolversFor(w), JschemaInit(w, r) PROVE Settled(heap')
  BY <1>8, JschemaInitSettled
<1>9. ASSUME NEW possible \in BOOLEAN, Push(possible) PROVE Settled(heap')
  BY <1>9, PushSettled
<1>10. CASE Pop
  BY <1>10, PopSettled
<1>11. CASE Refuse \/ StateRelease
  BY <1>11, DismissSettled
<1>12. CASE UNCHANGED vars
  BY <1>12 DEF vars, LInv
<1>. QED
  BY <1>1, <1>2, <1>3, <1>4, <1>5, <1>6, <1>7, <1>8, <1>9, <1>10, <1>11, <1>12 DEF Next

(* With the counters of elements balanced as well, the invariant holds in
   every reachable state. *)
THEOREM LedgerInvariance == Spec => []LInv
<1>1. Init => LInv
  BY InitHolds, InitSettled DEF LInv
<1>2. LInv /\ [Next]_vars => LInv'
  BY NextSettled
<1>. QED
  BY <1>1, <1>2, PTL DEF Spec

(* The counter of each element is the number of the cells that hold it, of
   what is leaked, and of its holder: no transfer of resolveSchema and no
   release of jschema.c loses or duplicates a reference. *)
THEOREM ElementsCountedHolds == Spec => []ElementsCounted
<1>1. LInv => ElementsCounted
  <2>. SUFFICES ASSUME LInv, NEW e \in DOMAIN heap.counts
                PROVE  /\ heap.counts[e] > 0
                       /\ \A keyword \in DOMAIN Node(e) \cap {"extends", "inner"} :
                            Child(e, keyword) \in DOMAIN heap.counts
                       /\ heap.counts[e] =
                            Cardinality(Cells(heap.wraps, e)) + Places(heap.leaked, e)
                            + Cardinality({g \in DOMAIN heap.counts : Encloses(g, e)})
    BY DEF ElementsCounted
  <2>. DEFINE none == <<>>
              others == Others(heap, {}, none)
  <2>1. Even(heap.counts, others) /\ e \in Element
    BY DEF LInv, Settled, Balanced, Even, CountsTyped
  <2>2. Places(none, e) = 0
    BY PlacesEmpty
  <2>3. IsHeap(heap) /\ none \in Seq(Element)
    BY EmptySeq DEF LInv, IInv, Sound
  <2>4. others[e] = Away(heap, {}, e) + Places(none, e) /\ Away(heap, {}, e) \in Nat
    BY <2>1, <2>3, OthersNat, AwayNat
  <2>5. CellsBut(heap.wraps, {}, e) = Cells(heap.wraps, e)
    BY DEF CellsBut
  <2>6. Away(heap, {}, e) = Cardinality(Cells(heap.wraps, e)) + Places(heap.leaked, e)
    BY <2>5 DEF Away
  <2>. HIDE DEF others, none
  <2>7. Count(heap.counts, e) = heap.counts[e] /\ heap.counts[e] \in Positive
        /\ Count(heap.counts, e) = others[e] + Cardinality(Holders(heap.counts, e))
    BY <2>1 DEF Even, Count
  <2>8. others[e] = Away(heap, {}, e)
    BY <2>2, <2>4
  <2>9. ASSUME NEW keyword \in DOMAIN Node(e) \cap {"extends", "inner"}
        PROVE  Child(e, keyword) \in DOMAIN heap.counts
    <3>1. e.node \in Nodes /\ Node(e) = e.node
      BY <2>1 DEF Element, Node
    <3>. DEFINE n == e.node[keyword]
    <3>2. n \in Nodes /\ Includes(e.node, n)
      BY <3>1, NodesAreTrees DEF Includes
    <3>3. n \in Family[e.node]
      BY <3>1, <3>2, FamilyMembers, FamilyTyped
    <3>. HIDE DEF n
    <3>4. [text |-> e.text, node |-> n] \in DOMAIN heap.counts
      BY <2>1, <3>3, InsideThere
    <3>. QED
      BY <3>4 DEF Child, n
  <2>. QED
    BY <2>6, <2>7, <2>8, <2>9 DEF Holders, Positive
<1>. QED
  BY <1>1, LedgerInvariance, PTL

(* The variables hold values of their types; no array of a wrapper holds an
   element that was freed, and no reference a wrapper that was freed. *)
THEOREM TypesHold == Spec => []TypeOK
<1>1. LInv => TypeOK
  <2>. SUFFICES ASSUME LInv PROVE TypeOK
    OBVIOUS
  <2>. USE DEF LInv, IInv
  <2>1. \A e \in DOMAIN heap.counts : e.node \in Nodes /\ heap.counts[e] \in Nat
    BY DEF Settled, Balanced, Even, CountsTyped, Element, Positive
  <2>2. ASSUME NEW w \in DOMAIN heap.wraps
        PROVE  /\ heap.wraps[w].cnt \in Nat
               /\ ToSet(heap.wraps[w].elements) \subseteq DOMAIN heap.counts
    <3>. DEFINE none == <<>>
                X == {}
    <3>1. IsHeap(heap) /\ none \in Seq(Element) /\ w \notin X /\ Balanced(heap, X, none)
      BY EmptySeq DEF Sound, Settled
    <3>. HIDE DEF none, X
    <3>2. \A i \in DOMAIN heap.wraps[w].elements : heap.wraps[w].elements[i] \in DOMAIN heap.counts
      BY <3>1, CellThere
    <3>3. heap.wraps[w] \in Wrapper
      BY <3>1 DEF IsHeap
    <3>. QED
      BY <3>2, <3>3 DEF ToSet, Wrapper, Positive
  <2>3. DOMAIN held \subseteq DOMAIN heap.wraps /\ \A w \in DOMAIN held : held[w] \in 1 .. MaxHeld
    BY Alive DEF Sound, HeldTyped
  <2>4. \A r \in DOMAIN resources : resources[r].cnt \in 1 .. MaxHeld
    BY DEF Sound, ResourcesTyped, ResourceSet
  <2>5. session # NULL => ToSet(States) \subseteq DOMAIN heap.wraps
    <3>1. session # NULL => States = Open
      BY DEF Open
    <3>2. \A i \in DOMAIN Open : Open[i] \in DOMAIN heap.wraps
      BY OpenTyped, Alive DEF Sound
    <3>. QED
      BY <3>1, <3>2 DEF ToSet
  <2>6. lent \in BOOLEAN
    BY DEF Sound
  <2>. QED
    BY <2>1, <2>2, <2>3, <2>4, <2>5, <2>6 DEF TypeOK
<1>. QED
  BY <1>1, LedgerInvariance, PTL
===============================================================================
