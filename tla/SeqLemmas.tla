------------------------------- MODULE SeqLemmas --------------------------------
(***************************************************************************)
(* Lemmas about sequences whose elements are of no type in particular, as  *)
(* the stacks and heaps of the models are.                                 *)
(***************************************************************************)
EXTENDS Integers, SequencesExt, SequenceTheorems, WellFoundedInduction, TLAPS


IsSeq(q) == \E S : q \in Seq(S)

LEMMA SeqFacts ==
  ASSUME NEW q, IsSeq(q)
  PROVE  /\ Len(q) \in Nat
         /\ DOMAIN q = 1 .. Len(q)
         /\ q = <<>> <=> Len(q) = 0
<1>1. PICK S : q \in Seq(S)
  BY DEF IsSeq
<1>. QED
  BY <1>1, LenProperties, EmptySeq

LEMMA EmptyIsSeq == IsSeq(<<>>) /\ Len(<<>>) = 0
BY EmptySeq DEF IsSeq

LEMMA OneIsSeq ==
  ASSUME NEW e
  PROVE  IsSeq(<<e>>) /\ Len(<<e>>) = 1 /\ <<e>>[1] = e
<1>1. <<e>> \in Seq({e})
  OBVIOUS
<1>. QED
  BY <1>1 DEF IsSeq

LEMMA AppendFacts ==
  ASSUME NEW q, IsSeq(q), NEW e
  PROVE  /\ IsSeq(Append(q, e))
         /\ Len(Append(q, e)) = Len(q) + 1
         /\ \A i \in 1 .. Len(q) : Append(q, e)[i] = q[i]
         /\ Append(q, e)[Len(q) + 1] = e
<1>1. PICK S : q \in Seq(S)
  BY DEF IsSeq
<1>2. q \in Seq(S \cup {e})
  BY <1>1, SeqMonotonic
<1>. QED
  BY <1>2, AppendProperties DEF IsSeq

LEMMA FrontFacts ==
  ASSUME NEW q, IsSeq(q), q # <<>>
  PROVE  /\ IsSeq(Front(q))
         /\ Len(Front(q)) = Len(q) - 1
         /\ \A i \in 1 .. Len(q) - 1 : Front(q)[i] = q[i]
<1>1. PICK S : q \in Seq(S)
  BY DEF IsSeq
<1>2. Len(q) \in Nat /\ Len(q) # 0
  BY SeqFacts
<1>3. \A i \in 1 .. Len(q) - 1 : q[i] \in S
  BY <1>1, <1>2, ElementOfSeq
<1>4. /\ Front(q) \in Seq(S)
      /\ 1 <= Len(q) - 1 => Len(Front(q)) = Len(q) - 1 - 1 + 1
      /\ ~(1 <= Len(q) - 1) => Len(Front(q)) = 0
      /\ \A i \in 1 .. Len(q) - 1 - 1 + 1 : Front(q)[i] = q[1 + i - 1]
  <2>. DEFINE m == Len(q) - 1
  <2>1. m \in Int /\ 1 \in Int /\ \A i \in 1 .. m : q[i] \in S
    BY <1>2, <1>3
  <2>2. Front(q) = SubSeq(q, 1, m)
    BY DEF Front
  <2>. HIDE DEF m
  <2>3. /\ SubSeq(q, 1, m) \in Seq(S)
        /\ 1 <= m => Len(SubSeq(q, 1, m)) = m - 1 + 1
        /\ ~(1 <= m) => Len(SubSeq(q, 1, m)) = 0
        /\ \A i \in 1 .. m - 1 + 1 : SubSeq(q, 1, m)[i] = q[1 + i - 1]
    BY <2>1, SubSeqProperties
  <2>. QED
    BY <2>2, <2>3 DEF m
<1>5. \A i \in 1 .. Len(q) - 1 : i \in 1 .. Len(q) - 1 - 1 + 1 /\ 1 + i - 1 = i
  BY <1>2
<1>6. IsSeq(Front(q))
  BY <1>4 DEF IsSeq
<1>7. Len(Front(q)) = Len(q) - 1
  BY <1>2, <1>4
<1>8. \A i \in 1 .. Len(q) - 1 : Front(q)[i] = q[i]
  BY <1>4, <1>5
<1>. QED
  BY <1>6, <1>7, <1>8

LEMMA FrontOfAppend ==
  ASSUME NEW q, IsSeq(q), NEW e
  PROVE  Front(Append(q, e)) = q
<1>. DEFINE r == Append(q, e)
            f == Front(r)
<1>1. Len(q) \in Nat
  BY SeqFacts
<1>2. IsSeq(r) /\ Len(r) = Len(q) + 1 /\ \A i \in 1 .. Len(q) : r[i] = q[i]
  BY AppendFacts
<1>. HIDE DEF r
<1>3. r # <<>> /\ Len(r) - 1 = Len(q)
  BY <1>1, <1>2, SeqFacts
<1>4. IsSeq(f) /\ Len(f) = Len(q) /\ \A i \in 1 .. Len(q) : f[i] = r[i]
  BY <1>2, <1>3, FrontFacts
<1>. HIDE DEF f
<1>5. PICK S, T : q \in Seq(S) /\ f \in Seq(T)
  BY <1>4 DEF IsSeq
<1>6. q \in Seq(S \cup T) /\ f \in Seq(S \cup T)
  BY <1>5, SeqMonotonic
<1>7. f = q
  BY <1>2, <1>4, <1>6, SeqEqual
<1>. QED
  BY <1>7 DEF f, r

(* The last element is replaced. *)
LEMMA ReplacedFacts ==
  ASSUME NEW q, IsSeq(q), q # <<>>, NEW e
  PROVE  LET r == Append(Front(q), e)
         IN  /\ IsSeq(r)
             /\ Len(r) = Len(q)
             /\ \A i \in 1 .. Len(q) - 1 : r[i] = q[i]
             /\ r[Len(q)] = e
<1>1. Len(q) \in Nat /\ Len(q) # 0
  BY SeqFacts
<1>. QED
  BY <1>1, FrontFacts, AppendFacts

(* One element is replaced in place. *)
With(q, i, e) == [q EXCEPT ![i] = e]

LEMMA WithFacts ==
  ASSUME NEW q, IsSeq(q), NEW i \in 1 .. Len(q), NEW e
  PROVE  /\ IsSeq(With(q, i, e))
         /\ Len(With(q, i, e)) = Len(q)
         /\ With(q, i, e)[i] = e
         /\ \A j \in 1 .. Len(q) : j # i => With(q, i, e)[j] = q[j]
<1>. DEFINE r == [q EXCEPT ![i] = e]
<1>1. PICK S : q \in Seq(S)
  BY DEF IsSeq
<1>2. q \in Seq(S \cup {e})
  BY <1>1, SeqMonotonic
<1>3. r \in Seq(S \cup {e}) /\ Len(r) = Len(q)
  BY <1>2, ExceptSeq
<1>4. DOMAIN q = 1 .. Len(q)
  BY SeqFacts
<1>. QED
  BY <1>3, <1>4 DEF IsSeq, With

-------------------------------------------------------------------------------
(* A set of natural numbers has a least element, which stands in for         *)
(* induction.                                                                *)
LEMMA LeastOf ==
  ASSUME NEW T, T \subseteq Nat, T # {}
  PROVE  \E m \in T : \A n \in T : ~(n < m)
<1>. DEFINE Less == {ss \in Nat \X Nat : ss[1] < ss[2]}
<1>1. IsWellFoundedOn(Less, Nat)
  BY NatLessThanWellFounded DEF OpToRel
<1>. HIDE DEF Less
<1>2. \E m \in T : \A n \in T : ~(<<n, m>> \in Less)
  BY <1>1, WFMin
<1>3. \A m, n \in Nat : n < m => <<n, m>> \in Less
  BY DEF Less
<1>. QED
  BY <1>2, <1>3

(* The sequence q with w in place of its elements i + 1 .. k. *)
Patched(q, i, w, k) == SubSeq(q, 1, i) \o w \o SubSeq(q, k + 1, Len(q))

LEMMA PatchedFacts ==
  ASSUME NEW S, NEW q \in Seq(S), NEW w \in Seq(S), NEW i \in Nat, NEW k \in Nat,
         i <= k, k <= Len(q)
  PROVE  /\ Patched(q, i, w, k) \in Seq(S)
         /\ Len(Patched(q, i, w, k)) = i + Len(w) + (Len(q) - k)
         /\ \A n \in 1 .. i + Len(w) + (Len(q) - k) :
              Patched(q, i, w, k)[n] = IF n <= i THEN q[n]
                                       ELSE IF n <= i + Len(w) THEN w[n - i]
                                       ELSE q[n - i - Len(w) + k]
<1>. DEFINE h == SubSeq(q, 1, i)
            t == SubSeq(q, k + 1, Len(q))
            m == Len(q) - k
<1>1. /\ Len(q) \in Nat /\ Len(w) \in Nat /\ m \in Nat
      /\ \A n \in 1 .. Len(q) : q[n] \in S
  BY LenProperties
<1>2. h \in Seq(S) /\ Len(h) = i /\ \A n \in 1 .. i : h[n] = q[n]
  <2>1. \A n \in 1 .. i : q[n] \in S
    BY <1>1
  <2>2. /\ h \in Seq(S) /\ Len(h) = (IF 1 <= i THEN i - 1 + 1 ELSE 0)
        /\ \A n \in 1 .. i - 1 + 1 : h[n] = q[1 + n - 1]
    BY <2>1, SubSeqProperties
  <2>. HIDE DEF h
  <2>. QED
    BY <2>2
<1>3. t \in Seq(S) /\ Len(t) = m /\ \A n \in 1 .. m : t[n] = q[n + k]
  <2>1. (\A n \in k + 1 .. Len(q) : q[n] \in S) /\ k + 1 \in Int /\ Len(q) \in Int
    BY <1>1
  <2>2. /\ t \in Seq(S)
        /\ Len(t) = (IF k + 1 <= Len(q) THEN Len(q) - (k + 1) + 1 ELSE 0)
        /\ \A n \in 1 .. Len(q) - (k + 1) + 1 : t[n] = q[(k + 1) + n - 1]
    BY <2>1, SubSeqProperties
  <2>. HIDE DEF t
  <2>3. Len(t) = m /\ Len(q) - (k + 1) + 1 = m
    BY <1>1, <2>2
  <2>4. \A n \in 1 .. m : (k + 1) + n - 1 = n + k
    BY <1>1
  <2>. QED
    BY <2>2, <2>3, <2>4
<1>4. Patched(q, i, w, k) = h \o w \o t
  BY DEF Patched
<1>. HIDE DEF h, t
<1>5. /\ h \o w \in Seq(S) /\ Len(h \o w) = i + Len(w)
      /\ \A n \in 1 .. i + Len(w) : (h \o w)[n] = IF n <= i THEN h[n] ELSE w[n - i]
  BY <1>2, ConcatProperties
<1>. DEFINE hw == h \o w
<1>. HIDE DEF hw, m
<1>6. /\ hw \o t \in Seq(S) /\ Len(hw \o t) = i + Len(w) + m
      /\ \A n \in 1 .. i + Len(w) + m :
           (hw \o t)[n] = IF n <= i + Len(w) THEN hw[n] ELSE t[n - (i + Len(w))]
  BY <1>3, <1>5, ConcatProperties DEF hw
<1>7. ASSUME NEW n \in 1 .. i + Len(w) + m
      PROVE  (hw \o t)[n] = IF n <= i THEN q[n]
                            ELSE IF n <= i + Len(w) THEN w[n - i]
                            ELSE q[n - i - Len(w) + k]
  <2>1. CASE n <= i
    <3>1. n \in 1 .. i /\ n \in 1 .. i + Len(w) /\ n <= i + Len(w)
      BY <1>1, <2>1
    <3>. QED
      BY <1>2, <1>5, <1>6, <2>1, <3>1 DEF hw
  <2>2. CASE ~(n <= i) /\ n <= i + Len(w)
    <3>1. n \in 1 .. i + Len(w)
      BY <1>1, <2>2
    <3>. QED
      BY <1>5, <1>6, <2>2, <3>1 DEF hw
  <2>3. CASE ~(n <= i) /\ ~(n <= i + Len(w))
    <3>1. /\ n - (i + Len(w)) \in 1 .. m
          /\ n - (i + Len(w)) + k = n - i - Len(w) + k
      BY <1>1, <2>3
    <3>. QED
      BY <1>3, <1>6, <2>3, <3>1
  <2>. QED
    BY <2>1, <2>2, <2>3
<1>. QED
  BY <1>4, <1>6, <1>7 DEF hw, m

LEMMA PatchedEmpty ==
  ASSUME NEW S, NEW q \in Seq(S), NEW i \in Nat, NEW k \in Nat, i <= k, k <= Len(q)
  PROVE  Patched(q, i, <<>>, k) = SubSeq(q, 1, i) \o SubSeq(q, k + 1, Len(q))
<1>1. Len(q) \in Nat /\ \A n \in 1 .. Len(q) : q[n] \in S
  BY LenProperties
<1>2. \A n \in 1 .. i : q[n] \in S
  BY <1>1
<1>3. SubSeq(q, 1, i) \in Seq(S)
  BY <1>2, SubSeqProperties
<1>. QED
  BY <1>3, ConcatEmptySeq DEF Patched
================================================================================
