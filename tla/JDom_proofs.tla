------------------------------ MODULE JDom_proofs -------------------------------
(***************************************************************************)
(* Proofs about JDom: for all names, scalars, defaults and clients and for *)
(* any number of events, the chain of contexts mirrors the nesting of the  *)
(* text, a parse is canceled only for a cause, a refusal of the validator  *)
(* is final, the values allocated are those the tree or a waiting key      *)
(* owns, each in one place, no pointer outlives what it points to, and     *)
(* what is built in place is what JDocument reads.                         *)
(***************************************************************************)
EXTENDS JDom, SeqLemmas, FiniteSetTheorems, TLAPS

-------------------------------------------------------------------------------
(* Events handled one after the other.  The state after n events is defined  *)
(* by recursion on n; that it exists is shown for one event more at a time.  *)

EventSteps(d, es, f, m) ==
  f = [n \in 0 .. m |-> IF n = 0 THEN d ELSE Handle(f[n - 1], es[n])]

LEMMA EventStepsExist ==
  ASSUME NEW d, NEW es, NEW m \in Nat
  PROVE  \E f : EventSteps(d, es, f, m)
<1>. DEFINE T == {k \in Nat : ~ \E f : EventSteps(d, es, f, k)}
<1>1. SUFFICES ASSUME T # {} PROVE FALSE
  OBVIOUS
<1>2. PICK k \in T : \A j \in T : ~(j < k)
  BY <1>1, LeastOf
<1>3. k \in Nat /\ ~ \E f : EventSteps(d, es, f, k)
  BY <1>2
<1>4. CASE k = 0
  <2>. DEFINE f == [n \in 0 .. 0 |-> d]
  <2>1. EventSteps(d, es, f, 0)
    BY DEF EventSteps
  <2>. QED
    BY <1>3, <1>4, <2>1
<1>5. CASE k # 0
  <2>1. k - 1 \in Nat /\ k - 1 < k
    BY <1>3, <1>5
  <2>2. PICK f : EventSteps(d, es, f, k - 1)
    BY <1>2, <2>1
  <2>. DEFINE g == [n \in 0 .. k |-> IF n = k THEN Handle(f[k - 1], es[k]) ELSE f[n]]
  <2>3. \A n \in 0 .. k - 1 : f[n] = IF n = 0 THEN d ELSE Handle(f[n - 1], es[n])
    BY <2>2 DEF EventSteps
  <2>4. \A n \in 0 .. k : g[n] = IF n = 0 THEN d ELSE Handle(g[n - 1], es[n])
    <3>. TAKE n \in 0 .. k
    <3>1. CASE n = k
      BY <1>3, <1>5, <2>1, <3>1
    <3>2. CASE n # k /\ n # 0
      <4>1. n \in 0 .. k - 1 /\ n - 1 \in 0 .. k /\ n - 1 # k
        BY <1>3, <3>2
      <4>. QED
        BY <2>3, <3>2, <4>1
    <3>3. CASE n # k /\ n = 0
      BY <1>3, <2>1, <2>3, <3>3
    <3>. QED
      BY <3>1, <3>2, <3>3
  <2>5. EventSteps(d, es, g, k)
    BY <2>4 DEF EventSteps
  <2>. QED
    BY <1>3, <2>5
<1>. QED
  BY <1>4, <1>5

LEMMA EventStepsChosen ==
  ASSUME NEW d, NEW es, Len(es) \in Nat
  PROVE  \E f : EventSteps(d, es, f, Len(es)) /\ HandleAll(d, es) = f[Len(es)]
<1>. DEFINE f == CHOOSE after : after = [n \in 0 .. Len(es) |->
                                 IF n = 0 THEN d ELSE Handle(after[n - 1], es[n])]
<1>1. \E after : EventSteps(d, es, after, Len(es))
  BY EventStepsExist
<1>2. PICK g : g = [n \in 0 .. Len(es) |->
                      IF n = 0 THEN d ELSE Handle(g[n - 1], es[n])]
  BY <1>1, Zenon DEF EventSteps
<1>3. f = [n \in 0 .. Len(es) |-> IF n = 0 THEN d ELSE Handle(f[n - 1], es[n])]
  BY <1>2, Zenon
<1>4. HandleAll(d, es) = f[Len(es)]
  BY Zenon DEF HandleAll
<1>. QED
  BY <1>3, <1>4, Zenon DEF EventSteps

(* The same for the injections of the defaults of several keys. *)

InjectionSteps(d, ks, f, m) ==
  f = [n \in 0 .. m |-> IF n = 0 THEN d ELSE Inject(f[n - 1], ks[n])]

LEMMA InjectionStepsExist ==
  ASSUME NEW d, NEW ks, NEW m \in Nat
  PROVE  \E f : InjectionSteps(d, ks, f, m)
<1>. DEFINE T == {k \in Nat : ~ \E f : InjectionSteps(d, ks, f, k)}
<1>1. SUFFICES ASSUME T # {} PROVE FALSE
  OBVIOUS
<1>2. PICK k \in T : \A j \in T : ~(j < k)
  BY <1>1, LeastOf
<1>3. k \in Nat /\ ~ \E f : InjectionSteps(d, ks, f, k)
  BY <1>2
<1>4. CASE k = 0
  <2>. DEFINE f == [n \in 0 .. 0 |-> d]
  <2>1. InjectionSteps(d, ks, f, 0)
    BY DEF InjectionSteps
  <2>. QED
    BY <1>3, <1>4, <2>1
<1>5. CASE k # 0
  <2>1. k - 1 \in Nat /\ k - 1 < k
    BY <1>3, <1>5
  <2>2. PICK f : InjectionSteps(d, ks, f, k - 1)
    BY <1>2, <2>1
  <2>. DEFINE g == [n \in 0 .. k |-> IF n = k THEN Inject(f[k - 1], ks[k]) ELSE f[n]]
  <2>3. \A n \in 0 .. k - 1 : f[n] = IF n = 0 THEN d ELSE Inject(f[n - 1], ks[n])
    BY <2>2 DEF InjectionSteps
  <2>4. \A n \in 0 .. k : g[n] = IF n = 0 THEN d ELSE Inject(g[n - 1], ks[n])
    <3>. TAKE n \in 0 .. k
    <3>1. CASE n = k
      BY <1>3, <1>5, <2>1, <3>1
    <3>2. CASE n # k /\ n # 0
      <4>1. n \in 0 .. k - 1 /\ n - 1 \in 0 .. k /\ n - 1 # k
        BY <1>3, <3>2
      <4>. QED
        BY <2>3, <3>2, <4>1
    <3>3. CASE n # k /\ n = 0
      BY <1>3, <2>1, <2>3, <3>3
    <3>. QED
      BY <3>1, <3>2, <3>3
  <2>5. InjectionSteps(d, ks, g, k)
    BY <2>4 DEF InjectionSteps
  <2>. QED
    BY <1>3, <2>5
<1>. QED
  BY <1>4, <1>5

LEMMA InjectionStepsChosen ==
  ASSUME NEW d, NEW ks, Len(ks) \in Nat
  PROVE  \E f : InjectionSteps(d, ks, f, Len(ks)) /\ InjectAll(d, ks) = f[Len(ks)]
<1>. DEFINE f == CHOOSE after : after = [n \in 0 .. Len(ks) |->
                                 IF n = 0 THEN d ELSE Inject(after[n - 1], ks[n])]
<1>1. \E after : InjectionSteps(d, ks, after, Len(ks))
  BY InjectionStepsExist
<1>2. PICK g : g = [n \in 0 .. Len(ks) |->
                      IF n = 0 THEN d ELSE Inject(g[n - 1], ks[n])]
  BY <1>1, Zenon DEF InjectionSteps
<1>3. f = [n \in 0 .. Len(ks) |-> IF n = 0 THEN d ELSE Inject(f[n - 1], ks[n])]
  BY <1>2, Zenon
<1>4. InjectAll(d, ks) = f[Len(ks)]
  BY Zenon DEF InjectAll
<1>. QED
  BY <1>3, <1>4, Zenon DEF InjectionSteps

-------------------------------------------------------------------------------
(* Values. *)

IsNode(n) ==
  /\ n = [kind |-> n.kind, text |-> n.text, items |-> n.items]
  /\ IsSeq(n.items)

IsDom(d) ==
  /\ d = [heap |-> d.heap, live |-> d.live, ctx |-> d.ctx, ok |-> d.ok]
  /\ IsSeq(d.heap) /\ \A n \in 1 .. Len(d.heap) : IsNode(d.heap[n])
  /\ IsSeq(d.ctx) /\ d.ctx # <<>>

(* The values of d are in c, of their kinds, and hold what they held, but for
   the container o. *)
Keeps(d, c, o) ==
  /\ Len(d.heap) <= Len(c.heap)
  /\ \A n \in 1 .. Len(d.heap) :
       /\ c.heap[n].kind = d.heap[n].kind
       /\ n # o => c.heap[n].items = d.heap[n].items

(* c is d with other values. *)
Around(d, c) == IsDom(c) /\ c.ctx = d.ctx /\ c.ok = d.ok

(* Records with some fields replaced. *)
LEMMA DomFields ==
  ASSUME NEW d, IsDom(d), NEW e
  PROVE  /\ [d EXCEPT !.heap = e]
              = [heap |-> e, live |-> d.live, ctx |-> d.ctx, ok |-> d.ok]
         /\ [d EXCEPT !.live = e]
              = [heap |-> d.heap, live |-> e, ctx |-> d.ctx, ok |-> d.ok]
         /\ [d EXCEPT !.ctx = e]
              = [heap |-> d.heap, live |-> d.live, ctx |-> e, ok |-> d.ok]
         /\ [d EXCEPT !.ok = e]
              = [heap |-> d.heap, live |-> d.live, ctx |-> d.ctx, ok |-> e]
<1>1. d = [heap |-> d.heap, live |-> d.live, ctx |-> d.ctx, ok |-> d.ok]
  BY DEF IsDom
<1>. QED
  BY <1>1

LEMMA HeapAndLive ==
  ASSUME NEW d, IsDom(d), NEW h, NEW l
  PROVE  [d EXCEPT !.heap = h, !.live = l]
           = [heap |-> h, live |-> l, ctx |-> d.ctx, ok |-> d.ok]
<1>. DEFINE e == [d EXCEPT !.heap = h]
<1>1. e = [heap |-> h, live |-> d.live, ctx |-> d.ctx, ok |-> d.ok]
  BY DomFields
<1>2. [e EXCEPT !.live = l] = [heap |-> h, live |-> l, ctx |-> d.ctx, ok |-> d.ok]
  <2>. HIDE DEF e
  <2>. QED
    BY <1>1
<1>3. [e EXCEPT !.live = l] = [d EXCEPT !.heap = h, !.live = l]
  <2>1. DOMAIN d = {"heap", "live", "ctx", "ok"}
    BY DEF IsDom
  <2>. QED
    BY <2>1
<1>. QED
  BY <1>2, <1>3

LEMMA Addresses ==
  ASSUME NEW d, IsDom(d)
  PROVE  Len(d.heap) \in Nat /\ DOMAIN d.heap = 1 .. Len(d.heap)
BY SeqFacts DEF IsDom

LEMMA CreateFacts ==
  ASSUME NEW d, IsDom(d), NEW kind, NEW text
  PROVE  LET c == Create(d, kind, text)
         IN  /\ Around(d, c)
             /\ Len(c.heap) = Len(d.heap) + 1
             /\ \A n \in 1 .. Len(d.heap) : c.heap[n] = d.heap[n]
             /\ c.heap[Fresh(d)].kind = kind
             /\ c.heap[Fresh(d)].items = <<>>
             /\ c.live = d.live \cup {Fresh(d)}
<1>. DEFINE node == [kind |-> kind, text |-> text, items |-> <<>>]
            c    == Create(d, kind, text)
<1>1. c = [heap |-> Append(d.heap, node), live |-> d.live \cup {Fresh(d)},
           ctx |-> d.ctx, ok |-> d.ok]
  <2>1. c = [d EXCEPT !.heap = Append(d.heap, node), !.live = d.live \cup {Fresh(d)}]
    BY Zenon DEF Create
  <2>. QED
    BY <2>1, HeapAndLive, Zenon
<1>2. IsNode(node) /\ node.kind = kind /\ node.items = <<>>
  BY EmptyIsSeq DEF IsNode
<1>. HIDE DEF node
<1>3. IsSeq(d.heap) /\ Len(d.heap) \in Nat
  BY Addresses DEF IsDom
<1>4. /\ IsSeq(Append(d.heap, node))
      /\ Len(Append(d.heap, node)) = Len(d.heap) + 1
      /\ \A n \in 1 .. Len(d.heap) : Append(d.heap, node)[n] = d.heap[n]
      /\ Append(d.heap, node)[Len(d.heap) + 1] = node
  BY <1>3, AppendFacts
<1>. HIDE DEF c
<1>5. /\ c.heap = Append(d.heap, node) /\ c.ctx = d.ctx /\ c.ok = d.ok
      /\ c.live = d.live \cup {Fresh(d)}
      /\ c = [heap |-> c.heap, live |-> c.live, ctx |-> c.ctx, ok |-> c.ok]
  BY <1>1
<1>6. \A n \in 1 .. Len(c.heap) : IsNode(c.heap[n])
  BY <1>2, <1>3, <1>4, <1>5 DEF IsDom
<1>7. Around(d, c)
  BY <1>4, <1>5, <1>6 DEF Around, IsDom
<1>8. c.heap[Fresh(d)].kind = kind /\ c.heap[Fresh(d)].items = <<>>
  BY <1>2, <1>4, <1>5 DEF Fresh
<1>. QED
  BY <1>4, <1>5, <1>7, <1>8 DEF c

LEMMA CreateKeeps ==
  ASSUME NEW d, IsDom(d), NEW kind, NEW text, NEW o
  PROVE  Keeps(d, Create(d, kind, text), o)
<1>1. Len(d.heap) \in Nat
  BY Addresses
<1>. QED
  BY <1>1, CreateFacts DEF Keeps

LEMMA KeepsTransitive ==
  ASSUME NEW d, NEW c, NEW e, NEW o, IsDom(d), IsDom(c), IsDom(e),
         Keeps(d, c, o), Keeps(c, e, o)
  PROVE  Keeps(d, e, o)
<1>1. Len(d.heap) \in Nat /\ Len(c.heap) \in Nat /\ Len(e.heap) \in Nat
  BY Addresses
<1>. QED
  BY SMTT(40), <1>1 DEF Keeps

(* What a value points to does not change, unless it is o. *)
LEMMA KeepsPointed ==
  ASSUME NEW d, NEW c, NEW o, IsDom(d), IsDom(c), Keeps(d, c, o),
         NEW n \in 1 .. Len(d.heap), n # o, NEW p \in Pointed(d.heap, n)
  PROVE  p \in Pointed(c.heap, n)
<1>1. /\ Len(d.heap) \in Nat /\ DOMAIN d.heap = 1 .. Len(d.heap)
      /\ Len(c.heap) \in Nat /\ DOMAIN c.heap = 1 .. Len(c.heap)
  BY Addresses
<1>2. c.heap[n].items = d.heap[n].items /\ Len(d.heap) <= Len(c.heap)
  BY DEF Keeps
<1>3. p \in DOMAIN c.heap
  BY <1>1, <1>2 DEF Pointed
<1>. QED
  BY <1>2, <1>3 DEF Pointed

(* The items of the container o are replaced. *)
WithItems(d, o, items) == [d EXCEPT !.heap[o].items = items]

LEMMA WithItemsFacts ==
  ASSUME NEW d, IsDom(d), NEW o \in 1 .. Len(d.heap), NEW items, IsSeq(items)
  PROVE  LET c == WithItems(d, o, items)
         IN  /\ Around(d, c) /\ Keeps(d, c, o)
             /\ Len(c.heap) = Len(d.heap) /\ c.heap[o].items = items
             /\ c.live = d.live
<1>. DEFINE node == [d.heap[o] EXCEPT !.items = items]
            h    == [d.heap EXCEPT ![o] = node]
            c    == WithItems(d, o, items)
<1>1. c = [d EXCEPT !.heap = h]
  <2>1. d = [heap |-> d.heap, live |-> d.live, ctx |-> d.ctx, ok |-> d.ok]
    BY DEF IsDom
  <2>. QED
    BY <2>1, SMT DEF WithItems
<1>2. c = [heap |-> h, live |-> d.live, ctx |-> d.ctx, ok |-> d.ok]
  BY <1>1, DomFields, Zenon
<1>3. IsNode(d.heap[o]) /\ IsSeq(d.heap)
  BY DEF IsDom
<1>4. node = [kind |-> d.heap[o].kind, text |-> d.heap[o].text, items |-> items]
  BY <1>3 DEF IsNode
<1>5. IsNode(node) /\ node.kind = d.heap[o].kind /\ node.items = items
  <2>. HIDE DEF node
  <2>. QED
    BY <1>4 DEF IsNode
<1>. HIDE DEF node
<1>6. /\ IsSeq(h) /\ Len(h) = Len(d.heap) /\ h[o] = node
      /\ \A n \in 1 .. Len(d.heap) : n # o => h[n] = d.heap[n]
  <2>1. h = With(d.heap, o, node)
    BY Zenon DEF With
  <2>. HIDE DEF h
  <2>. QED
    BY <1>3, <2>1, WithFacts
<1>. HIDE DEF h
<1>. HIDE DEF c
<1>7. /\ c.heap = h /\ c.ctx = d.ctx /\ c.ok = d.ok /\ c.live = d.live
      /\ c = [heap |-> c.heap, live |-> c.live, ctx |-> c.ctx, ok |-> c.ok]
  BY <1>2
<1>8. \A n \in 1 .. Len(c.heap) : IsNode(c.heap[n])
  BY <1>5, <1>6, <1>7 DEF IsDom
<1>9. Around(d, c)
  BY <1>6, <1>7, <1>8 DEF Around, IsDom
<1>10. Keeps(d, c, o)
  BY <1>5, <1>6, <1>7, Addresses DEF Keeps
<1>. QED
  BY <1>5, <1>6, <1>7, <1>9, <1>10 DEF c

LEMMA ReleaseFacts ==
  ASSUME NEW d, IsDom(d), NEW ns
  PROVE  /\ Around(d, Release(d, ns)) /\ Release(d, ns).heap = d.heap
         /\ Release(d, ns).live = d.live \ UNION {Below(d, n) : n \in ns}
<1>1. Release(d, ns) = [heap |-> d.heap, live |-> d.live \ UNION {Below(d, n) : n \in ns},
                        ctx |-> d.ctx, ok |-> d.ok]
  BY DomFields, Zenon DEF Release
<1>. QED
  BY <1>1 DEF Around, IsDom

LEMMA ArrayAppendFacts ==
  ASSUME NEW d, IsDom(d), NEW a \in 1 .. Len(d.heap), NEW v
  PROVE  LET c == ArrayAppend(d, a, v)
         IN  /\ Around(d, c) /\ Keeps(d, c, a) /\ Len(c.heap) = Len(d.heap)
             /\ v \in 1 .. Len(d.heap) => v \in Pointed(c.heap, a)
<1>. DEFINE items == Append(d.heap[a].items, <<NULL, v>>)
            c     == ArrayAppend(d, a, v)
<1>1. c = WithItems(d, a, items)
  BY Zenon DEF ArrayAppend, WithItems
<1>2. IsSeq(d.heap[a].items)
  BY DEF IsDom, IsNode
<1>. DEFINE n == Len(d.heap[a].items) + 1
<1>3. IsSeq(items) /\ Len(items) = n /\ items[n] = <<NULL, v>> /\ n \in 1 .. n
  BY <1>2, AppendFacts, SeqFacts
<1>4. n \in DOMAIN items /\ items[n][2] = v
  BY SMTT(40), <1>3, SeqFacts
<1>. HIDE DEF items, n
<1>. HIDE DEF c
<1>5. /\ Around(d, c) /\ Keeps(d, c, a)
      /\ Len(c.heap) = Len(d.heap) /\ c.heap[a].items = items
  BY <1>1, <1>3, WithItemsFacts
<1>6. ASSUME v \in 1 .. Len(d.heap)
      PROVE  v \in Pointed(c.heap, a)
  <2>1. v \in DOMAIN c.heap
    BY <1>5, <1>6, Addresses DEF Around
  <2>. QED
    BY <1>4, <1>5, <2>1 DEF Pointed
<1>. QED
  BY <1>5, <1>6 DEF c

LEMMA ObjectPutFacts ==
  ASSUME NEW d, IsDom(d), NEW o \in 1 .. Len(d.heap), NEW k, NEW v
  PROVE  LET c == ObjectPut(d, o, k, v)
         IN  /\ Around(d, c) /\ Keeps(d, c, o) /\ Len(c.heap) = Len(d.heap)
             /\ v \in 1 .. Len(d.heap) /\ k # Empty => v \in Pointed(c.heap, o)
<1>. DEFINE items == d.heap[o].items
            same  == {i \in DOMAIN items : TextAt(d, items[i][1]) = TextAt(d, k)}
            c     == ObjectPut(d, o, k, v)
<1>1. IsSeq(items) /\ Len(items) \in Nat /\ DOMAIN items = 1 .. Len(items)
  <2>1. IsSeq(items)
    BY DEF IsDom, IsNode
  <2>. QED
    BY <2>1, SeqFacts
<1>2. CASE k = Empty
  <2>1. c = d
    BY <1>2 DEF ObjectPut
  <2>2. Around(d, d) /\ Keeps(d, d, o)
    BY Addresses DEF Around, Keeps
  <2>. QED
    BY <1>2, <2>1, <2>2
<1>3. ASSUME NEW e, IsDom(e), e.heap = d.heap, e.ctx = d.ctx, e.ok = d.ok,
             NEW new, IsSeq(new), c = WithItems(e, o, new),
             NEW i \in 1 .. Len(new), new[i] = <<k, v>>
      PROVE  /\ Around(d, c) /\ Keeps(d, c, o) /\ Len(c.heap) = Len(d.heap)
             /\ v \in 1 .. Len(d.heap) => v \in Pointed(c.heap, o)
  <2>. HIDE DEF c
  <2>1. o \in 1 .. Len(e.heap)
    BY <1>3
  <2>2. /\ Around(e, c) /\ Keeps(e, c, o)
        /\ Len(c.heap) = Len(e.heap) /\ c.heap[o].items = new
    BY <1>3, <2>1, WithItemsFacts
  <2>3. Around(d, c) /\ Keeps(d, c, o)
    BY <1>3, <2>2 DEF Around, Keeps
  <2>4. ASSUME v \in 1 .. Len(d.heap)
        PROVE  v \in Pointed(c.heap, o)
    <3>1. v \in DOMAIN c.heap
      BY <1>3, <2>2, <2>4, Addresses DEF Around
    <3>2. i \in DOMAIN new /\ new[i][2] = v
      BY <1>3, SeqFacts
    <3>. QED
      BY <2>2, <3>1, <3>2 DEF Pointed
  <2>. QED
    BY <1>3, <2>2, <2>3, <2>4
<1>4. CASE k # Empty /\ same = {}
  <2>. DEFINE new == Append(items, <<k, v>>)
  <2>1. c = WithItems(d, o, new)
    BY <1>4, Zenon DEF ObjectPut, WithItems
  <2>. HIDE DEF items
  <2>2. IsSeq(new) /\ Len(items) + 1 \in 1 .. Len(new) /\ new[Len(items) + 1] = <<k, v>>
    BY <1>1, AppendFacts
  <2>. HIDE DEF new, c
  <2>. QED
    BY <1>3, <2>1, <2>2 DEF c
<1>5. CASE k # Empty /\ same # {}
  <2>. DEFINE i   == CHOOSE i \in same : TRUE
              e   == Release(d, {items[i][1], items[i][2]})
              new == With(items, i, <<k, v>>)
  <2>1. i \in 1 .. Len(items)
    BY <1>1, <1>5
  <2>2. c = [e EXCEPT !.heap[o].items[i] = <<k, v>>]
    BY <1>5, Zenon DEF ObjectPut
  <2>. HIDE DEF i
  <2>3. IsDom(e) /\ e.heap = d.heap /\ e.ctx = d.ctx /\ e.ok = d.ok
    BY ReleaseFacts DEF Around
  <2>. HIDE DEF e
  <2>4. [e EXCEPT !.heap[o].items[i] = <<k, v>>]
          = [e EXCEPT !.heap[o].items = [e.heap[o].items EXCEPT ![i] = <<k, v>>]]
    <3>1. e = [heap |-> e.heap, live |-> e.live, ctx |-> e.ctx, ok |-> e.ok]
      BY <2>3 DEF IsDom
    <3>. QED
      BY <3>1, SMT
  <2>5. [e.heap[o].items EXCEPT ![i] = <<k, v>>] = new
    BY <2>3, Zenon DEF With
  <2>6. c = WithItems(e, o, new)
    BY <2>2, <2>4, <2>5, Zenon DEF WithItems
  <2>7. IsSeq(new) /\ i \in 1 .. Len(new) /\ new[i] = <<k, v>>
    BY <1>1, <2>1, WithFacts
  <2>. HIDE DEF new, c
  <2>. QED
    BY <1>3, <2>3, <2>6, <2>7 DEF c
<1>. QED
  BY <1>2, <1>4, <1>5

LEMMA CreateScalarFacts ==
  ASSUME NEW d, IsDom(d), NEW s, NEW o
  PROVE  Around(d, CreateScalar(d, s)) /\ Keeps(d, CreateScalar(d, s), o)
<1>1. CASE s \in Statics
  <2>1. CreateScalar(d, s) = d
    BY <1>1 DEF CreateScalar
  <2>2. Around(d, d) /\ Keeps(d, d, o)
    BY Addresses DEF Around, Keeps
  <2>. QED
    BY <2>1, <2>2
<1>2. CASE s \notin Statics
  BY <1>2, CreateFacts, CreateKeeps DEF CreateScalar
<1>. QED
  BY <1>1, <1>2

(* A key is a string, and not the empty one unless its text is. *)
LEMMA KeyCreated ==
  ASSUME NEW d, IsDom(d), NEW k \in Names
  PROVE  /\ KindAt(CreateScalar(d, k), ScalarAt(d, k)) = "string"
         /\ ScalarAt(d, k) # NULL
         /\ ScalarAt(d, k) = Empty => k = Empty
<1>1. CASE k \in Statics
  <2>1. CreateScalar(d, k) = d /\ ScalarAt(d, k) = k
    BY <1>1 DEF CreateScalar, ScalarAt
  <2>2. k = Empty /\ k \notin Nat /\ k # NULL
    BY <1>1, DomConstants DEF Statics
  <2>3. k \notin DOMAIN d.heap
    BY <2>2, Addresses
  <2>. QED
    BY <2>1, <2>2, <2>3 DEF KindAt
<1>2. CASE k \notin Statics
  <2>. DEFINE c == Create(d, "string", k)
  <2>1. CreateScalar(d, k) = c /\ ScalarAt(d, k) = Fresh(d)
    BY <1>2 DEF CreateScalar, ScalarAt
  <2>2. Around(d, c) /\ Len(c.heap) = Len(d.heap) + 1 /\ c.heap[Fresh(d)].kind = "string"
    BY CreateFacts
  <2>. HIDE DEF c
  <2>3. Fresh(d) \in Nat /\ Fresh(d) \in DOMAIN c.heap
    BY <2>2, Addresses DEF Fresh, Around
  <2>4. Fresh(d) # NULL /\ Fresh(d) # Empty
    BY <2>3, DomConstants
  <2>. QED
    BY <2>1, <2>2, <2>3, <2>4 DEF KindAt
<1>. QED
  BY <1>1, <1>2

LEMMA RefuseFacts ==
  ASSUME NEW d, IsDom(d), NEW ok
  PROVE  LET c == [d EXCEPT !.ok = ok]
         IN  IsDom(c) /\ c.heap = d.heap /\ c.live = d.live /\ c.ctx = d.ctx /\ c.ok = ok
<1>. DEFINE c == [d EXCEPT !.ok = ok]
<1>1. c = [heap |-> d.heap, live |-> d.live, ctx |-> d.ctx, ok |-> ok]
  BY DomFields, Zenon
<1>. HIDE DEF c
<1>2. IsDom(c) /\ c.heap = d.heap /\ c.live = d.live /\ c.ctx = d.ctx /\ c.ok = ok
  BY <1>1 DEF IsDom
<1>. QED
  BY <1>2 DEF c

(* d with other contexts. *)
WithCtx(d, q) == [d EXCEPT !.ctx = q]

LEMMA WithCtxFacts ==
  ASSUME NEW d, IsDom(d), NEW q, IsSeq(q), q # <<>>
  PROVE  /\ IsDom(WithCtx(d, q))
         /\ WithCtx(d, q).heap = d.heap /\ WithCtx(d, q).ok = d.ok
         /\ WithCtx(d, q).ctx = q /\ WithCtx(d, q).live = d.live
<1>. DEFINE c == WithCtx(d, q)
<1>1. c = [heap |-> d.heap, live |-> d.live, ctx |-> q, ok |-> d.ok]
  BY DomFields, Zenon DEF WithCtx
<1>. HIDE DEF c
<1>2. IsDom(c) /\ c.heap = d.heap /\ c.ok = d.ok /\ c.ctx = q /\ c.live = d.live
  BY <1>1 DEF IsDom
<1>. QED
  BY <1>2 DEF c

(* The m_value of one context is replaced. *)
LEMMA CtxReplaced ==
  ASSUME NEW d, IsDom(d), NEW i \in 1 .. Len(d.ctx), NEW n
  PROVE  LET c == [d EXCEPT !.ctx[i] = n]
         IN  /\ IsDom(c) /\ c.heap = d.heap /\ c.ok = d.ok /\ c.live = d.live
             /\ Len(c.ctx) = Len(d.ctx) /\ c.ctx[i] = n
             /\ \A j \in 1 .. Len(d.ctx) : j # i => c.ctx[j] = d.ctx[j]
<1>. DEFINE q == With(d.ctx, i, n)
            c == [d EXCEPT !.ctx[i] = n]
<1>1. c = WithCtx(d, q)
  <2>1. d = [heap |-> d.heap, live |-> d.live, ctx |-> d.ctx, ok |-> d.ok]
    BY DEF IsDom
  <2>2. c = [d EXCEPT !.ctx = [d.ctx EXCEPT ![i] = n]]
    BY <2>1, SMT
  <2>. QED
    BY <2>2, Zenon DEF WithCtx, With
<1>2. IsSeq(d.ctx) /\ d.ctx # <<>> /\ Len(d.ctx) # 0
  BY SeqFacts DEF IsDom
<1>3. /\ IsSeq(q) /\ Len(q) = Len(d.ctx) /\ q[i] = n
      /\ \A j \in 1 .. Len(d.ctx) : j # i => q[j] = d.ctx[j]
  BY <1>2, WithFacts
<1>4. q # <<>>
  BY <1>2, <1>3, SeqFacts
<1>. HIDE DEF q, c
<1>5. IsDom(c) /\ c.heap = d.heap /\ c.ok = d.ok /\ c.ctx = q /\ c.live = d.live
  BY <1>1, <1>3, <1>4, WithCtxFacts
<1>. QED
  BY <1>3, <1>5 DEF c

LEMMA SetHereFacts ==
  ASSUME NEW d, IsDom(d), NEW n
  PROVE  /\ IsDom(SetHere(d, n))
         /\ SetHere(d, n).heap = d.heap /\ SetHere(d, n).ok = d.ok
         /\ SetHere(d, n).live = d.live
         /\ Len(SetHere(d, n).ctx) = Len(d.ctx)
         /\ \A j \in 1 .. Len(d.ctx) - 1 : SetHere(d, n).ctx[j] = d.ctx[j]
         /\ Here(SetHere(d, n)) = n
<1>1. Len(d.ctx) \in Nat /\ Len(d.ctx) # 0
  BY SeqFacts DEF IsDom
<1>2. Len(d.ctx) \in 1 .. Len(d.ctx)
  BY <1>1
<1>. QED
  BY <1>1, <1>2, CtxReplaced DEF SetHere, Here

-------------------------------------------------------------------------------
(* The chain of contexts. *)

IsNest(ns) == IsSeq(ns) /\ \A i \in 1 .. Len(ns) : ns[i] \in Kinds

(* The contexts below the current one hold the open containers, each in the
   one around it if every member so far has a name. *)
Chain(d, ns, named) ==
  /\ \A i \in 1 .. Len(ns) :
       d.ctx[i] \in 1 .. Len(d.heap) /\ d.heap[d.ctx[i]].kind = ns[i]
  /\ \A i, j \in 1 .. Len(ns) : i # j => d.ctx[i] # d.ctx[j]
  /\ named => \A i \in 1 .. Len(ns) - 1 : d.ctx[i + 1] \in Pointed(d.heap, d.ctx[i])

Mirrors(d, ns, key, named) ==
  /\ Len(d.ctx) = Len(ns) + 1
  /\ Chain(d, ns, named)
  /\ ns # <<>> => IF key THEN HasKey(d) ELSE Here(d) = NULL

(* The handlers go on, and the contexts are in their place. *)
Placed(d, ns, key, named) == IsDom(d) /\ d.ok = TRUE /\ Mirrors(d, ns, key, named)

(* A value can come next in the innermost of the containers ns. *)
Ready(ns, key) == ns # <<>> /\ ns[Len(ns)] = IF key THEN "object" ELSE "array"

(* Values are added, and the innermost container gets another item. *)
LEMMA ChainKept ==
  ASSUME NEW d, NEW c, NEW ns, NEW named, IsDom(d), IsDom(c), IsSeq(ns),
         Chain(d, ns, named), Keeps(d, c, d.ctx[Len(ns)]),
         \A i \in 1 .. Len(ns) : c.ctx[i] = d.ctx[i]
  PROVE  Chain(c, ns, named)
<1>1. Len(ns) \in Nat /\ Len(d.heap) \in Nat /\ Len(c.heap) \in Nat
  BY Addresses, SeqFacts
<1>2. ASSUME NEW i \in 1 .. Len(ns)
      PROVE  c.ctx[i] \in 1 .. Len(c.heap) /\ c.heap[c.ctx[i]].kind = ns[i]
  <2>. DEFINE n == d.ctx[i]
              o == d.ctx[Len(ns)]
  <2>1. n \in 1 .. Len(d.heap) /\ d.heap[n].kind = ns[i] /\ c.ctx[i] = n
    BY DEF Chain
  <2>2. Keeps(d, c, o)
    OBVIOUS
  <2>. HIDE DEF n, o
  <2>3. n \in 1 .. Len(c.heap) /\ c.heap[n].kind = d.heap[n].kind
    BY <1>1, <2>1, <2>2 DEF Keeps
  <2>. QED
    BY <2>1, <2>3
<1>3. \A i, j \in 1 .. Len(ns) : i # j => c.ctx[i] # c.ctx[j]
  BY DEF Chain
<1>4. ASSUME named, NEW i \in 1 .. Len(ns) - 1
      PROVE  c.ctx[i + 1] \in Pointed(c.heap, c.ctx[i])
  <2>1. i \in 1 .. Len(ns) /\ i + 1 \in 1 .. Len(ns) /\ Len(ns) \in 1 .. Len(ns) /\ i # Len(ns)
    BY <1>1
  <2>. DEFINE n == d.ctx[i]
              p == d.ctx[i + 1]
              o == d.ctx[Len(ns)]
  <2>2. n \in 1 .. Len(d.heap) /\ n # o /\ p \in Pointed(d.heap, n) /\ Keeps(d, c, o)
    BY <1>4, <2>1 DEF Chain
  <2>3. c.ctx[i] = n /\ c.ctx[i + 1] = p
    BY <2>1
  <2>. HIDE DEF n, p, o
  <2>4. p \in Pointed(c.heap, n)
    BY <2>2, KeepsPointed
  <2>. QED
    BY <2>3, <2>4
<1>. QED
  BY <1>2, <1>3, <1>4 DEF Chain

(* The innermost container, as the handlers find it. *)
LEMMA ParentFacts ==
  ASSUME NEW d, NEW ns, NEW key, NEW named, IsDom(d), IsNest(ns), ns # <<>>,
         Mirrors(d, ns, key, named)
  PROVE  /\ Len(ns) \in Nat /\ Len(ns) \in 1 .. Len(ns) /\ Len(d.ctx) = Len(ns) + 1
         /\ HasPrev(d) /\ Parent(d) = d.ctx[Len(ns)]
         /\ Parent(d) \in 1 .. Len(d.heap)
         /\ \A kind : ParentIs(d, kind) <=> ns[Len(ns)] = kind
<1>1. Len(ns) \in Nat /\ Len(ns) # 0 /\ Len(d.ctx) = Len(ns) + 1
  BY SeqFacts DEF IsNest, Mirrors
<1>2. HasPrev(d) /\ Parent(d) = d.ctx[Len(ns)] /\ Len(ns) \in 1 .. Len(ns)
  BY <1>1 DEF HasPrev, Parent
<1>3. Parent(d) \in 1 .. Len(d.heap) /\ d.heap[Parent(d)].kind = ns[Len(ns)]
  BY <1>2 DEF Mirrors, Chain
<1>4. KindAt(d, Parent(d)) = ns[Len(ns)]
  BY <1>3, Addresses DEF KindAt
<1>. QED
  BY <1>1, <1>2, <1>3, <1>4 DEF ParentIs

-------------------------------------------------------------------------------
(* The handlers. *)

LEMMA ScalarPlaced ==
  ASSUME NEW d, NEW ns, NEW key, NEW named, IsNest(ns), Placed(d, ns, key, named),
         Ready(ns, key), NEW s
  PROVE  Placed(DomScalar(d, s), ns, FALSE, named)
<1>. DEFINE c == CreateScalar(d, s)
            v == ScalarAt(d, s)
            o == Parent(d)
            L == Len(ns)
<1>1. IsDom(d) /\ d.ok = TRUE /\ Mirrors(d, ns, key, named) /\ ns # <<>> /\ IsSeq(ns)
  BY DEF Placed, Ready, IsNest
<1>2. /\ L \in Nat /\ L \in 1 .. L /\ Len(d.ctx) = L + 1
      /\ HasPrev(d) /\ o = d.ctx[L] /\ o \in 1 .. Len(d.heap)
      /\ \A kind : ParentIs(d, kind) <=> ns[L] = kind
  BY <1>1, ParentFacts
<1>3. Around(d, c) /\ Keeps(d, c, o)
  BY <1>1, CreateScalarFacts
<1>4. o \in 1 .. Len(c.heap)
  BY <1>1, <1>2, <1>3, Addresses DEF Keeps, Around
<1>5. Chain(d, ns, named)
  BY <1>1 DEF Mirrors
<1>6. ASSUME NEW e, IsDom(e), Keeps(c, e, o), e.ok = d.ok, Len(e.ctx) = Len(d.ctx),
             \A j \in 1 .. L : e.ctx[j] = d.ctx[j], Here(e) = NULL
      PROVE  Placed(e, ns, FALSE, named)
  <2>1. Keeps(d, e, d.ctx[L])
    BY <1>1, <1>2, <1>3, <1>6, KeepsTransitive DEF Around
  <2>2. Chain(e, ns, named)
    BY <1>1, <1>5, <1>6, <2>1, ChainKept
  <2>. QED
    BY <1>1, <1>2, <1>6, <2>2 DEF Placed, Mirrors
<1>. HIDE DEF c, v, o, L
<1>7. CASE key
  <2>. DEFINE p == ObjectPut(c, o, Here(d), v)
              e == SetHere(p, NULL)
  <2>1. HasKey(d) /\ ParentIs(d, "object") /\ ~ParentIs(d, "array")
    BY <1>1, <1>2, <1>7 DEF Mirrors, Ready, L
  <2>2. DomScalar(d, s) = e
    BY <1>2, <2>1 DEF DomScalar, c, v, o
  <2>3. Around(c, p) /\ Keeps(c, p, o)
    BY <1>3, <1>4, ObjectPutFacts DEF Around
  <2>. HIDE DEF p
  <2>4. IsDom(p) /\ p.ctx = d.ctx /\ p.ok = d.ok
    BY <1>3, <2>3 DEF Around
  <2>5. /\ IsDom(e) /\ e.heap = p.heap /\ e.ok = p.ok /\ Len(e.ctx) = Len(p.ctx)
        /\ \A j \in 1 .. Len(p.ctx) - 1 : e.ctx[j] = p.ctx[j]
        /\ Here(e) = NULL
    BY <2>4, SetHereFacts
  <2>. HIDE DEF e
  <2>6. Keeps(c, e, o)
    BY <2>3, <2>5 DEF Keeps
  <2>7. \A j \in 1 .. L : e.ctx[j] = d.ctx[j]
    BY <1>2, <2>4, <2>5
  <2>. QED
    BY <1>6, <2>2, <2>4, <2>5, <2>6, <2>7
<1>8. CASE ~key
  <2>. DEFINE e == ArrayAppend(c, o, v)
  <2>1. Here(d) = NULL /\ ParentIs(d, "array")
    BY <1>1, <1>2, <1>8 DEF Mirrors, Ready, L
  <2>2. DomScalar(d, s) = e
    BY <1>2, <2>1 DEF DomScalar, c, v, o
  <2>3. Around(c, e) /\ Keeps(c, e, o)
    BY <1>3, <1>4, ArrayAppendFacts DEF Around
  <2>. HIDE DEF e
  <2>4. IsDom(e) /\ e.ctx = d.ctx /\ e.ok = d.ok
    BY <1>3, <2>3 DEF Around
  <2>5. Here(e) = NULL
    BY <2>1, <2>4 DEF Here
  <2>. QED
    BY <1>6, <2>2, <2>3, <2>4, <2>5
<1>. QED
  BY <1>7, <1>8

LEMMA KeyPlaced ==
  ASSUME NEW d, NEW ns, NEW named, IsNest(ns), Placed(d, ns, FALSE, named),
         ns # <<>>, ns[Len(ns)] = "object", NEW k \in Names
  PROVE  /\ Placed(DomKey(d, k), ns, TRUE, named)
         /\ k # Empty => Here(DomKey(d, k)) # Empty
<1>. DEFINE c == CreateScalar(d, k)
            v == ScalarAt(d, k)
            e == SetHere(c, v)
            o == Parent(d)
            L == Len(ns)
<1>1. IsDom(d) /\ d.ok = TRUE /\ Mirrors(d, ns, FALSE, named) /\ IsSeq(ns)
  BY DEF Placed, IsNest
<1>2. /\ L \in Nat /\ L \in 1 .. L /\ Len(d.ctx) = L + 1
      /\ HasPrev(d) /\ o = d.ctx[L] /\ ParentIs(d, "object")
  BY <1>1, ParentFacts
<1>3. DomKey(d, k) = e
  BY <1>1, <1>2 DEF DomKey, Mirrors
<1>4. /\ Around(d, c) /\ Keeps(d, c, o)
      /\ KindAt(c, v) = "string" /\ v # NULL /\ (v = Empty => k = Empty)
  BY <1>1, CreateScalarFacts, KeyCreated
<1>. HIDE DEF c, v
<1>5. IsDom(c) /\ c.ctx = d.ctx /\ c.ok = d.ok
  BY <1>4 DEF Around
<1>6. /\ IsDom(e) /\ e.heap = c.heap /\ e.ok = c.ok /\ Len(e.ctx) = Len(c.ctx)
      /\ \A j \in 1 .. Len(c.ctx) - 1 : e.ctx[j] = c.ctx[j]
      /\ Here(e) = v
  BY <1>5, SetHereFacts
<1>. HIDE DEF e
<1>7. Keeps(d, e, d.ctx[L])
  BY <1>2, <1>4, <1>6 DEF Keeps
<1>8. \A j \in 1 .. L : e.ctx[j] = d.ctx[j]
  BY <1>2, <1>5, <1>6
<1>9. Chain(e, ns, named)
  BY <1>1, <1>6, <1>7, <1>8, ChainKept DEF Mirrors
<1>10. HasKey(e)
  BY <1>4, <1>6 DEF HasKey, KindAt
<1>11. Placed(e, ns, TRUE, named)
  BY <1>1, <1>2, <1>5, <1>6, <1>9, <1>10 DEF Placed, Mirrors
<1>. QED
  BY <1>3, <1>4, <1>6, <1>11

(* One more container is open, in the one that was the innermost. *)
LEMMA ChainExtended ==
  ASSUME NEW d, NEW ns, NEW named, NEW kind, NEW n, IsSeq(ns), Chain(d, ns, named),
         d.ctx[Len(ns) + 1] = n, n \in 1 .. Len(d.heap), d.heap[n].kind = kind,
         \A i \in 1 .. Len(ns) : d.ctx[i] # n,
         named /\ ns # <<>> => n \in Pointed(d.heap, d.ctx[Len(ns)])
  PROVE  Chain(d, Append(ns, kind), named)
<1>. DEFINE m == Append(ns, kind)
            L == Len(ns)
<1>1. L \in Nat /\ (ns = <<>> <=> L = 0)
  BY SeqFacts
<1>2. Len(m) = L + 1 /\ m[L + 1] = kind /\ \A i \in 1 .. L : m[i] = ns[i]
  BY AppendFacts
<1>. HIDE DEF m, L
<1>3. \A i \in 1 .. L + 1 : i \in 1 .. L \/ i = L + 1
  BY <1>1
<1>4. \A i \in 1 .. L + 1 : d.ctx[i] \in 1 .. Len(d.heap) /\ d.heap[d.ctx[i]].kind = m[i]
  BY <1>2, <1>3 DEF Chain, L
<1>5. \A i, j \in 1 .. L + 1 : i # j => d.ctx[i] # d.ctx[j]
  BY <1>3 DEF Chain, L
<1>6. ASSUME named, NEW i \in 1 .. L
      PROVE  d.ctx[i + 1] \in Pointed(d.heap, d.ctx[i])
  <2>1. CASE i = L
    BY <1>1, <1>6, <2>1 DEF L
  <2>2. CASE i # L
    <3>1. i \in 1 .. L - 1
      BY <1>1, <2>2
    <3>. QED
      BY <1>6, <3>1 DEF Chain, L
  <2>. QED
    BY <2>1, <2>2
<1>7. Len(m) - 1 = L
  BY <1>1, <1>2
<1>8. Chain(d, m, named)
  BY <1>2, <1>4, <1>5, <1>6, <1>7 DEF Chain
<1>. QED
  BY <1>8 DEF m

LEMMA StartPlaced ==
  ASSUME NEW d, NEW ns, NEW key, NEW named, IsNest(ns), Placed(d, ns, key, named),
         ns = <<>> \/ Ready(ns, key), NEW kind,
         named /\ key /\ ns # <<>> => Here(d) # Empty
  PROVE  Placed(DomStart(d, kind), Append(ns, kind), FALSE, named)
<1>. DEFINE c == Create(d, kind, NULL)
            n == Fresh(d)
            q == Append(d.ctx, NULL)
            p == [c EXCEPT !.ctx = Append(@, NULL)]
            L == Len(ns)
            o == d.ctx[L]
<1>1. /\ IsDom(d) /\ d.ok = TRUE /\ Mirrors(d, ns, key, named) /\ IsSeq(ns)
      /\ L \in Nat /\ (ns = <<>> <=> L = 0) /\ Len(d.ctx) = L + 1 /\ IsSeq(d.ctx)
      /\ Chain(d, ns, named)
  BY SeqFacts DEF Placed, IsNest, Mirrors, IsDom
<1>2. /\ Around(d, c) /\ Keeps(d, c, o) /\ Len(c.heap) = Len(d.heap) + 1
      /\ c.heap[n].kind = kind
  BY <1>1, CreateFacts, CreateKeeps
<1>3. n = Len(d.heap) + 1 /\ Len(d.heap) \in Nat
  BY <1>1, Addresses DEF Fresh
<1>4. /\ IsSeq(q) /\ Len(q) = L + 2 /\ q # <<>> /\ q[L + 2] = NULL
      /\ \A i \in 1 .. L + 1 : q[i] = d.ctx[i]
  <2>1. /\ IsSeq(q) /\ Len(q) = Len(d.ctx) + 1 /\ q[Len(d.ctx) + 1] = NULL
        /\ \A i \in 1 .. Len(d.ctx) : q[i] = d.ctx[i]
    BY <1>1, AppendFacts
  <2>. HIDE DEF q
  <2>2. L + 1 + 1 = L + 2 /\ L + 2 # 0
    BY <1>1
  <2>3. Len(q) = L + 2 /\ q[L + 2] = NULL /\ \A i \in 1 .. L + 1 : q[i] = d.ctx[i]
    BY <1>1, <2>1, <2>2
  <2>. QED
    BY <2>1, <2>2, <2>3, SeqFacts
<1>. HIDE DEF c
<1>5. p = WithCtx(c, q)
  BY <1>2, Zenon DEF WithCtx, Around
<1>. HIDE DEF p, q, n, L, o
<1>6. IsDom(p) /\ p.heap = c.heap /\ p.ok = TRUE /\ p.ctx = q
  BY ZenonT(60), <1>1, <1>2, <1>4, <1>5, WithCtxFacts DEF Around
<1>7. ASSUME NEW j, IsDom(j), Keeps(p, j, o), j.ctx = q, j.ok = TRUE,
             Len(j.heap) = Len(p.heap),
             named /\ ns # <<>> => n \in Pointed(j.heap, o),
             DomStart(d, kind) = [j EXCEPT !.ctx[Len(d.ctx)] = n]
      PROVE  Placed(DomStart(d, kind), Append(ns, kind), FALSE, named)
  <2>. DEFINE e == [j EXCEPT !.ctx[Len(d.ctx)] = n]
              x == L + 1
  <2>1. x \in 1 .. Len(j.ctx) /\ Len(d.ctx) = x
    BY <1>1, <1>4, <1>7
  <2>2. e = [j EXCEPT !.ctx[x] = n]
    BY <2>1
  <2>. HIDE DEF x
  <2>3. /\ IsDom(e) /\ e.heap = j.heap /\ e.ok = j.ok
        /\ Len(e.ctx) = Len(j.ctx) /\ e.ctx[x] = n
        /\ \A i \in 1 .. Len(j.ctx) : i # x => e.ctx[i] = j.ctx[i]
    <3>1. IsDom(j)
      BY <1>7
    <3>. QED
      BY SMTT(40), <2>1, <2>2, <3>1, CtxReplaced
  <2>. HIDE DEF e
  <2>4. /\ Len(e.ctx) = L + 2 /\ e.ctx[L + 2] = NULL /\ e.ctx[L + 1] = n
        /\ \A i \in 1 .. L : e.ctx[i] = d.ctx[i]
    <3>1. L + 2 \in 1 .. Len(j.ctx) /\ L + 2 # x /\ Len(j.ctx) = L + 2
      BY <1>1, <1>4, <1>7 DEF x
    <3>2. \A i \in 1 .. L : i \in 1 .. Len(j.ctx) /\ i # x /\ i \in 1 .. L + 1
      BY <1>1, <3>1 DEF x
    <3>3. e.ctx[L + 2] = NULL
      BY <1>4, <1>7, <2>3, <3>1
    <3>4. \A i \in 1 .. L : e.ctx[i] = d.ctx[i]
      BY <1>4, <1>7, <2>3, <3>2
    <3>. QED
      BY <2>3, <3>1, <3>3, <3>4 DEF x
  <2>5. Keeps(d, e, o)
    BY <1>2, <1>3, <1>6, <1>7, <2>3 DEF Keeps
  <2>6. Chain(e, ns, named)
    BY <1>1, <2>3, <2>4, <2>5, ChainKept DEF L, o
  <2>7. n \in 1 .. Len(e.heap) /\ e.heap[n].kind = kind
    BY <1>2, <1>3, <1>6, <1>7, <2>3 DEF Keeps
  <2>8. \A i \in 1 .. L : e.ctx[i] # n
    BY SMTT(40), <1>1, <1>3, <2>4 DEF Chain, L
  <2>9. named /\ ns # <<>> => n \in Pointed(e.heap, e.ctx[L])
    <3>1. ns # <<>> => L \in 1 .. L
      BY <1>1
    <3>. QED
      BY <1>7, <2>3, <2>4, <3>1 DEF o
  <2>10. Chain(e, Append(ns, kind), named)
    BY SMTT(40), <1>1, <2>4, <2>6, <2>7, <2>8, <2>9, ChainExtended DEF L
  <2>11. Len(Append(ns, kind)) = L + 1
    BY <1>1, AppendFacts DEF L
  <2>12. Here(e) = NULL /\ Len(e.ctx) = L + 1 + 1
    BY <1>1, <2>4 DEF Here
  <2>13. Placed(e, Append(ns, kind), FALSE, named)
    BY <1>7, <2>3, <2>10, <2>11, <2>12 DEF Placed, Mirrors
  <2>. QED
    BY <1>7, <2>13 DEF e
<1>8. CASE ns = <<>>
  <2>1. ~HasPrev(d)
    BY <1>1, <1>8 DEF HasPrev
  <2>2. DomStart(d, kind) = [p EXCEPT !.ctx[Len(d.ctx)] = n]
    BY <1>6, <2>1, Zenon DEF DomStart, p, n, c
  <2>3. Keeps(p, p, o)
    BY <1>6, Addresses DEF Keeps
  <2>. QED
    BY <1>6, <1>7, <1>8, <2>2, <2>3
<1>9. CASE ns # <<>>
  <2>1. /\ HasPrev(d) /\ Parent(d) = o /\ o \in 1 .. Len(d.heap)
        /\ \A knd : ParentIs(d, knd) <=> ns[Len(ns)] = knd
    BY <1>1, <1>9, ParentFacts DEF L, o
  <2>2. o \in 1 .. Len(p.heap) /\ n \in 1 .. Len(p.heap)
    BY <1>2, <1>3, <1>6, <2>1
  <2>3. CASE key
    <3>. DEFINE j == ObjectPut(p, o, Here(d), n)
    <3>1. HasKey(d) /\ ~ParentIs(d, "array")
      BY <1>1, <1>9, <2>1, <2>3 DEF Mirrors, Ready
    <3>2. /\ Around(p, j) /\ Keeps(p, j, o) /\ Len(j.heap) = Len(p.heap)
          /\ Here(d) # Empty => n \in Pointed(j.heap, o)
      BY <1>6, <2>2, ObjectPutFacts
    <3>3. j.ok = TRUE /\ IsDom(j) /\ j.ctx = q
      BY <1>6, <3>2 DEF Around
    <3>4. DomStart(d, kind) = [j EXCEPT !.ctx[Len(d.ctx)] = n]
      BY <2>1, <3>1, <3>3, Zenon DEF DomStart, p, n, c
    <3>. HIDE DEF j
    <3>. QED
      BY <1>7, <1>9, <2>3, <3>2, <3>3, <3>4
  <2>4. CASE ~key
    <3>. DEFINE j == ArrayAppend(p, o, n)
    <3>1. ParentIs(d, "array")
      BY <1>1, <1>9, <2>1, <2>4 DEF Mirrors, Ready
    <3>2. /\ Around(p, j) /\ Keeps(p, j, o) /\ Len(j.heap) = Len(p.heap)
          /\ n \in Pointed(j.heap, o)
      BY <1>6, <2>2, ArrayAppendFacts
    <3>3. j.ok = TRUE /\ IsDom(j) /\ j.ctx = q
      BY <1>6, <3>2 DEF Around
    <3>4. DomStart(d, kind) = [j EXCEPT !.ctx[Len(d.ctx)] = n]
      BY <2>1, <3>1, <3>3, Zenon DEF DomStart, p, n, c
    <3>. HIDE DEF j
    <3>. QED
      BY <1>7, <3>2, <3>3, <3>4
  <2>. QED
    BY <2>3, <2>4
<1>. QED
  BY <1>8, <1>9

LEMMA EndPlaced ==
  ASSUME NEW d, NEW ns, NEW named, IsNest(ns), Placed(d, ns, FALSE, named), ns # <<>>,
         NEW kind, ns[Len(ns)] = kind
  PROVE  Placed(DomEnd(d, kind), Front(ns), FALSE, named)
<1>. DEFINE L == Len(ns)
            q == Front(d.ctx)
            p == [d EXCEPT !.ctx = Front(@)]
            m == Front(ns)
<1>1. /\ IsDom(d) /\ d.ok = TRUE /\ Mirrors(d, ns, FALSE, named) /\ IsSeq(ns)
      /\ IsSeq(d.ctx) /\ d.ctx # <<>> /\ Chain(d, ns, named) /\ Here(d) = NULL
  BY DEF Placed, IsNest, Mirrors, IsDom
<1>2. L \in Nat /\ L # 0 /\ L \in 1 .. L /\ Len(d.ctx) = L + 1 /\ ParentIs(d, kind)
  BY <1>1, SeqFacts, ParentFacts
<1>3. /\ IsSeq(q) /\ Len(q) = L /\ q # <<>> /\ \A i \in 1 .. L : q[i] = d.ctx[i]
  <2>1. /\ IsSeq(q) /\ Len(q) = Len(d.ctx) - 1
        /\ \A i \in 1 .. Len(d.ctx) - 1 : q[i] = d.ctx[i]
    BY <1>1, FrontFacts
  <2>2. Len(d.ctx) - 1 = L
    BY <1>2
  <2>. HIDE DEF q
  <2>. QED
    BY <1>2, <2>1, <2>2, SeqFacts
<1>4. /\ IsSeq(m) /\ Len(m) = L - 1 /\ \A i \in 1 .. L - 1 : m[i] = ns[i]
  BY <1>1, FrontFacts
<1>5. p = WithCtx(d, q)
  BY Zenon DEF WithCtx
<1>6. DomEnd(d, kind) = IF HasPrev(p) THEN SetHere(p, NULL) ELSE p
  BY <1>1, <1>2 DEF DomEnd
<1>. HIDE DEF L, q, p, m
<1>7. IsDom(p) /\ p.heap = d.heap /\ p.ok = TRUE /\ p.ctx = q
  BY ZenonT(60), <1>1, <1>3, <1>5, WithCtxFacts
<1>8. ASSUME NEW e, IsDom(e), e.heap = d.heap, e.ok = TRUE, Len(e.ctx) = L,
             \A i \in 1 .. L - 1 : e.ctx[i] = d.ctx[i], L # 1 => Here(e) = NULL
      PROVE  Placed(e, m, FALSE, named)
  <2>1. \A i \in 1 .. L - 1 : i \in 1 .. L
    BY <1>2
  <2>2. \A i \in 1 .. L - 2 : i \in 1 .. L - 1 /\ i + 1 \in 1 .. L - 1 /\ L - 1 - 1 = L - 2
    BY <1>2
  <2>3. \A i \in 1 .. L - 1 : e.ctx[i] \in 1 .. Len(e.heap) /\ e.heap[e.ctx[i]].kind = m[i]
    BY ZenonT(60), <1>1, <1>4, <1>8, <2>1 DEF Chain, L
  <2>4. \A i, j \in 1 .. L - 1 : i # j => e.ctx[i] # e.ctx[j]
    BY <1>1, <1>8, <2>1 DEF Chain, L
  <2>5. named => \A i \in 1 .. L - 2 : e.ctx[i + 1] \in Pointed(e.heap, e.ctx[i])
    BY <1>1, <1>8, <2>2 DEF Chain, L
  <2>6. Chain(e, m, named)
    <3>1. Len(m) - 1 = L - 2
      BY <1>2, <1>4
    <3>. QED
      BY <1>4, <2>3, <2>4, <2>5, <3>1 DEF Chain
  <2>7. Len(m) + 1 = L /\ (m # <<>> => L # 1)
    BY <1>2, <1>4, SeqFacts
  <2>. QED
    BY <1>8, <2>6, <2>7 DEF Placed, Mirrors
<1>9. CASE L = 1
  <2>1. ~HasPrev(p)
    <3>1. Len(p.ctx) = 1
      BY <1>3, <1>7, <1>9, Zenon
    <3>. QED
      BY <3>1 DEF HasPrev
  <2>2. \A i \in 1 .. L - 1 : p.ctx[i] = d.ctx[i]
    BY <1>9
  <2>3. Placed(p, m, FALSE, named)
    BY <1>3, <1>7, <1>8, <1>9, <2>2
  <2>. QED
    BY <1>6, <2>1, <2>3 DEF m
<1>10. CASE L # 1
  <2>. DEFINE e == SetHere(p, NULL)
  <2>1. HasPrev(p)
    BY <1>2, <1>3, <1>7, <1>10 DEF HasPrev
  <2>2. /\ IsDom(e) /\ e.heap = p.heap /\ e.ok = p.ok /\ Len(e.ctx) = Len(p.ctx)
        /\ \A i \in 1 .. Len(p.ctx) - 1 : e.ctx[i] = p.ctx[i]
        /\ Here(e) = NULL
    BY <1>7, SetHereFacts
  <2>. HIDE DEF e
  <2>3. \A i \in 1 .. L - 1 : i \in 1 .. L
    BY <1>2
  <2>4. \A i \in 1 .. L - 1 : e.ctx[i] = d.ctx[i]
    BY <1>3, <1>7, <2>2, <2>3
  <2>5. Placed(e, m, FALSE, named)
    BY <1>3, <1>7, <1>8, <2>2, <2>4
  <2>. QED
    BY <1>6, <2>1, <2>5 DEF m, e
<1>. QED
  BY <1>9, <1>10

LEMMA PlacedWeaker ==
  ASSUME NEW d, NEW ns, NEW key, NEW named, NEW less, Placed(d, ns, key, named),
         less => named
  PROVE  Placed(d, ns, key, less)
BY DEF Placed, Mirrors, Chain

(* The parse has not begun. *)
LEMMA BlankPlaced ==
  ASSUME NEW named
  PROVE  IsNest(<<>>) /\ Placed(Blank, <<>>, FALSE, named)
<1>1. IsSeq(<<>>) /\ Len(<<>>) = 0 /\ IsSeq(<<NULL>>) /\ Len(<<NULL>>) = 1 /\ <<NULL>> # <<>>
  BY EmptyIsSeq, OneIsSeq, SeqFacts
<1>2. IsNest(<<>>)
  BY <1>1 DEF IsNest
<1>3. IsDom(Blank) /\ Blank.ok = TRUE /\ Blank.ctx = <<NULL>>
  BY <1>1 DEF Blank, IsDom
<1>4. Chain(Blank, <<>>, named)
  BY <1>1 DEF Chain
<1>. QED
  BY <1>1, <1>2, <1>3, <1>4 DEF Placed, Mirrors

-------------------------------------------------------------------------------
(* What is allocated: every value is in one place.                           *)

LEMMA GreatestOf ==
  ASSUME NEW N \in Nat, NEW T, T \subseteq 1 .. N, T # {}
  PROVE  \E m \in T : \A n \in T : n <= m
<1>. DEFINE U == {N - n : n \in T}
<1>1. PICK k \in U : \A j \in U : ~(j < k)
  <2>1. \A n \in T : N - n \in Nat
    OBVIOUS
  <2>2. U \subseteq Nat /\ U # {}
    BY <2>1
  <2>. HIDE DEF U
  <2>. QED
    BY <2>2, LeastOf
<1>2. PICK m \in T : k = N - m
  BY <1>1
<1>3. \A n \in T : ~(N - n < N - m)
  BY <1>1, <1>2
<1>. QED
  BY <1>2, <1>3

(* The place i of the items of n, its key for j = 1 and its value for j = 2,
   points to the value p. *)
Points(h, n, i, j, p) ==
  /\ i \in 1 .. Len(h[n].items) /\ j \in {1, 2}
  /\ h[n].items[i][j] = p /\ p \in 1 .. Len(h)

Target(h, p) == p \in 1 .. Len(h) \/ p \in Statics \cup {NULL}

IsHeap(h) ==
  /\ IsSeq(h) /\ \A n \in 1 .. Len(h) : IsNode(h[n])
  /\ \A n \in 1 .. Len(h) : \A i \in 1 .. Len(h[n].items) : \A j \in {1, 2} :
       Target(h, h[n].items[i][j])
  /\ \A n \in 1 .. Len(h) : \A i, j, p : Points(h, n, i, j, p) => p > n

LEMMA PointedIs ==
  ASSUME NEW h, IsSeq(h), NEW n \in 1 .. Len(h), IsNode(h[n]), NEW p
  PROVE  p \in Pointed(h, n) <=> \E i, j : Points(h, n, i, j, p)
<1>1. DOMAIN h = 1 .. Len(h) /\ DOMAIN h[n].items = 1 .. Len(h[n].items)
  BY SeqFacts DEF IsNode
<1>. QED
  BY <1>1 DEF Pointed, Points

LEMMA PointedLater ==
  ASSUME NEW h, IsHeap(h), NEW n \in 1 .. Len(h), NEW p \in Pointed(h, n)
  PROVE  p \in 1 .. Len(h) /\ p > n
<1>1. PICK i, j : Points(h, n, i, j, p)
  BY PointedIs DEF IsHeap
<1>. QED
  BY <1>1 DEF IsHeap, Points

(* The values alive are closed under what they hold, each is held once, and
   the roots R by none; all are roots or held if every member has a name. *)
Tidy(h, live, R, named) ==
  /\ live \subseteq 1 .. Len(h) /\ R \subseteq live
  /\ \A n \in live : \A i, j, p : Points(h, n, i, j, p) => p \in live /\ p \notin R
  /\ \A m, n \in live : \A i, j, k, l, p :
       Points(h, m, i, j, p) /\ Points(h, n, k, l, p) => m = n /\ i = k /\ j = l
  /\ named => \A p \in live : p \in R \/ \E n \in live : \E i, j : Points(h, n, i, j, p)

(* What a value holds, by recursion from the last value to the first. *)
Reaches(h, f, m) ==
  f = [n \in (Len(h) - m + 1) .. Len(h) |-> {n} \cup UNION {f[p] : p \in Pointed(h, n)}]

LEMMA ReachesExist ==
  ASSUME NEW h, IsHeap(h), NEW m \in 0 .. Len(h)
  PROVE  \E f : Reaches(h, f, m)
<1>. DEFINE L == Len(h)
            T == {k \in 0 .. L : ~ \E f : Reaches(h, f, k)}
<1>1. SUFFICES ASSUME T # {} PROVE FALSE
  OBVIOUS
<1>2. L \in Nat /\ T \subseteq Nat
  BY SeqFacts DEF IsHeap
<1>3. PICK k \in T : \A j \in T : ~(j < k)
  <2>. HIDE DEF T
  <2>. QED
    BY <1>1, <1>2, LeastOf
<1>4. k \in 0 .. L /\ ~ \E f : Reaches(h, f, k)
  BY <1>3
<1>5. CASE k = 0
  <2>. DEFINE f == [n \in (L + 1) .. L |-> {}]
  <2>1. f = [n \in (L - 0 + 1) .. L |-> {n} \cup UNION {f[p] : p \in Pointed(h, n)}]
    BY <1>2
  <2>2. Reaches(h, f, 0)
    BY <2>1 DEF Reaches
  <2>. QED
    BY <1>4, <1>5, <2>2
<1>6. CASE k # 0
  <2>1. k - 1 \in 0 .. L /\ k - 1 < k
    BY <1>2, <1>4, <1>6
  <2>2. PICK f : Reaches(h, f, k - 1)
    BY <1>3, <2>1
  <2>. DEFINE b == L - k + 1
              g == [n \in b .. L |-> IF n = b THEN {b} \cup UNION {f[p] : p \in Pointed(h, b)}
                                     ELSE f[n]]
  <2>3. b \in 1 .. L /\ L - (k - 1) + 1 = b + 1
    BY <1>2, <1>4, <1>6
  <2>. HIDE DEF b
  <2>4. \A n \in (b + 1) .. L : f[n] = {n} \cup UNION {f[p] : p \in Pointed(h, n)}
    BY <2>2, <2>3 DEF Reaches
  <2>5. \A n \in b .. L : \A p \in Pointed(h, n) : p \in (b + 1) .. L /\ p # b
    <3>. TAKE n \in b .. L
    <3>. TAKE p \in Pointed(h, n)
    <3>1. n \in 1 .. L
      BY <1>2, <2>3
    <3>2. p \in 1 .. L /\ p > n
      BY <3>1, PointedLater
    <3>. QED
      BY <1>2, <2>3, <3>1, <3>2
  <2>6. \A n \in b .. L : \A p \in Pointed(h, n) : g[p] = f[p]
    <3>1. \A p \in (b + 1) .. L : p \in b .. L
      BY <1>2, <2>3
    <3>. QED
      BY <2>5, <3>1
  <2>7. \A n \in b .. L : {g[p] : p \in Pointed(h, n)} = {f[p] : p \in Pointed(h, n)}
    BY <2>6
  <2>8. \A n \in b .. L : g[n] = {n} \cup UNION {g[p] : p \in Pointed(h, n)}
    <3>. TAKE n \in b .. L
    <3>1. CASE n = b
      <4>1. g[n] = {b} \cup UNION {f[p] : p \in Pointed(h, b)}
        BY <3>1
      <4>. HIDE DEF g
      <4>. QED
        BY <2>7, <3>1, <4>1
    <3>2. CASE n # b
      <4>1. g[n] = f[n] /\ n \in (b + 1) .. L
        BY <1>2, <2>3, <3>2
      <4>. HIDE DEF g
      <4>. QED
        BY <2>4, <2>7, <4>1
    <3>. QED
      BY <3>1, <3>2
  <2>9. g = [n \in (L - k + 1) .. L |-> {n} \cup UNION {g[p] : p \in Pointed(h, n)}]
    <3>1. g = [n \in b .. L |-> g[n]]
      OBVIOUS
    <3>. HIDE DEF g
    <3>. QED
      BY <2>8, <3>1 DEF b
  <2>10. Reaches(h, g, k)
    BY <2>9, Zenon DEF Reaches
  <2>. QED
    BY <1>4, <2>10
<1>. QED
  BY <1>5, <1>6

LEMMA ReachIs ==
  ASSUME NEW h, IsHeap(h), NEW n \in 1 .. Len(h)
  PROVE  Reach(h)[n] = {n} \cup UNION {Reach(h)[p] : p \in Pointed(h, n)}
<1>. DEFINE R == CHOOSE R : R = [x \in DOMAIN h |-> {x} \cup UNION {R[p] : p \in Pointed(h, x)}]
<1>1. Len(h) \in Nat /\ DOMAIN h = 1 .. Len(h) /\ Len(h) - Len(h) + 1 = 1 /\ Len(h) \in 0 .. Len(h)
  BY SeqFacts DEF IsHeap
<1>2. PICK f : Reaches(h, f, Len(h))
  BY <1>1, ReachesExist
<1>3. f = [x \in DOMAIN h |-> {x} \cup UNION {f[p] : p \in Pointed(h, x)}]
  BY <1>1, <1>2, Zenon DEF Reaches
<1>4. R = [x \in DOMAIN h |-> {x} \cup UNION {R[p] : p \in Pointed(h, x)}]
  BY <1>3, Zenon
<1>5. Reach(h) = R
  BY Zenon DEF Reach
<1>. HIDE DEF R
<1>6. R[n] = {n} \cup UNION {R[p] : p \in Pointed(h, n)}
  BY <1>1, <1>4
<1>. QED
  BY <1>5, <1>6

(* A value holds itself, what it points to and nothing that was created
   before it, nor anything that nothing held points to. *)
LEMMA ReachOf ==
  ASSUME NEW h, IsHeap(h), NEW n \in 1 .. Len(h)
  PROVE  /\ n \in Reach(h)[n]
         /\ \A p \in Pointed(h, n) : Reach(h)[p] \subseteq Reach(h)[n]
         /\ \A q \in Reach(h)[n] : q = n \/ \E p \in Pointed(h, n) : q \in Reach(h)[p]
<1>. DEFINE R == Reach(h)
<1>1. R[n] = {n} \cup UNION {R[p] : p \in Pointed(h, n)}
  BY ReachIs
<1>. HIDE DEF R
<1>2. /\ n \in R[n]
      /\ \A p \in Pointed(h, n) : R[p] \subseteq R[n]
      /\ \A q \in R[n] : q = n \/ \E p \in Pointed(h, n) : q \in R[p]
  BY <1>1
<1>. QED
  BY <1>2 DEF R

LEMMA ReachFacts ==
  ASSUME NEW h, IsHeap(h), NEW n \in 1 .. Len(h)
  PROVE  \A q \in Reach(h)[n] :
           /\ q \in 1 .. Len(h) /\ q >= n
           /\ q = n \/ \E m \in Reach(h)[n] : \E i, j : Points(h, m, i, j, q)
           /\ \A i, j, p : Points(h, q, i, j, p) => p \in Reach(h)[n]
<1>. DEFINE Fine(m) == \A q \in Reach(h)[m] :
                  /\ q \in 1 .. Len(h) /\ q >= m
                  /\ q = m \/ \E x \in Reach(h)[m] : \E i, j : Points(h, x, i, j, q)
                  /\ \A i, j, p : Points(h, q, i, j, p) => p \in Reach(h)[m]
            T == {m \in 1 .. Len(h) : ~Fine(m)}
<1>1. SUFFICES ASSUME T # {} PROVE FALSE
  BY Zenon
<1>2. Len(h) \in Nat
  BY SeqFacts DEF IsHeap
<1>3. PICK m \in T : \A x \in T : x <= m
  <2>1. T \subseteq 1 .. Len(h)
    OBVIOUS
  <2>. HIDE DEF T
  <2>. QED
    BY <1>1, <1>2, <2>1, GreatestOf
<1>4. m \in 1 .. Len(h) /\ ~Fine(m)
  BY <1>3
<1>5. \A p \in Pointed(h, m) : p \in 1 .. Len(h) /\ p > m /\ Fine(p)
  <2>1. \A p \in Pointed(h, m) : p \in 1 .. Len(h) /\ p > m
    BY <1>4, PointedLater
  <2>2. \A x \in 1 .. Len(h) : x > m => x \notin T
    BY <1>2, <1>3, <1>4
  <2>3. \A x \in 1 .. Len(h) : x \notin T => Fine(x)
    OBVIOUS
  <2>. QED
    BY <2>1, <2>2, <2>3, Zenon
<1>6. /\ m \in Reach(h)[m]
      /\ \A p \in Pointed(h, m) : Reach(h)[p] \subseteq Reach(h)[m]
      /\ \A q \in Reach(h)[m] : q = m \/ \E p \in Pointed(h, m) : q \in Reach(h)[p]
  BY <1>4, ReachOf
<1>7. \A p : p \in Pointed(h, m) <=> \E i, j : Points(h, m, i, j, p)
  BY <1>4, PointedIs DEF IsHeap
<1>. HIDE DEF T
<1>8. ASSUME NEW q \in Reach(h)[m]
      PROVE  /\ q \in 1 .. Len(h) /\ q >= m
             /\ q = m \/ \E x \in Reach(h)[m] : \E i, j : Points(h, x, i, j, q)
             /\ \A i, j, p : Points(h, q, i, j, p) => p \in Reach(h)[m]
  <2>1. CASE q = m
    <3>1. \A p \in Pointed(h, m) : p \in Reach(h)[m]
      <4>. TAKE p \in Pointed(h, m)
      <4>1. p \in 1 .. Len(h)
        BY <1>5
      <4>2. p \in Reach(h)[p]
        BY <4>1, ReachOf
      <4>. QED
        BY <1>6, <4>2
    <3>. QED
      BY <1>2, <1>4, <1>7, <2>1, <3>1
  <2>2. ASSUME NEW p \in Pointed(h, m), q \in Reach(h)[p]
        PROVE  /\ q \in 1 .. Len(h) /\ q >= m
               /\ q = m \/ \E x \in Reach(h)[m] : \E i, j : Points(h, x, i, j, q)
               /\ \A i, j, y : Points(h, q, i, j, y) => y \in Reach(h)[m]
    <3>1. /\ p \in 1 .. Len(h) /\ p > m
          /\ q \in 1 .. Len(h) /\ q >= p
          /\ q = p \/ \E x \in Reach(h)[p] : \E i, j : Points(h, x, i, j, q)
          /\ \A i, j, y : Points(h, q, i, j, y) => y \in Reach(h)[p]
      BY <1>5, <2>2
    <3>2. Reach(h)[p] \subseteq Reach(h)[m]
      BY <1>6
    <3>3. q >= m
      BY <1>4, <3>1
    <3>4. q = p => \E x \in Reach(h)[m] : \E i, j : Points(h, x, i, j, q)
      BY <1>6, <1>7
    <3>. QED
      BY <3>1, <3>2, <3>3, <3>4
  <2>. QED
    BY <1>6, <2>1, <2>2
<1>. QED
  BY <1>4, <1>8

(* What a value that is alive holds is alive, and everything alive is held by
   a root. *)
LEMMA ReachAlive ==
  ASSUME NEW h, IsHeap(h), NEW live, NEW R, NEW named, Tidy(h, live, R, named),
         NEW n \in live
  PROVE  Reach(h)[n] \subseteq live
<1>. DEFINE T == {m \in 1 .. Len(h) : m \in live /\ ~(Reach(h)[m] \subseteq live)}
<1>1. live \subseteq 1 .. Len(h)
  BY DEF Tidy
<1>2. SUFFICES ASSUME T # {} PROVE FALSE
  BY <1>1
<1>3. Len(h) \in Nat
  BY SeqFacts DEF IsHeap
<1>4. PICK m \in T : \A x \in T : x <= m
  <2>1. T \subseteq 1 .. Len(h)
    OBVIOUS
  <2>. HIDE DEF T
  <2>. QED
    BY <1>2, <1>3, <2>1, GreatestOf
<1>5. m \in 1 .. Len(h) /\ m \in live /\ ~(Reach(h)[m] \subseteq live)
  BY <1>4
<1>6. \A p \in Pointed(h, m) : p \in live
  <2>1. \A p : p \in Pointed(h, m) <=> \E i, j : Points(h, m, i, j, p)
    BY <1>5, PointedIs DEF IsHeap
  <2>. QED
    BY <1>5, <2>1 DEF Tidy
<1>7. \A p \in Pointed(h, m) : Reach(h)[p] \subseteq live
  <2>1. \A p \in Pointed(h, m) : p \in 1 .. Len(h) /\ p > m
    BY <1>5, PointedLater
  <2>. QED
    BY <1>3, <1>4, <1>5, <1>6, <2>1
<1>. QED
  BY <1>5, <1>7, ReachOf

LEMMA AliveReached ==
  ASSUME NEW h, IsHeap(h), NEW live, NEW R, Tidy(h, live, R, TRUE), NEW n \in live
  PROVE  \E r \in R : n \in Reach(h)[r]
<1>. DEFINE T == {m \in live : ~ \E r \in R : m \in Reach(h)[r]}
<1>1. SUFFICES ASSUME T # {} PROVE FALSE
  OBVIOUS
<1>2. live \subseteq 1 .. Len(h) /\ Len(h) \in Nat
  BY SeqFacts DEF IsHeap, Tidy
<1>3. PICK m \in T : \A x \in T : ~(x < m)
  <2>1. \A y \in live : y \in Nat
    BY <1>2
  <2>2. T \subseteq Nat
    BY <2>1
  <2>. HIDE DEF T
  <2>. QED
    BY <1>1, <2>2, LeastOf
<1>4. m \in live /\ ~ \E r \in R : m \in Reach(h)[r]
  BY <1>3
<1>5. m \notin R
  BY <1>2, <1>4, ReachOf
<1>6. PICK x \in live : \E i, j : Points(h, x, i, j, m)
  BY <1>4, <1>5 DEF Tidy
<1>7. x < m
  BY <1>2, <1>6 DEF IsHeap, Points
<1>8. PICK r \in R : x \in Reach(h)[r]
  BY <1>3, <1>7
<1>9. r \in 1 .. Len(h)
  BY <1>2 DEF Tidy
<1>10. m \in Reach(h)[r]
  BY <1>6, <1>8, <1>9, ReachFacts
<1>. QED
  BY <1>4, <1>10

(* The item x of the container o becomes a key and a value that nothing held;
   what the item held until then, G, is freed. *)
Rewires(h, e, o, x, k, v) ==
  /\ IsSeq(e) /\ Len(e) = Len(h) /\ \A n \in 1 .. Len(h) : IsNode(e[n])
  /\ \A n \in 1 .. Len(h) : n # o => e[n].items = h[n].items
  /\ \A i : i \in 1 .. Len(e[o].items) <=> i \in 1 .. Len(h[o].items) \/ i = x
  /\ \A i \in 1 .. Len(h[o].items) : i # x => e[o].items[i] = h[o].items[i]
  /\ e[o].items[x] = <<k, v>>

Frees(h, live, o, x, G) ==
  /\ G \subseteq live /\ \A q \in G : q > o
  /\ \A n \in G : \A i, j, p : Points(h, n, i, j, p) => p \in G
  /\ \A q \in G : \/ \E j : Points(h, o, x, j, q)
                  \/ \E n \in G : \E i, j : Points(h, n, i, j, q)
  /\ \A j, p : Points(h, o, x, j, p) => p \in G

(* An address that nothing held, created after o *)
Loose(h, R, o, p) ==
  Target(h, p) /\ (p \in 1 .. Len(h) => p \in R /\ p > o)

LEMMA RewiredPoints ==
  ASSUME NEW h, NEW e, NEW o \in 1 .. Len(h), NEW x, NEW k, NEW v, Rewires(h, e, o, x, k, v),
         NEW n \in 1 .. Len(h), NEW i, NEW j, NEW p
  PROVE  Points(e, n, i, j, p) <=>
           \/ (n # o \/ i # x) /\ Points(h, n, i, j, p)
           \/ /\ n = o /\ i = x /\ p \in 1 .. Len(h)
              /\ (j = 1 /\ p = k) \/ (j = 2 /\ p = v)
<1>1. Len(e) = Len(h)
  BY DEF Rewires
<1>2. CASE n # o
  BY <1>1, <1>2 DEF Rewires, Points
<1>3. CASE n = o /\ i # x
  BY <1>1, <1>3 DEF Rewires, Points
<1>4. CASE n = o /\ i = x
  <2>1. e[o].items[x][1] = k /\ e[o].items[x][2] = v /\ x \in 1 .. Len(e[o].items)
    BY DEF Rewires
  <2>. QED
    BY <1>1, <1>4, <2>1 DEF Points
<1>. QED
  BY <1>2, <1>3, <1>4

LEMMA RewiredHeap ==
  ASSUME NEW h, NEW e, NEW o \in 1 .. Len(h), NEW x, NEW k, NEW v, Rewires(h, e, o, x, k, v),
         IsHeap(h), NEW R, Loose(h, R, o, k), Loose(h, R, o, v)
  PROVE  IsHeap(e)
<1>1. Len(e) = Len(h) /\ IsSeq(e) /\ \A n \in 1 .. Len(h) : IsNode(e[n])
  BY DEF Rewires
<1>2. \A p : Target(e, p) <=> Target(h, p)
  BY <1>1 DEF Target
<1>3. ASSUME NEW n \in 1 .. Len(h), NEW i \in 1 .. Len(e[n].items), NEW j \in {1, 2}
      PROVE  Target(h, e[n].items[i][j])
  <2>1. CASE n # o
    BY <1>3, <2>1 DEF Rewires, IsHeap
  <2>2. CASE n = o /\ i # x
    BY <1>3, <2>2 DEF Rewires, IsHeap
  <2>3. CASE n = o /\ i = x
    <3>1. e[o].items[x][1] = k /\ e[o].items[x][2] = v
      BY DEF Rewires
    <3>. QED
      BY <2>3, <3>1 DEF Loose
  <2>. QED
    BY <2>1, <2>2, <2>3
<1>4. ASSUME NEW n \in 1 .. Len(h), NEW i, NEW j, NEW p, Points(e, n, i, j, p)
      PROVE  p > n
  <2>1. CASE Points(h, n, i, j, p)
    BY <2>1 DEF IsHeap
  <2>2. CASE n = o /\ p \in 1 .. Len(h) /\ (p = k \/ p = v)
    BY <2>2 DEF Loose
  <2>. QED
    BY <1>4, <2>1, <2>2, RewiredPoints
<1>. QED
  BY <1>1, <1>2, <1>3, <1>4 DEF IsHeap

LEMMA Rewired ==
  ASSUME NEW h, NEW e, NEW o, NEW x, NEW k, NEW v, Rewires(h, e, o, x, k, v),
         NEW live, NEW R, NEW named, Tidy(h, live, R, named), o \in live,
         NEW G, Frees(h, live, o, x, G),
         Loose(h, R, o, k), Loose(h, R, o, v), k \in 1 .. Len(h) => k # v
  PROVE  Tidy(e, live \ G, R \ {k, v}, named)
<1>1. live \subseteq 1 .. Len(h) /\ R \subseteq live /\ Len(e) = Len(h) /\ o \in 1 .. Len(h)
  BY DEF Tidy, Rewires
<1>2. /\ \A n \in live : \A i, j, p : Points(h, n, i, j, p) => p \in live /\ p \notin R
      /\ \A m, n \in live : \A i, j, y, l, p :
           Points(h, m, i, j, p) /\ Points(h, n, y, l, p) => m = n /\ i = y /\ j = l
      /\ named => \A p \in live : p \in R \/ \E n \in live : \E i, j : Points(h, n, i, j, p)
  BY DEF Tidy
<1>3. /\ G \subseteq live
      /\ \A n \in G : \A i, j, p : Points(h, n, i, j, p) => p \in G
      /\ \A q \in G : \/ \E j : Points(h, o, x, j, q)
                      \/ \E n \in G : \E i, j : Points(h, n, i, j, q)
      /\ \A j, p : Points(h, o, x, j, p) => p \in G
  BY DEF Frees
<1>4. o \notin G
  BY <1>1 DEF Frees
<1>5. \A q \in G : q \notin R
  BY <1>2, <1>3
<1>6. \A n \in live : \A i, j, p : Points(e, n, i, j, p) <=>
           \/ (n # o \/ i # x) /\ Points(h, n, i, j, p)
           \/ /\ n = o /\ i = x /\ p \in 1 .. Len(h)
              /\ (j = 1 /\ p = k) \/ (j = 2 /\ p = v)
  BY <1>1, RewiredPoints
<1>7. /\ k \in 1 .. Len(h) => k \in R /\ k # v
      /\ v \in 1 .. Len(h) => v \in R
  BY DEF Loose
<1>8. \A n \in live \ G : \A i, j, p : Points(e, n, i, j, p) =>
         p \in live \ G /\ p \notin R \ {k, v}
  <2>. SUFFICES ASSUME NEW n \in live \ G, NEW i, NEW j, NEW p, Points(e, n, i, j, p)
                PROVE  p \in live \ G /\ p \notin R \ {k, v}
    OBVIOUS
  <2>1. CASE (n # o \/ i # x) /\ Points(h, n, i, j, p)
    <3>1. p \in live /\ p \notin R
      BY <1>2, <2>1
    <3>2. p \notin G
      BY <1>2, <1>3, <2>1
    <3>. QED
      BY <3>1, <3>2
  <2>2. CASE n = o /\ p \in 1 .. Len(h) /\ (p = k \/ p = v)
    BY <1>1, <1>5, <1>7, <2>2
  <2>. QED
    BY <1>6, <2>1, <2>2
<1>9. \A m, n \in live \ G : \A i, j, y, l, p :
         Points(e, m, i, j, p) /\ Points(e, n, y, l, p) => m = n /\ i = y /\ j = l
  <2>. SUFFICES ASSUME NEW m \in live \ G, NEW n \in live \ G, NEW i, NEW j, NEW y, NEW l,
                       NEW p, Points(e, m, i, j, p), Points(e, n, y, l, p)
                PROVE  m = n /\ i = y /\ j = l
    OBVIOUS
  <2>1. CASE Points(h, m, i, j, p) /\ Points(h, n, y, l, p)
    BY <1>2, <2>1
  <2>2. p = k \/ p = v => p \notin 1 .. Len(h) \/ p \in R
    BY <1>7
  <2>3. Points(h, m, i, j, p) \/ Points(h, n, y, l, p) => p \in live /\ p \notin R
    BY <1>2
  <2>. QED
    BY <1>1, <1>6, <1>7, <2>1, <2>2, <2>3
<1>10. ASSUME named, NEW p \in live \ G
       PROVE  \/ p \in R \ {k, v}
              \/ \E n \in live \ G : \E i, j : Points(e, n, i, j, p)
  <2>1. CASE p \in {k, v}
    <3>1. Points(e, o, x, 1, p) \/ Points(e, o, x, 2, p)
      BY <1>1, <1>6, <2>1
    <3>. QED
      BY <1>4, <3>1
  <2>2. CASE p \notin R
    <3>1. PICK n \in live : \E i, j : Points(h, n, i, j, p)
      BY <1>2, <1>10, <2>2
    <3>2. PICK i, j : Points(h, n, i, j, p)
      BY <3>1
    <3>3. n \notin G /\ (n # o \/ i # x)
      BY <1>3, <1>10, <3>2
    <3>4. Points(e, n, i, j, p)
      BY <1>6, <3>2, <3>3
    <3>. QED
      BY <3>3, <3>4
  <2>. QED
    BY <2>1, <2>2
<1>11. live \ G \subseteq 1 .. Len(e) /\ R \ {k, v} \subseteq live \ G
  BY <1>1, <1>5
<1>. QED
  BY <1>8, <1>9, <1>10, <1>11 DEF Tidy

(* What is below the item x of o is all that its release frees. *)
Under(d, o, x) ==
  UNION {Below(d, n) : n \in {d.heap[o].items[x][1], d.heap[o].items[x][2]}}

LEMMA FreedBelow ==
  ASSUME NEW d, IsHeap(d.heap), NEW R, NEW named, Tidy(d.heap, d.live, R, named),
         NEW o \in d.live, NEW x \in 1 .. Len(d.heap[o].items)
  PROVE  Frees(d.heap, d.live, o, x, Under(d, o, x))
<1>. DEFINE h == d.heap
            c == {h[o].items[x][1], h[o].items[x][2]}
            G == UNION {Below(d, n) : n \in c}
<1>1. IsSeq(h) /\ DOMAIN h = 1 .. Len(h) /\ Len(h) \in Nat /\ d.live \subseteq 1 .. Len(h)
  BY SeqFacts DEF IsHeap, Tidy
<1>2. \A n \in c : n \in 1 .. Len(h) => \E j : Points(h, o, x, j, n)
  BY DEF Points
<1>3. \A j, p : Points(h, o, x, j, p) => p \in c /\ p \in 1 .. Len(h)
  BY DEF Points
<1>. HIDE DEF c
<1>4. ASSUME NEW n \in c, n \in 1 .. Len(h)
      PROVE  /\ n \in d.live /\ n > o
             /\ n \in Reach(h)[n] /\ Reach(h)[n] \subseteq d.live
             /\ \A q \in Reach(h)[n] :
                  /\ q \in 1 .. Len(h) /\ q >= n
                  /\ q = n \/ \E m \in Reach(h)[n] : \E i, j : Points(h, m, i, j, q)
                  /\ \A i, j, p : Points(h, q, i, j, p) => p \in Reach(h)[n]
  <2>1. n \in d.live /\ n > o
    BY <1>1, <1>2, <1>4 DEF Tidy, IsHeap
  <2>. QED
    BY <1>4, <2>1, ReachOf, ReachFacts, ReachAlive
<1>5. \A n \in c : Below(d, n) = IF n \in 1 .. Len(h) THEN Reach(h)[n] ELSE {}
  BY <1>1 DEF Below
<1>6. \A q : q \in G <=> \E n \in c : n \in 1 .. Len(h) /\ q \in Reach(h)[n]
  BY <1>5
<1>. HIDE DEF G, h
<1>7. G \subseteq d.live
  BY <1>4, <1>6
<1>8. \A q \in G : q > o
  <2>. SUFFICES ASSUME NEW q \in G PROVE q > o
    OBVIOUS
  <2>1. PICK n \in c : n \in 1 .. Len(h) /\ q \in Reach(h)[n]
    BY <1>6
  <2>2. n > o /\ q \in 1 .. Len(h) /\ q >= n /\ o \in 1 .. Len(h)
    BY <1>1, <1>4, <2>1
  <2>. QED
    BY <1>1, <2>1, <2>2
<1>9. \A n \in G : \A i, j, p : Points(h, n, i, j, p) => p \in G
  BY <1>4, <1>6
<1>10. \A q \in G : \/ \E j : Points(h, o, x, j, q)
                    \/ \E n \in G : \E i, j : Points(h, n, i, j, q)
  <2>. SUFFICES ASSUME NEW q \in G
                PROVE  \/ \E j : Points(h, o, x, j, q)
                       \/ \E n \in G : \E i, j : Points(h, n, i, j, q)
    OBVIOUS
  <2>1. PICK n \in c : n \in 1 .. Len(h) /\ q \in Reach(h)[n]
    BY <1>6
  <2>2. Reach(h)[n] \subseteq G
    BY <1>6, <2>1
  <2>3. q = n \/ \E m \in Reach(h)[n] : \E i, j : Points(h, m, i, j, q)
    BY <1>4, <2>1
  <2>. QED
    BY <1>2, <2>1, <2>2, <2>3
<1>11. \A j, p : Points(h, o, x, j, p) => p \in G
  BY <1>3, <1>4, <1>6
<1>12. Frees(h, d.live, o, x, G)
  BY <1>7, <1>8, <1>9, <1>10, <1>11 DEF Frees
<1>. QED
  BY <1>12 DEF G, h, c, Under

(* The heap of d is one, and its values are in one place each. *)
Fit(d, R, named) == IsDom(d) /\ IsHeap(d.heap) /\ Tidy(d.heap, d.live, R, named)

LEMMA CreateFit ==
  ASSUME NEW d, NEW R, NEW named, Fit(d, R, named), NEW kind, NEW text
  PROVE  LET c == Create(d, kind, text)
         IN  /\ Fit(c, R \cup {Fresh(d)}, named)
             /\ d.live \subseteq c.live /\ Fresh(d) \in 1 .. Len(c.heap)
             /\ Fresh(d) = Len(d.heap) + 1 /\ Len(c.heap) = Len(d.heap) + 1
<1>. DEFINE c == Create(d, kind, text)
            f == Fresh(d)
<1>1. IsDom(d) /\ IsHeap(d.heap) /\ Tidy(d.heap, d.live, R, named)
  BY DEF Fit
<1>2. /\ IsDom(c) /\ Len(c.heap) = Len(d.heap) + 1
      /\ \A n \in 1 .. Len(d.heap) : c.heap[n] = d.heap[n]
      /\ c.heap[f].items = <<>> /\ c.live = d.live \cup {f}
  BY <1>1, CreateFacts DEF Around
<1>3. f = Len(d.heap) + 1 /\ Len(d.heap) \in Nat /\ Len(<<>>) = 0
  BY <1>1, Addresses, EmptyIsSeq DEF Fresh
<1>. HIDE DEF c, f
<1>. DEFINE h == d.heap
            e == c.heap
<1>4. \A n \in 1 .. Len(e) : n \in 1 .. Len(h) \/ n = f
  BY <1>2, <1>3
<1>5. IsSeq(e) /\ \A n \in 1 .. Len(e) : IsNode(e[n])
  BY <1>2 DEF IsDom
<1>6. \A n \in 1 .. Len(e) : \A i \in 1 .. Len(e[n].items) :
        n \in 1 .. Len(h) /\ i \in 1 .. Len(h[n].items) /\ e[n].items = h[n].items
  BY SMTT(40), <1>2, <1>3, <1>4
<1>7. \A p : Target(h, p) => Target(e, p)
  BY <1>2, <1>3 DEF Target
<1>8. \A n \in 1 .. Len(h) : \A i \in 1 .. Len(h[n].items) : \A j \in {1, 2} :
        Target(h, h[n].items[i][j])
  BY <1>1 DEF IsHeap
<1>9. \A n \in 1 .. Len(e) : \A i, j, p : Points(e, n, i, j, p) =>
        n \in 1 .. Len(h) /\ Points(h, n, i, j, p)
  <2>. SUFFICES ASSUME NEW n \in 1 .. Len(e), NEW i, NEW j, NEW p, Points(e, n, i, j, p)
                PROVE  n \in 1 .. Len(h) /\ Points(h, n, i, j, p)
    OBVIOUS
  <2>1. /\ i \in 1 .. Len(e[n].items) /\ j \in {1, 2} /\ e[n].items[i][j] = p
        /\ p \in 1 .. Len(e)
    BY DEF Points
  <2>2. n \in 1 .. Len(h) /\ i \in 1 .. Len(h[n].items) /\ h[n].items[i][j] = p
    BY <1>6, <2>1
  <2>3. Target(h, p)
    BY <1>8, <2>1, <2>2
  <2>4. p \notin Statics /\ p # NULL
    <3>1. p \in Nat
      BY <1>2, <1>3, <2>1
    <3>. QED
      BY <3>1, DomConstants DEF Statics
  <2>. QED
    BY <2>1, <2>2, <2>3, <2>4 DEF Points, Target
<1>10. \A n \in 1 .. Len(h) : \A i, j, p : Points(h, n, i, j, p) => Points(e, n, i, j, p)
  BY SMTT(40), <1>2, <1>3 DEF Points
<1>11. IsHeap(e)
  <2>1. \A n \in 1 .. Len(e) : \A i \in 1 .. Len(e[n].items) : \A j \in {1, 2} :
          Target(e, e[n].items[i][j])
    BY <1>6, <1>7, <1>8
  <2>2. \A n \in 1 .. Len(e) : \A i, j, p : Points(e, n, i, j, p) => p > n
    BY <1>1, <1>9 DEF IsHeap
  <2>. QED
    BY <1>5, <2>1, <2>2 DEF IsHeap
<1>12. Tidy(e, c.live, R \cup {f}, named)
  <2>. DEFINE live == d.live
  <2>1. /\ live \subseteq 1 .. Len(h) /\ R \subseteq live
        /\ \A n \in live : \A i, j, p : Points(h, n, i, j, p) => p \in live /\ p \notin R
        /\ \A m, n \in live : \A i, j, k, l, p :
             Points(h, m, i, j, p) /\ Points(h, n, k, l, p) => m = n /\ i = k /\ j = l
        /\ named => \A p \in live : p \in R \/ \E n \in live : \E i, j : Points(h, n, i, j, p)
    BY <1>1 DEF Tidy
  <2>2. f \notin 1 .. Len(h) /\ f \in 1 .. Len(e) /\ \A n \in 1 .. Len(h) : n \in 1 .. Len(e)
    BY <1>2, <1>3
  <2>. HIDE DEF h, e, live
  <2>3. c.live = live \cup {f} /\ c.live \subseteq 1 .. Len(e) /\ R \cup {f} \subseteq c.live
    BY <1>2, <2>1, <2>2 DEF live
  <2>4. \A n \in c.live : \A i, j, p : Points(e, n, i, j, p) => n \in live /\ Points(h, n, i, j, p)
    BY <1>9, <2>2, <2>3
  <2>5. \A n \in c.live : \A i, j, p : Points(e, n, i, j, p) =>
          p \in c.live /\ p \notin R \cup {f}
    <3>. SUFFICES ASSUME NEW n \in c.live, NEW i, NEW j, NEW p, Points(e, n, i, j, p)
                  PROVE  p \in c.live /\ p \notin R \cup {f}
      OBVIOUS
    <3>1. p \in live /\ p \notin R
      BY ZenonT(60), <2>1, <2>4
    <3>. QED
      BY <2>1, <2>2, <2>3, <3>1
  <2>6. \A m, n \in c.live : \A i, j, k, l, p :
             Points(e, m, i, j, p) /\ Points(e, n, k, l, p) => m = n /\ i = k /\ j = l
    <3>. SUFFICES ASSUME NEW m \in c.live, NEW n \in c.live, NEW i, NEW j, NEW k, NEW l, NEW p,
                         Points(e, m, i, j, p), Points(e, n, k, l, p)
                  PROVE  m = n /\ i = k /\ j = l
      OBVIOUS
    <3>1. m \in live /\ n \in live /\ Points(h, m, i, j, p) /\ Points(h, n, k, l, p)
      BY <2>4
    <3>. QED
      BY <2>1, <3>1
  <2>7. named => \A p \in c.live : p \in R \cup {f} \/ \E n \in c.live : \E i, j : Points(e, n, i, j, p)
    <3>. SUFFICES ASSUME named, NEW p \in live, p \notin R
                  PROVE  \E n \in c.live : \E i, j : Points(e, n, i, j, p)
      BY <2>3
    <3>1. PICK n \in live : \E i, j : Points(h, n, i, j, p)
      BY <2>1
    <3>. QED
      BY <1>10, <2>1, <2>3, <3>1
  <2>. QED
    BY <2>3, <2>5, <2>6, <2>7 DEF Tidy
<1>13. Fit(c, R \cup {f}, named)
  BY <1>2, <1>11, <1>12 DEF Fit
<1>. QED
  BY <1>2, <1>3, <1>13 DEF c, f

LEMMA CreateScalarFit ==
  ASSUME NEW d, NEW R, NEW named, Fit(d, R, named), NEW s
  PROVE  LET c == CreateScalar(d, s)
             v == ScalarAt(d, s)
         IN  /\ Fit(c, R \cup ({v} \cap 1 .. Len(c.heap)), named)
             /\ d.live \subseteq c.live /\ Target(c.heap, v)
             /\ v \in 1 .. Len(c.heap) => v = Len(d.heap) + 1
<1>1. CASE s \in Statics
  <2>1. CreateScalar(d, s) = d /\ ScalarAt(d, s) = s
    BY <1>1 DEF CreateScalar, ScalarAt
  <2>2. s \notin Nat
    BY <1>1, DomConstants DEF Statics
  <2>3. s \notin 1 .. Len(d.heap) /\ R \cup ({s} \cap 1 .. Len(d.heap)) = R
    BY <2>2
  <2>4. Target(d.heap, s) /\ Fit(d, R \cup ({s} \cap 1 .. Len(d.heap)), named)
    BY <1>1, <2>3 DEF Target
  <2>. QED
    BY <2>1, <2>3, <2>4
<1>2. CASE s \notin Statics
  <2>. DEFINE kind == IF s \in Strings \cup Names THEN "string" ELSE "other"
              c    == Create(d, kind, s)
  <2>1. CreateScalar(d, s) = c /\ ScalarAt(d, s) = Fresh(d)
    BY <1>2 DEF CreateScalar, ScalarAt
  <2>. HIDE DEF kind
  <2>2. /\ Fit(c, R \cup {Fresh(d)}, named)
        /\ d.live \subseteq c.live /\ Fresh(d) \in 1 .. Len(c.heap)
        /\ Fresh(d) = Len(d.heap) + 1
    BY CreateFit
  <2>. HIDE DEF c
  <2>3. {Fresh(d)} \cap 1 .. Len(c.heap) = {Fresh(d)}
    BY <2>2
  <2>. QED
    BY <2>1, <2>2, <2>3 DEF Target
<1>. QED
  BY <1>1, <1>2

LEMMA TidyWeaker ==
  ASSUME NEW h, NEW live, NEW R, NEW named, Tidy(h, live, R, named),
         NEW S \in SUBSET R, NEW less, less => named /\ S = R
  PROVE  Tidy(h, live, S, less)
BY DEF Tidy

(* Only the item x of o is another one in c. *)
LEMMA WithItemsFit ==
  ASSUME NEW d, NEW R, NEW named, Fit(d, R, named), NEW o \in d.live, NEW items, IsSeq(items),
         NEW x, NEW k, NEW v, items[x] = <<k, v>>,
         \A i : i \in 1 .. Len(items) <=> i \in 1 .. Len(d.heap[o].items) \/ i = x,
         \A i \in 1 .. Len(d.heap[o].items) : i # x => items[i] = d.heap[o].items[i],
         Loose(d.heap, R, o, k), Loose(d.heap, R, o, v), k \in 1 .. Len(d.heap) => k # v,
         NEW G, Frees(d.heap, d.live, o, x, G),
         NEW e, IsDom(e), e.heap = d.heap, e.live = d.live \ G
  PROVE  Fit(WithItems(e, o, items), R \ {k, v}, named)
<1>. DEFINE c == WithItems(e, o, items)
<1>1. /\ IsDom(d) /\ IsHeap(d.heap) /\ Tidy(d.heap, d.live, R, named)
      /\ o \in 1 .. Len(d.heap)
  BY DEF Fit, Tidy
<1>2. /\ IsDom(c) /\ Keeps(e, c, o) /\ Len(c.heap) = Len(e.heap)
      /\ c.heap[o].items = items /\ c.live = e.live
  BY <1>1, WithItemsFacts DEF Around
<1>. HIDE DEF c
<1>3. Rewires(d.heap, c.heap, o, x, k, v)
  <2>1. IsSeq(c.heap) /\ \A n \in 1 .. Len(d.heap) : IsNode(c.heap[n])
    BY <1>2 DEF IsDom
  <2>2. \A n \in 1 .. Len(d.heap) : n # o => c.heap[n].items = d.heap[n].items
    BY <1>2 DEF Keeps
  <2>. QED
    BY <1>2, <2>1, <2>2 DEF Rewires
<1>4. IsHeap(c.heap)
  BY <1>1, <1>3, RewiredHeap
<1>5. Tidy(c.heap, c.live, R \ {k, v}, named)
  BY <1>1, <1>2, <1>3, Rewired
<1>. QED
  BY <1>2, <1>4, <1>5 DEF Fit, c

Adding(d, o, k, v) == WithItems(d, o, Append(d.heap[o].items, <<k, v>>))

LEMMA AppendFit ==
  ASSUME NEW d, NEW R, NEW named, Fit(d, R, named), NEW o \in d.live, NEW k, NEW v,
         Loose(d.heap, R, o, k), Loose(d.heap, R, o, v), k \in 1 .. Len(d.heap) => k # v
  PROVE  Fit(Adding(d, o, k, v), R \ {k, v}, named) /\ Adding(d, o, k, v).live = d.live
<1>. DEFINE old   == d.heap[o].items
            x     == Len(old) + 1
            items == Append(old, <<k, v>>)
<1>1. IsDom(d) /\ o \in 1 .. Len(d.heap)
  BY DEF Fit, Tidy
<1>2. IsSeq(old) /\ Len(old) \in Nat
  BY <1>1, SeqFacts DEF IsDom, IsNode
<1>3. /\ IsSeq(items) /\ Len(items) = x /\ items[x] = <<k, v>>
      /\ \A i \in 1 .. Len(old) : items[i] = old[i]
  BY <1>2, AppendFacts
<1>4. Frees(d.heap, d.live, o, x, {})
  BY SMTT(40), <1>2 DEF Frees, Points
<1>5. d.live = d.live \ {}
  OBVIOUS
<1>. HIDE DEF items
<1>6. \A i : i \in 1 .. Len(items) <=> i \in 1 .. Len(old) \/ i = x
  <2>. HIDE DEF old
  <2>. QED
    BY <1>2, <1>3
<1>. HIDE DEF x
<1>7. Fit(WithItems(d, o, items), R \ {k, v}, named)
  BY <1>1, <1>3, <1>4, <1>6, <1>5, WithItemsFit
<1>8. WithItems(d, o, items).live = d.live
  BY <1>1, <1>3, WithItemsFacts
<1>. QED
  BY <1>7, <1>8 DEF items, Adding

LEMMA ArrayAppendFit ==
  ASSUME NEW d, NEW R, NEW named, Fit(d, R, named), NEW o \in d.live, NEW v,
         Loose(d.heap, R, o, v)
  PROVE  Fit(ArrayAppend(d, o, v), R \ {v}, named) /\ ArrayAppend(d, o, v).live = d.live
<1>1. ArrayAppend(d, o, v) = Adding(d, o, NULL, v)
  BY Zenon DEF ArrayAppend, WithItems, Adding
<1>2. Len(d.heap) \in Nat /\ R \subseteq 1 .. Len(d.heap)
  BY Addresses DEF Fit, Tidy
<1>3. NULL \notin 1 .. Len(d.heap) /\ R \ {NULL, v} = R \ {v}
  <2>1. NULL \notin Nat
    BY DomConstants
  <2>2. NULL \notin 1 .. Len(d.heap)
    BY <1>2, <2>1
  <2>. QED
    BY <1>2, <2>2
<1>4. Loose(d.heap, R, o, NULL)
  BY <1>3 DEF Loose, Target
<1>5. NULL \in 1 .. Len(d.heap) => NULL # v
  BY <1>3
<1>6. Fit(Adding(d, o, NULL, v), R \ {NULL, v}, named) /\ Adding(d, o, NULL, v).live = d.live
  BY <1>4, <1>5, AppendFit
<1>. QED
  BY <1>1, <1>3, <1>6

LEMMA ObjectPutFit ==
  ASSUME NEW d, NEW R, NEW named, Fit(d, R, named), NEW o \in d.live, NEW k, NEW v,
         Loose(d.heap, R, o, k), Loose(d.heap, R, o, v), k \in 1 .. Len(d.heap) => k # v,
         named => k # Empty
  PROVE  LET c == ObjectPut(d, o, k, v)
         IN  /\ Fit(c, R \ {k, v}, named)
             /\ \A n \in d.live : n <= o \/ n \in R => n \in c.live
<1>1. \A x \in 1 .. Len(d.heap[o].items) :
        Frees(d.heap, d.live, o, x, Under(d, o, x))
  BY FreedBelow DEF Fit
<1>. DEFINE items == d.heap[o].items
            same  == {i \in DOMAIN items : TextAt(d, items[i][1]) = TextAt(d, k)}
            c     == ObjectPut(d, o, k, v)
<1>2. /\ IsDom(d) /\ o \in 1 .. Len(d.heap) /\ d.live \subseteq 1 .. Len(d.heap)
      /\ IsHeap(d.heap) /\ Tidy(d.heap, d.live, R, named)
      /\ \A n \in d.live : \A i, j, p : Points(d.heap, n, i, j, p) => p \notin R
  BY DEF Fit, Tidy
<1>3. IsSeq(items) /\ Len(items) \in Nat /\ DOMAIN items = 1 .. Len(items)
  BY <1>2, SeqFacts DEF IsDom, IsNode
<1>4. CASE k = Empty
  <2>1. c = d
    BY <1>4 DEF ObjectPut
  <2>2. Tidy(d.heap, d.live, R \ {k, v}, named)
    BY <1>2, <1>4, TidyWeaker
  <2>. QED
    BY <1>2, <2>1, <2>2 DEF Fit
<1>5. CASE k # Empty /\ same = {}
  <2>1. c = Adding(d, o, k, v)
    BY <1>5, Zenon DEF ObjectPut, WithItems, Adding
  <2>. HIDE DEF c
  <2>2. Fit(Adding(d, o, k, v), R \ {k, v}, named) /\ Adding(d, o, k, v).live = d.live
    BY AppendFit
  <2>. QED
    BY <2>1, <2>2 DEF c
<1>6. CASE k # Empty /\ same # {}
  <2>. DEFINE i   == CHOOSE i \in same : TRUE
              G   == Under(d, o, i)
              e   == Release(d, {items[i][1], items[i][2]})
              new == With(items, i, <<k, v>>)
  <2>1. i \in 1 .. Len(items)
    BY SMTT(40), <1>3, <1>6
  <2>2. c = [e EXCEPT !.heap[o].items[i] = <<k, v>>]
    BY <1>6, Zenon DEF ObjectPut
  <2>. HIDE DEF i
  <2>3. IsDom(e) /\ e.heap = d.heap /\ e.live = d.live \ G
    BY <1>2, ReleaseFacts DEF Around, Under
  <2>4. Frees(d.heap, d.live, o, i, G)
    BY <1>1, <2>1, Zenon
  <2>. HIDE DEF e, G
  <2>5. [e EXCEPT !.heap[o].items[i] = <<k, v>>]
          = [e EXCEPT !.heap[o].items = [e.heap[o].items EXCEPT ![i] = <<k, v>>]]
    <3>1. e = [heap |-> e.heap, live |-> e.live, ctx |-> e.ctx, ok |-> e.ok]
      BY <2>3 DEF IsDom
    <3>. QED
      BY <3>1, SMT
  <2>6. [e.heap[o].items EXCEPT ![i] = <<k, v>>] = new
    BY <2>3, Zenon DEF With
  <2>7. c = WithItems(e, o, new)
    BY <2>2, <2>5, <2>6, Zenon DEF WithItems
  <2>8. /\ IsSeq(new) /\ Len(new) = Len(items) /\ new[i] = <<k, v>>
        /\ \A j \in 1 .. Len(items) : j # i => new[j] = items[j]
    BY <1>3, <2>1, WithFacts
  <2>9. \A j : j \in 1 .. Len(new) <=> j \in 1 .. Len(items) \/ j = i
    BY <2>1, <2>8
  <2>. HIDE DEF new, c
  <2>10. Fit(c, R \ {k, v}, named)
    BY <2>3, <2>4, <2>7, <2>8, <2>9, WithItemsFit
  <2>11. c.live = d.live \ G
    BY <1>2, <2>3, <2>7, <2>8, WithItemsFacts
  <2>12. \A n \in d.live : n <= o => n \notin G
    <3>1. \A q \in G : q > o /\ q \in 1 .. Len(d.heap)
      BY <1>2, <2>4 DEF Frees
    <3>2. Len(d.heap) \in Nat
      BY <1>2, Addresses
    <3>. QED
      BY <1>2, <3>1, <3>2
  <2>13. \A n \in R : n \notin G
    BY <1>2, <2>4 DEF Frees
  <2>. QED
    BY <2>10, <2>11, <2>12, <2>13 DEF c
<1>. QED
  BY <1>4, <1>5, <1>6

(* Nothing holds the value of the top-level context, nor the key that waits. *)
Roots(d) == {d.ctx[1], Here(d)} \cap 1 .. Len(d.heap)

(* Ownership as the handlers see it: a container was created after the one it
   is in, and a key after its object. *)
Kept(d, ns, named) ==
  /\ Fit(d, Roots(d), named)
  /\ \A i \in 1 .. Len(ns) : d.ctx[i] \in d.live
  /\ \A i, j \in 1 .. Len(ns) : i < j => d.ctx[i] < d.ctx[j]
  /\ Target(d.heap, Here(d))
  /\ ns # <<>> /\ Here(d) \in 1 .. Len(d.heap) => Here(d) > d.ctx[Len(ns)]
  /\ ns = <<>> => Here(d) \in d.live \cup {NULL}

LEMMA NoAddress ==
  ASSUME NEW d, IsDom(d)
  PROVE  NULL \notin 1 .. Len(d.heap) /\ Empty \notin 1 .. Len(d.heap)
<1>1. \A p \in 1 .. Len(d.heap) : p \in Nat
  BY Addresses
<1>. QED
  BY <1>1, DomConstants

LEMMA InnerFacts ==
  ASSUME NEW d, NEW ns, NEW named, IsDom(d), IsNest(ns), ns # <<>>, Kept(d, ns, named),
         Len(d.ctx) = Len(ns) + 1, NEW o, o = d.ctx[Len(ns)]
  PROVE  /\ o \in d.live /\ d.live \subseteq 1 .. Len(d.heap) /\ Len(d.heap) \in Nat
         /\ \A i \in 1 .. Len(ns) : d.ctx[i] \in d.live /\ d.ctx[i] <= o
         /\ d.ctx[1] \in 1 .. Len(d.heap) /\ d.ctx[1] <= o
         /\ Roots(d) = {d.ctx[1]} \cup ({Here(d)} \cap 1 .. Len(d.heap))
         /\ Here(d) \in 1 .. Len(d.heap) => Here(d) > o /\ Here(d) # d.ctx[1]
<1>. DEFINE L == Len(ns)
<1>1. L \in Nat /\ L # 0
  BY SeqFacts DEF IsNest
<1>2. L \in 1 .. L /\ 1 \in 1 .. L /\ \A i \in 1 .. L : i < L \/ i = L
  BY <1>1
<1>3. /\ d.live \subseteq 1 .. Len(d.heap) /\ Len(d.heap) \in Nat
      /\ \A i \in 1 .. L : d.ctx[i] \in d.live
      /\ \A i, j \in 1 .. L : i < j => d.ctx[i] < d.ctx[j]
      /\ Here(d) \in 1 .. Len(d.heap) => Here(d) > d.ctx[L]
  BY Addresses DEF Kept, Fit, Tidy
<1>. HIDE DEF L
<1>4. \A i \in 1 .. L : d.ctx[i] \in 1 .. Len(d.heap)
  BY <1>3
<1>5. \A i \in 1 .. L : d.ctx[i] <= d.ctx[L]
  BY <1>2, <1>3, <1>4
<1>6. o = d.ctx[L]
  BY DEF L
<1>7. d.ctx[1] \in 1 .. Len(d.heap) /\ d.ctx[1] <= o
  BY <1>2, <1>4, <1>5, <1>6
<1>8. Here(d) \in 1 .. Len(d.heap) => Here(d) > o /\ Here(d) # d.ctx[1]
  BY <1>2, <1>3, <1>4, <1>6, <1>7
<1>9. Roots(d) = {d.ctx[1]} \cup ({Here(d)} \cap 1 .. Len(d.heap))
  BY <1>7 DEF Roots
<1>. QED
  BY <1>2, <1>3, <1>4, <1>5, <1>6, <1>7, <1>8, <1>9 DEF L

(* The containers of ns stay, each in its context, and another value may wait. *)
LEMMA KeptAgain ==
  ASSUME NEW d, NEW ns, NEW named, IsDom(d), IsNest(ns), ns # <<>>, Kept(d, ns, named),
         Len(d.ctx) = Len(ns) + 1,
         NEW e, IsDom(e), Len(e.ctx) = Len(d.ctx), Len(d.heap) <= Len(e.heap),
         \A i \in 1 .. Len(ns) : e.ctx[i] = d.ctx[i],
         \A n \in d.live : n <= d.ctx[Len(ns)] => n \in e.live,
         Fit(e, {d.ctx[1]} \cup ({Here(e)} \cap 1 .. Len(e.heap)), named),
         Target(e.heap, Here(e)),
         Here(e) \in 1 .. Len(e.heap) => Here(e) > d.ctx[Len(ns)]
  PROVE  Kept(e, ns, named)
<1>. DEFINE L == Len(ns)
            o == d.ctx[L]
<1>1. /\ \A i \in 1 .. L : d.ctx[i] \in d.live /\ d.ctx[i] <= o
      /\ d.ctx[1] \in 1 .. Len(d.heap) /\ Len(d.heap) \in Nat
  BY InnerFacts
<1>2. L \in Nat /\ L # 0 /\ Len(e.heap) \in Nat
  BY SeqFacts, Addresses DEF IsNest
<1>3. 1 \in 1 .. L /\ L \in 1 .. L
  BY <1>2
<1>4. e.ctx[1] = d.ctx[1] /\ e.ctx[1] \in 1 .. Len(e.heap)
  BY <1>1, <1>2, <1>3
<1>5. Roots(e) = {d.ctx[1]} \cup ({Here(e)} \cap 1 .. Len(e.heap))
  BY <1>4 DEF Roots
<1>6. Fit(e, Roots(e), named)
  BY <1>5
<1>7. \A i \in 1 .. L : e.ctx[i] \in e.live
  BY <1>1
<1>8. \A i, j \in 1 .. L : i < j => e.ctx[i] < e.ctx[j]
  BY DEF Kept
<1>. QED
  BY <1>3, <1>6, <1>7, <1>8 DEF Kept

LEMMA ScalarKept ==
  ASSUME NEW d, NEW ns, NEW key, NEW named, IsNest(ns), Placed(d, ns, key, named),
         Ready(ns, key), NEW s, Kept(d, ns, named), key /\ named => Here(d) # Empty
  PROVE  Kept(DomScalar(d, s), ns, named)
<1>. DEFINE c == CreateScalar(d, s)
            v == ScalarAt(d, s)
            o == Parent(d)
            R == Roots(d) \cup ({v} \cap 1 .. Len(c.heap))
<1>1. IsDom(d) /\ d.ok = TRUE /\ Mirrors(d, ns, key, named) /\ ns # <<>> /\ IsSeq(ns)
  BY DEF Placed, Ready, IsNest
<1>2. /\ Len(ns) \in Nat /\ Len(d.ctx) = Len(ns) + 1
      /\ HasPrev(d) /\ o = d.ctx[Len(ns)]
      /\ \A kind : ParentIs(d, kind) <=> ns[Len(ns)] = kind
  BY <1>1, ParentFacts
<1>3. /\ o \in d.live /\ d.live \subseteq 1 .. Len(d.heap) /\ Len(d.heap) \in Nat
      /\ d.ctx[1] \in 1 .. Len(d.heap) /\ d.ctx[1] <= o
      /\ Roots(d) = {d.ctx[1]} \cup ({Here(d)} \cap 1 .. Len(d.heap))
      /\ Here(d) \in 1 .. Len(d.heap) => Here(d) > o /\ Here(d) # d.ctx[1]
  BY <1>1, <1>2, InnerFacts
<1>4. /\ Fit(c, R, named) /\ d.live \subseteq c.live /\ Target(c.heap, v)
      /\ v \in 1 .. Len(c.heap) => v = Len(d.heap) + 1
  BY CreateScalarFit DEF Kept
<1>5. Around(d, c) /\ Len(d.heap) <= Len(c.heap) /\ Len(c.heap) \in Nat
  BY <1>1, CreateScalarFacts, Addresses DEF Around, Keeps
<1>. HIDE DEF c, v, o, R
<1>6. Loose(c.heap, R, o, v)
  BY <1>3, <1>4, <1>5 DEF Loose, R
<1>7. o \in c.live
  BY <1>3, <1>4
<1>8. ASSUME NEW e, IsDom(e), Len(e.ctx) = Len(d.ctx), Len(e.heap) = Len(c.heap),
             \A i \in 1 .. Len(ns) : e.ctx[i] = d.ctx[i], Here(e) = NULL,
             \A n \in c.live : n <= o => n \in e.live,
             Fit(e, {d.ctx[1]}, named)
      PROVE  Kept(e, ns, named)
  <2>1. Here(e) \notin 1 .. Len(e.heap)
    BY <1>8, NoAddress
  <2>2. {d.ctx[1]} \cup ({Here(e)} \cap 1 .. Len(e.heap)) = {d.ctx[1]}
    BY <2>1
  <2>3. Fit(e, {d.ctx[1]} \cup ({Here(e)} \cap 1 .. Len(e.heap)), named)
    BY <1>8, <2>2
  <2>4. Target(e.heap, Here(e))
    BY <1>8 DEF Target
  <2>5. \A n \in d.live : n <= d.ctx[Len(ns)] => n \in e.live
    BY <1>2, <1>4, <1>8
  <2>. QED
    BY <1>1, <1>2, <1>5, <1>8, <2>1, <2>3, <2>4, <2>5, KeptAgain
<1>9. CASE key
  <2>. DEFINE k == Here(d)
              p == ObjectPut(c, o, k, v)
              e == SetHere(p, NULL)
  <2>1. HasKey(d) /\ ParentIs(d, "object") /\ ~ParentIs(d, "array")
    BY <1>1, <1>2, <1>9 DEF Mirrors, Ready
  <2>2. DomScalar(d, s) = e
    BY <1>2, <2>1 DEF DomScalar, c, v, o
  <2>3. Target(d.heap, k) /\ (named => k # Empty)
    BY <1>9 DEF Kept
  <2>. HIDE DEF k
  <2>4. k \in 1 .. Len(c.heap) => k \in 1 .. Len(d.heap)
    <3>1. IsDom(c)
      BY <1>5 DEF Around
    <3>2. \A q \in 1 .. Len(c.heap) : q \in Nat
      BY <1>5
    <3>. QED
      BY <2>3, <3>2, DomConstants DEF Target, Statics
  <2>5. Loose(c.heap, R, o, k)
    <3>1. Target(c.heap, k)
      BY <1>3, <1>5, <2>3 DEF Target
    <3>. QED
      BY <1>3, <2>4, <3>1 DEF Loose, R, k
  <2>6. k \in 1 .. Len(c.heap) => k # v
    BY <1>3, <1>4, <2>4
  <2>7. Fit(p, R \ {k, v}, named) /\ \A n \in c.live : n <= o => n \in p.live
    BY <1>4, <1>6, <1>7, <2>3, <2>5, <2>6, ObjectPutFit
  <2>8. R \ {k, v} = {d.ctx[1]}
    <3>1. d.ctx[1] # k /\ d.ctx[1] # v
      BY <1>3, <1>4, <1>5 DEF k
    <3>. QED
      BY <1>3, <1>5, <2>4, <3>1 DEF R, k
  <2>9. Around(c, p) /\ Len(p.heap) = Len(c.heap)
    <3>1. o \in 1 .. Len(c.heap) /\ IsDom(c)
      BY <1>4, <1>7 DEF Fit, Tidy
    <3>. QED
      BY <3>1, ObjectPutFacts
  <2>. HIDE DEF p
  <2>10. IsDom(p) /\ p.ctx = d.ctx
    BY <1>5, <2>9 DEF Around
  <2>11. /\ IsDom(e) /\ e.heap = p.heap /\ Len(e.ctx) = Len(p.ctx) /\ e.live = p.live
         /\ \A j \in 1 .. Len(p.ctx) - 1 : e.ctx[j] = p.ctx[j]
         /\ Here(e) = NULL
    BY <2>10, SetHereFacts
  <2>. HIDE DEF e
  <2>12. Fit(e, {d.ctx[1]}, named)
    BY <2>7, <2>8, <2>11 DEF Fit
  <2>13. \A i \in 1 .. Len(ns) : e.ctx[i] = d.ctx[i]
    BY <1>2, <2>10, <2>11
  <2>. QED
    BY <1>8, <2>2, <2>7, <2>9, <2>10, <2>11, <2>12, <2>13
<1>10. CASE ~key
  <2>. DEFINE e == ArrayAppend(c, o, v)
  <2>1. Here(d) = NULL /\ ParentIs(d, "array")
    BY <1>1, <1>2, <1>10 DEF Mirrors, Ready
  <2>2. DomScalar(d, s) = e
    BY <1>2, <2>1 DEF DomScalar, c, v, o
  <2>3. Fit(e, R \ {v}, named) /\ e.live = c.live
    BY <1>4, <1>6, <1>7, ArrayAppendFit
  <2>4. R \ {v} = {d.ctx[1]}
    <3>1. Here(d) \notin 1 .. Len(d.heap)
      BY <1>1, <2>1, NoAddress
    <3>2. d.ctx[1] # v
      BY <1>3, <1>4, <1>5
    <3>. QED
      BY <1>3, <3>1, <3>2 DEF R
  <2>5. Around(c, e) /\ Len(e.heap) = Len(c.heap)
    <3>1. o \in 1 .. Len(c.heap) /\ IsDom(c)
      BY <1>4, <1>7 DEF Fit, Tidy
    <3>. QED
      BY <3>1, ArrayAppendFacts
  <2>. HIDE DEF e
  <2>6. IsDom(e) /\ e.ctx = d.ctx
    BY <1>5, <2>5 DEF Around
  <2>7. Here(e) = NULL
    BY <2>1, <2>6 DEF Here
  <2>. QED
    BY <1>8, <2>2, <2>3, <2>4, <2>5, <2>6, <2>7
<1>. QED
  BY <1>9, <1>10

LEMMA KeyKept ==
  ASSUME NEW d, NEW ns, NEW named, IsNest(ns), Placed(d, ns, FALSE, named),
         ns # <<>>, ns[Len(ns)] = "object", NEW k, Kept(d, ns, named)
  PROVE  Kept(DomKey(d, k), ns, named)
<1>. DEFINE c == CreateScalar(d, k)
            v == ScalarAt(d, k)
            e == SetHere(c, v)
<1>1. IsDom(d) /\ Mirrors(d, ns, FALSE, named) /\ IsSeq(ns) /\ Here(d) = NULL
  BY DEF Placed, IsNest, Mirrors
<1>2. /\ Len(ns) \in Nat /\ Len(d.ctx) = Len(ns) + 1
      /\ HasPrev(d) /\ ParentIs(d, "object")
  BY <1>1, ParentFacts
<1>3. DomKey(d, k) = e
  BY <1>1, <1>2 DEF DomKey
<1>4. /\ d.live \subseteq 1 .. Len(d.heap) /\ Len(d.heap) \in Nat
      /\ d.ctx[Len(ns)] \in d.live
      /\ Roots(d) = {d.ctx[1]} \cup ({Here(d)} \cap 1 .. Len(d.heap))
  BY <1>1, <1>2, InnerFacts
<1>5. /\ Fit(c, Roots(d) \cup ({v} \cap 1 .. Len(c.heap)), named)
      /\ d.live \subseteq c.live /\ Target(c.heap, v)
      /\ v \in 1 .. Len(c.heap) => v = Len(d.heap) + 1
  BY CreateScalarFit DEF Kept
<1>6. Around(d, c) /\ Len(d.heap) <= Len(c.heap) /\ Len(c.heap) \in Nat
  BY <1>1, CreateScalarFacts, Addresses DEF Around, Keeps
<1>. HIDE DEF c, v
<1>7. /\ IsDom(e) /\ e.heap = c.heap /\ Len(e.ctx) = Len(c.ctx) /\ e.live = c.live
      /\ \A j \in 1 .. Len(c.ctx) - 1 : e.ctx[j] = c.ctx[j]
      /\ Here(e) = v
  BY <1>6, SetHereFacts DEF Around
<1>. HIDE DEF e
<1>8. Roots(d) = {d.ctx[1]}
  <2>1. Here(d) \notin 1 .. Len(d.heap)
    BY <1>1, NoAddress
  <2>. QED
    BY <1>4, <2>1
<1>9. Fit(e, {d.ctx[1]} \cup ({Here(e)} \cap 1 .. Len(e.heap)), named)
  BY <1>5, <1>7, <1>8 DEF Fit
<1>10. \A i \in 1 .. Len(ns) : e.ctx[i] = d.ctx[i]
  BY <1>2, <1>6, <1>7 DEF Around
<1>11. Here(e) \in 1 .. Len(e.heap) => Here(e) > d.ctx[Len(ns)]
  BY <1>4, <1>5, <1>7
<1>12. Len(e.ctx) = Len(d.ctx)
  BY <1>6, <1>7 DEF Around
<1>. QED
  BY <1>1, <1>2, <1>3, <1>5, <1>6, <1>7, <1>9, <1>10, <1>11, <1>12, KeptAgain

(* One more container is open. *)
LEMMA KeptExtended ==
  ASSUME NEW ns, IsNest(ns), NEW kind, NEW named, NEW e, IsDom(e),
         Len(e.ctx) = Len(ns) + 2, Here(e) = NULL, NEW n, e.ctx[Len(ns) + 1] = n,
         \A i \in 1 .. Len(ns) + 1 : e.ctx[i] \in e.live,
         \A i, j \in 1 .. Len(ns) : i < j => e.ctx[i] < e.ctx[j],
         \A i \in 1 .. Len(ns) : e.ctx[i] < n,
         Fit(e, {e.ctx[1]}, named)
  PROVE  Kept(e, Append(ns, kind), named)
<1>. DEFINE m == Append(ns, kind)
            L == Len(ns)
<1>1. L \in Nat /\ Len(m) = L + 1 /\ IsSeq(m)
  BY SeqFacts, AppendFacts DEF IsNest
<1>2. m # <<>>
  BY <1>1, SeqFacts
<1>. HIDE DEF m
<1>3. Here(e) \notin 1 .. Len(e.heap)
  BY NoAddress
<1>4. e.live \subseteq 1 .. Len(e.heap)
  BY DEF Fit, Tidy
<1>5. 1 \in 1 .. L + 1 /\ e.ctx[1] \in 1 .. Len(e.heap)
  BY <1>1, <1>4
<1>6. Roots(e) = {e.ctx[1]}
  BY <1>3, <1>5 DEF Roots
<1>7. \A i, j \in 1 .. L + 1 : i < j => e.ctx[i] < e.ctx[j]
  <2>1. \A i, j \in 1 .. L + 1 : i < j => i \in 1 .. L /\ (j \in 1 .. L \/ j = L + 1)
    BY <1>1
  <2>. QED
    BY <2>1
<1>8. Target(e.heap, Here(e))
  BY DEF Target
<1>9. Kept(e, m, named)
  BY <1>1, <1>2, <1>3, <1>6, <1>7, <1>8 DEF Kept
<1>. QED
  BY <1>9 DEF m

LEMMA StartKept ==
  ASSUME NEW d, NEW ns, NEW key, NEW named, IsNest(ns), Placed(d, ns, key, named),
         ns = <<>> \/ Ready(ns, key), NEW kind,
         named /\ key /\ ns # <<>> => Here(d) # Empty,
         Kept(d, ns, named), ns = <<>> => Here(d) = NULL
  PROVE  Kept(DomStart(d, kind), Append(ns, kind), named)
<1>. DEFINE c == Create(d, kind, NULL)
            n == Fresh(d)
            q == Append(d.ctx, NULL)
            p == [c EXCEPT !.ctx = Append(@, NULL)]
            L == Len(ns)
            o == d.ctx[L]
            R == Roots(d) \cup {n}
<1>1. /\ IsDom(d) /\ d.ok = TRUE /\ Mirrors(d, ns, key, named) /\ IsSeq(ns)
      /\ L \in Nat /\ (ns = <<>> <=> L = 0) /\ Len(d.ctx) = L + 1 /\ IsSeq(d.ctx)
  BY SeqFacts DEF Placed, IsNest, Mirrors, IsDom
<1>2. /\ Fit(c, R, named) /\ d.live \subseteq c.live /\ n \in 1 .. Len(c.heap)
      /\ n = Len(d.heap) + 1 /\ Len(c.heap) = Len(d.heap) + 1 /\ Len(d.heap) \in Nat
      /\ n \in c.live
  <2>1. n \in c.live
    BY <1>1, CreateFacts
  <2>. HIDE DEF c, n
  <2>. QED
    BY ZenonT(60), <1>1, <2>1, CreateFit, Addresses DEF Kept, c, n
<1>3. /\ IsSeq(q) /\ Len(q) = L + 2 /\ q # <<>> /\ q[L + 2] = NULL
      /\ \A i \in 1 .. L + 1 : q[i] = d.ctx[i]
  <2>1. /\ IsSeq(q) /\ Len(q) = Len(d.ctx) + 1 /\ q[Len(d.ctx) + 1] = NULL
        /\ \A i \in 1 .. Len(d.ctx) : q[i] = d.ctx[i]
    BY <1>1, AppendFacts
  <2>. HIDE DEF q
  <2>2. L + 1 + 1 = L + 2 /\ L + 2 # 0
    BY <1>1
  <2>3. Len(q) = L + 2 /\ q[L + 2] = NULL /\ \A i \in 1 .. L + 1 : q[i] = d.ctx[i]
    BY <1>1, <2>1, <2>2
  <2>. QED
    BY <2>1, <2>2, <2>3, SeqFacts
<1>4. Around(d, c)
  BY <1>1, CreateFacts
<1>. HIDE DEF c
<1>5. p = WithCtx(c, q)
  BY <1>4, Zenon DEF WithCtx, Around
<1>. HIDE DEF p, q, n, L, o, R
<1>6. IsDom(p) /\ p.heap = c.heap /\ p.ok = TRUE /\ p.ctx = q /\ p.live = c.live
  BY ZenonT(60), <1>1, <1>3, <1>4, <1>5, WithCtxFacts DEF Around
<1>7. Fit(p, R, named)
  BY <1>2, <1>6 DEF Fit
<1>8. ASSUME NEW j, IsDom(j), j.ctx = q,
             \A i \in 1 .. L : d.ctx[i] \in j.live,
             \A x, y \in 1 .. L : x < y => d.ctx[x] < d.ctx[y],
             \A i \in 1 .. L : d.ctx[i] < n, n \in j.live,
             Fit(j, {IF L = 0 THEN n ELSE d.ctx[1]}, named),
             DomStart(d, kind) = [j EXCEPT !.ctx[Len(d.ctx)] = n]
      PROVE  Kept(DomStart(d, kind), Append(ns, kind), named)
  <2>. DEFINE e == [j EXCEPT !.ctx[Len(d.ctx)] = n]
              x == L + 1
  <2>1. x \in 1 .. Len(j.ctx) /\ Len(d.ctx) = x
    BY <1>1, <1>3, <1>8
  <2>2. e = [j EXCEPT !.ctx[x] = n]
    BY <2>1
  <2>. HIDE DEF x
  <2>3. /\ IsDom(e) /\ e.heap = j.heap /\ e.live = j.live
        /\ Len(e.ctx) = Len(j.ctx) /\ e.ctx[x] = n
        /\ \A i \in 1 .. Len(j.ctx) : i # x => e.ctx[i] = j.ctx[i]
    <3>1. IsDom(j)
      BY <1>8
    <3>. QED
      BY <2>1, <2>2, <3>1, CtxReplaced
  <2>. HIDE DEF e
  <2>4. /\ Len(e.ctx) = L + 2 /\ e.ctx[L + 2] = NULL /\ e.ctx[L + 1] = n
        /\ \A i \in 1 .. L : e.ctx[i] = d.ctx[i]
    <3>1. L + 2 \in 1 .. Len(j.ctx) /\ L + 2 # x /\ Len(j.ctx) = L + 2
      BY <1>1, <1>3, <1>8 DEF x
    <3>2. \A i \in 1 .. L : i \in 1 .. Len(j.ctx) /\ i # x /\ i \in 1 .. L + 1
      BY <1>1, <3>1 DEF x
    <3>3. e.ctx[L + 2] = NULL
      BY <1>3, <1>8, <2>3, <3>1
    <3>4. \A i \in 1 .. L : e.ctx[i] = d.ctx[i]
      BY <1>3, <1>8, <2>3, <3>2
    <3>. QED
      BY <2>3, <3>1, <3>3, <3>4 DEF x
  <2>5. Here(e) = NULL
    BY <1>1, <2>4 DEF Here
  <2>6. e.ctx[1] = IF L = 0 THEN n ELSE d.ctx[1]
    <3>1. L # 0 => 1 \in 1 .. L
      BY <1>1
    <3>. QED
      BY <1>1, <2>4, <3>1
  <2>7. Fit(e, {e.ctx[1]}, named)
    BY <1>8, <2>3, <2>6 DEF Fit
  <2>8. \A i \in 1 .. L + 1 : e.ctx[i] \in e.live
    <3>1. \A i \in 1 .. L + 1 : i \in 1 .. L \/ i = L + 1
      BY <1>1
    <3>. QED
      BY <1>8, <2>3, <2>4, <3>1
  <2>9. \A i \in 1 .. L : e.ctx[i] < n
    BY <1>8, <2>4
  <2>10. \A i, y \in 1 .. L : i < y => e.ctx[i] < e.ctx[y]
    BY <1>8, <2>4
  <2>11. Kept(e, Append(ns, kind), named)
    BY <2>3, <2>4, <2>5, <2>7, <2>8, <2>9, <2>10, KeptExtended DEF L
  <2>. QED
    BY <1>8, <2>11 DEF e
<1>9. CASE ns = <<>>
  <2>1. ~HasPrev(d) /\ L = 0
    BY <1>1, <1>9 DEF HasPrev
  <2>2. DomStart(d, kind) = [p EXCEPT !.ctx[Len(d.ctx)] = n]
    BY <1>6, <2>1, Zenon DEF DomStart, p, n, c
  <2>3. Here(d) = d.ctx[1]
    BY <1>1, <2>1 DEF Here
  <2>4. Roots(d) = {}
    BY <1>1, <1>9, <2>3, NoAddress DEF Roots
  <2>5. Fit(p, {IF L = 0 THEN n ELSE d.ctx[1]}, named)
    BY <1>7, <2>1, <2>4 DEF R
  <2>6. \A i \in 1 .. L : FALSE
    BY <2>1
  <2>. QED
    BY <1>2, <1>6, <1>8, <2>2, <2>5, <2>6
<1>10. CASE ns # <<>>
  <2>1. /\ HasPrev(d) /\ Parent(d) = o
        /\ \A knd : ParentIs(d, knd) <=> ns[Len(ns)] = knd
    BY <1>1, <1>10, ParentFacts DEF L, o
  <2>2. /\ o \in d.live /\ d.live \subseteq 1 .. Len(d.heap)
        /\ \A i \in 1 .. L : d.ctx[i] \in d.live /\ d.ctx[i] <= o
        /\ d.ctx[1] \in 1 .. Len(d.heap)
        /\ Roots(d) = {d.ctx[1]} \cup ({Here(d)} \cap 1 .. Len(d.heap))
        /\ Here(d) \in 1 .. Len(d.heap) => Here(d) > o /\ Here(d) # d.ctx[1]
    BY <1>1, <1>10, InnerFacts DEF L, o
  <2>3. \A x, y \in 1 .. L : x < y => d.ctx[x] < d.ctx[y]
    BY DEF Kept, L
  <2>4. \A i \in 1 .. L : d.ctx[i] < n
    <3>1. \A i \in 1 .. L : d.ctx[i] \in 1 .. Len(d.heap)
      BY <2>2
    <3>. QED
      BY <1>2, <3>1
  <2>5. Loose(p.heap, R, o, n) /\ o \in p.live
    <3>1. n > o
      BY <1>2, <2>2
    <3>. QED
      BY <1>2, <1>6, <2>2, <3>1 DEF Loose, Target, R
  <2>6. \A i \in 1 .. L : d.ctx[i] \in p.live
    BY <1>2, <1>6, <2>2
  <2>7. L # 0
    BY <1>1, <1>10
  <2>8. CASE key
    <3>. DEFINE k == Here(d)
                j == ObjectPut(p, o, k, n)
    <3>1. HasKey(d) /\ ~ParentIs(d, "array")
      BY <1>1, <1>10, <2>1, <2>8 DEF Mirrors, Ready
    <3>2. Around(p, j)
      BY <1>2, <1>6, <2>2, ObjectPutFacts
    <3>3. j.ok = TRUE /\ IsDom(j) /\ j.ctx = q
      BY <1>6, <3>2 DEF Around
    <3>4. DomStart(d, kind) = [j EXCEPT !.ctx[Len(d.ctx)] = n]
      BY <2>1, <3>1, <3>3, Zenon DEF DomStart, p, n, c
    <3>5. Target(d.heap, k) /\ (named => k # Empty)
      BY <1>10, <2>8 DEF Kept
    <3>. HIDE DEF k
    <3>6. k \in 1 .. Len(p.heap) => k \in 1 .. Len(d.heap)
      <4>1. \A y \in 1 .. Len(p.heap) : y \in Nat
        BY <1>2, <1>6
      <4>. QED
        BY <3>5, <4>1, DomConstants DEF Target, Statics
    <3>7. k \in 1 .. Len(p.heap) => k # n
      BY <1>2, <3>6
    <3>8. Loose(p.heap, R, o, k)
      <4>1. Target(p.heap, k)
        BY <1>2, <1>6, <3>5 DEF Target
      <4>. QED
        BY <2>2, <3>6, <4>1 DEF Loose, R, k
    <3>9. Fit(j, R \ {k, n}, named) /\ \A y \in p.live : y <= o \/ y \in R => y \in j.live
      BY <1>7, <2>5, <3>5, <3>7, <3>8, ObjectPutFit
    <3>10. R \ {k, n} = {d.ctx[1]}
      <4>1. d.ctx[1] # k /\ d.ctx[1] # n
        BY <1>2, <2>2 DEF k
      <4>. QED
        BY <1>2, <2>2, <4>1 DEF R, k
    <3>. HIDE DEF j
    <3>11. n \in j.live /\ \A i \in 1 .. L : d.ctx[i] \in j.live
      BY <1>2, <1>6, <2>2, <2>6, <3>9 DEF R
    <3>12. Fit(j, {IF L = 0 THEN n ELSE d.ctx[1]}, named)
      BY <2>7, <3>9, <3>10
    <3>. QED
      BY <1>8, <2>3, <2>4, <3>3, <3>4, <3>11, <3>12
  <2>9. CASE ~key
    <3>. DEFINE j == ArrayAppend(p, o, n)
    <3>1. ParentIs(d, "array") /\ Here(d) = NULL
      BY <1>1, <1>10, <2>1, <2>9 DEF Mirrors, Ready
    <3>2. Around(p, j)
      BY <1>2, <1>6, <2>2, ArrayAppendFacts
    <3>3. j.ok = TRUE /\ IsDom(j) /\ j.ctx = q
      BY <1>6, <3>2 DEF Around
    <3>4. DomStart(d, kind) = [j EXCEPT !.ctx[Len(d.ctx)] = n]
      BY <2>1, <3>1, <3>3, Zenon DEF DomStart, p, n, c
    <3>5. Fit(j, R \ {n}, named) /\ j.live = p.live
      BY ZenonT(60), <1>7, <2>5, ArrayAppendFit
    <3>6. R \ {n} = {d.ctx[1]}
      <4>1. Here(d) \notin 1 .. Len(d.heap)
        BY <1>1, <3>1, NoAddress
      <4>2. d.ctx[1] # n
        BY <1>2, <2>2
      <4>. QED
        BY <2>2, <4>1, <4>2 DEF R
    <3>. HIDE DEF j
    <3>7. n \in j.live
      BY <1>2, <1>6, <3>5
    <3>8. Fit(j, {IF L = 0 THEN n ELSE d.ctx[1]}, named)
      BY <2>7, <3>5, <3>6
    <3>. QED
      BY <1>8, <2>3, <2>4, <2>6, <3>3, <3>4, <3>5, <3>7, <3>8
  <2>. QED
    BY <2>8, <2>9
<1>. QED
  BY <1>9, <1>10

LEMMA EndKept ==
  ASSUME NEW d, NEW ns, NEW named, IsNest(ns), Placed(d, ns, FALSE, named), ns # <<>>,
         NEW kind, ns[Len(ns)] = kind, Kept(d, ns, named)
  PROVE  Kept(DomEnd(d, kind), Front(ns), named)
<1>. DEFINE L == Len(ns)
            q == Front(d.ctx)
            p == [d EXCEPT !.ctx = Front(@)]
            m == Front(ns)
<1>1. /\ IsDom(d) /\ Mirrors(d, ns, FALSE, named) /\ IsSeq(ns)
      /\ IsSeq(d.ctx) /\ d.ctx # <<>> /\ Here(d) = NULL
  BY DEF Placed, IsNest, Mirrors, IsDom
<1>2. L \in Nat /\ L # 0 /\ L \in 1 .. L /\ Len(d.ctx) = L + 1 /\ ParentIs(d, kind)
  BY <1>1, SeqFacts, ParentFacts
<1>3. /\ IsSeq(q) /\ Len(q) = L /\ q # <<>> /\ \A i \in 1 .. L : q[i] = d.ctx[i]
  <2>1. /\ IsSeq(q) /\ Len(q) = Len(d.ctx) - 1
        /\ \A i \in 1 .. Len(d.ctx) - 1 : q[i] = d.ctx[i]
    BY <1>1, FrontFacts
  <2>2. Len(d.ctx) - 1 = L
    BY <1>2
  <2>. HIDE DEF q
  <2>. QED
    BY <1>2, <2>1, <2>2, SeqFacts
<1>4. /\ IsSeq(m) /\ Len(m) = L - 1
  BY <1>1, FrontFacts
<1>5. p = WithCtx(d, q)
  BY Zenon DEF WithCtx
<1>6. DomEnd(d, kind) = IF HasPrev(p) THEN SetHere(p, NULL) ELSE p
  BY <1>1, <1>2 DEF DomEnd
<1>7. /\ d.live \subseteq 1 .. Len(d.heap)
      /\ \A i \in 1 .. L : d.ctx[i] \in d.live
      /\ \A i, j \in 1 .. L : i < j => d.ctx[i] < d.ctx[j]
      /\ d.ctx[1] \in 1 .. Len(d.heap)
      /\ Roots(d) = {d.ctx[1]} \cup ({Here(d)} \cap 1 .. Len(d.heap))
  BY <1>1, <1>2, InnerFacts DEF Kept
<1>8. Fit(d, {d.ctx[1]}, named)
  <2>1. Here(d) \notin 1 .. Len(d.heap)
    BY <1>1, NoAddress
  <2>2. Roots(d) = {d.ctx[1]}
    BY <1>7, <2>1
  <2>. QED
    BY <2>2 DEF Kept
<1>. HIDE DEF L, q, p, m
<1>9. IsDom(p) /\ p.heap = d.heap /\ p.ctx = q /\ p.live = d.live
  BY ZenonT(60), <1>1, <1>3, <1>5, WithCtxFacts
<1>10. ASSUME NEW e, IsDom(e), e.heap = d.heap, e.live = d.live, Len(e.ctx) = L,
              \A i \in 1 .. L - 1 : e.ctx[i] = d.ctx[i],
              IF L = 1 THEN Here(e) = d.ctx[1] ELSE Here(e) = NULL
       PROVE  Kept(e, m, named)
  <2>1. \A i \in 1 .. L - 1 : i \in 1 .. L
    BY <1>2
  <2>2. e.ctx[1] = d.ctx[1]
    <3>1. L = 1 => Here(e) = e.ctx[1]
      BY <1>10 DEF Here
    <3>2. L # 1 => 1 \in 1 .. L - 1
      BY <1>2
    <3>. QED
      BY <1>10, <3>1, <3>2
  <2>3. L # 1 => Here(e) \notin 1 .. Len(e.heap)
    BY <1>10, NoAddress
  <2>4. Roots(e) = {d.ctx[1]}
    BY <1>7, <1>10, <2>2, <2>3 DEF Roots
  <2>5. Fit(e, Roots(e), named)
    BY <1>8, <1>10, <2>4 DEF Fit
  <2>6. \A i \in 1 .. Len(m) : e.ctx[i] \in e.live
    BY <1>4, <1>7, <1>10, <2>1
  <2>7. \A i, j \in 1 .. Len(m) : i < j => e.ctx[i] < e.ctx[j]
    BY <1>4, <1>7, <1>10, <2>1
  <2>8. m = <<>> <=> L = 1
    BY <1>2, <1>4, SeqFacts
  <2>9. Target(e.heap, Here(e))
    BY <1>7, <1>10 DEF Target
  <2>10. d.ctx[1] \in d.live
    <3>1. 1 \in 1 .. L
      BY <1>2
    <3>. QED
      BY <1>7, <3>1
  <2>. QED
    BY <1>10, <2>3, <2>5, <2>6, <2>7, <2>8, <2>9, <2>10 DEF Kept
<1>11. CASE L = 1
  <2>1. ~HasPrev(p) /\ Here(p) = d.ctx[1]
    <3>1. Len(p.ctx) = 1 /\ p.ctx[1] = d.ctx[1]
      BY <1>3, <1>9, <1>11
    <3>. QED
      BY <3>1 DEF HasPrev, Here
  <2>2. \A i \in 1 .. L - 1 : p.ctx[i] = d.ctx[i]
    BY <1>11
  <2>3. Kept(p, m, named)
    BY <1>3, <1>9, <1>10, <1>11, <2>1, <2>2
  <2>. QED
    BY <1>6, <2>1, <2>3 DEF m
<1>12. CASE L # 1
  <2>. DEFINE e == SetHere(p, NULL)
  <2>1. HasPrev(p)
    BY <1>2, <1>3, <1>9, <1>12 DEF HasPrev
  <2>2. /\ IsDom(e) /\ e.heap = p.heap /\ e.live = p.live /\ Len(e.ctx) = Len(p.ctx)
        /\ \A i \in 1 .. Len(p.ctx) - 1 : e.ctx[i] = p.ctx[i]
        /\ Here(e) = NULL
    BY <1>9, SetHereFacts
  <2>. HIDE DEF e
  <2>3. \A i \in 1 .. L - 1 : i \in 1 .. L
    BY <1>2
  <2>4. \A i \in 1 .. L - 1 : e.ctx[i] = d.ctx[i]
    BY <1>3, <1>9, <2>2, <2>3
  <2>5. Kept(e, m, named)
    BY <1>3, <1>9, <1>10, <1>12, <2>2, <2>4
  <2>. QED
    BY <1>6, <2>1, <2>5 DEF m, e
<1>. QED
  BY <1>11, <1>12

LEMMA KeptWeaker ==
  ASSUME NEW d, NEW ns, NEW named, NEW less, Kept(d, ns, named), less => named
  PROVE  Kept(d, ns, less)
<1>1. Fit(d, Roots(d), less)
  BY TidyWeaker DEF Kept, Fit
<1>. QED
  BY <1>1 DEF Kept

LEMMA BlankKept ==
  ASSUME NEW named
  PROVE  Kept(Blank, <<>>, named)
<1>1. Blank.heap = <<>> /\ Blank.live = {} /\ Blank.ctx = <<NULL>> /\ IsDom(Blank)
  BY BlankPlaced DEF Placed, Blank
<1>2. Len(<<>>) = 0 /\ IsSeq(<<>>) /\ Here(Blank) = NULL
  BY <1>1, EmptyIsSeq DEF Here
<1>3. IsHeap(Blank.heap)
  BY <1>1, <1>2 DEF IsHeap
<1>4. Roots(Blank) = {}
  BY <1>1, <1>2 DEF Roots
<1>5. Tidy(Blank.heap, Blank.live, {}, named)
  BY <1>1 DEF Tidy
<1>. QED
  BY <1>1, <1>2, <1>3, <1>4, <1>5 DEF Kept, Fit, Target

-------------------------------------------------------------------------------
(* The handlers go on: the contexts are in their place, what is allocated is  *)
(* owned, and the key that waits is a name if every member so far has one.    *)
Good(d, ns, key, named) ==
  /\ Placed(d, ns, key, named)
  /\ Kept(d, ns, named)
  /\ key /\ named => Here(d) # Empty

LEMMA ScalarGood ==
  ASSUME NEW d, NEW ns, NEW key, NEW named, IsNest(ns), Good(d, ns, key, named),
         Ready(ns, key), NEW s
  PROVE  Good(DomScalar(d, s), ns, FALSE, named)
<1>1. Placed(DomScalar(d, s), ns, FALSE, named)
  BY ScalarPlaced DEF Good
<1>2. Kept(DomScalar(d, s), ns, named)
  BY ScalarKept DEF Good
<1>. QED
  BY <1>1, <1>2 DEF Good

LEMMA KeyGood ==
  ASSUME NEW d, NEW ns, NEW named, IsNest(ns), Good(d, ns, FALSE, named),
         ns # <<>>, ns[Len(ns)] = "object", NEW k \in Names, named => k # Empty
  PROVE  Good(DomKey(d, k), ns, TRUE, named)
<1>1. /\ Placed(DomKey(d, k), ns, TRUE, named)
      /\ k # Empty => Here(DomKey(d, k)) # Empty
  BY KeyPlaced DEF Good
<1>2. Kept(DomKey(d, k), ns, named)
  BY KeyKept DEF Good
<1>. QED
  BY <1>1, <1>2 DEF Good

LEMMA StartGood ==
  ASSUME NEW d, NEW ns, NEW key, NEW named, IsNest(ns), Good(d, ns, key, named),
         ns = <<>> \/ Ready(ns, key), NEW kind, ns = <<>> => Here(d) = NULL
  PROVE  Good(DomStart(d, kind), Append(ns, kind), FALSE, named)
<1>1. Placed(DomStart(d, kind), Append(ns, kind), FALSE, named)
  <2>1. Placed(d, ns, key, named) /\ (named /\ key /\ ns # <<>> => Here(d) # Empty)
    BY DEF Good
  <2>. QED
    BY <2>1, StartPlaced, Zenon
<1>2. Kept(DomStart(d, kind), Append(ns, kind), named)
  <2>1. /\ Placed(d, ns, key, named) /\ Kept(d, ns, named)
        /\ (named /\ key /\ ns # <<>> => Here(d) # Empty)
    BY DEF Good
  <2>. QED
    BY <2>1, StartKept, Zenon
<1>. QED
  BY <1>1, <1>2 DEF Good

LEMMA EndGood ==
  ASSUME NEW d, NEW ns, NEW named, IsNest(ns), Good(d, ns, FALSE, named), ns # <<>>,
         NEW kind, ns[Len(ns)] = kind
  PROVE  Good(DomEnd(d, kind), Front(ns), FALSE, named)
<1>1. Placed(DomEnd(d, kind), Front(ns), FALSE, named)
  BY EndPlaced DEF Good
<1>2. Kept(DomEnd(d, kind), Front(ns), named)
  BY EndKept DEF Good
<1>. QED
  BY <1>1, <1>2 DEF Good

LEMMA GoodWeaker ==
  ASSUME NEW d, NEW ns, NEW key, NEW named, NEW less, Good(d, ns, key, named),
         less => named
  PROVE  Good(d, ns, key, less)
BY PlacedWeaker, KeptWeaker DEF Good

LEMMA BlankGood ==
  ASSUME NEW named
  PROVE  IsNest(<<>>) /\ Good(Blank, <<>>, FALSE, named)
BY BlankPlaced, BlankKept DEF Good

(* Which handler gets an event. *)
LEMMA HandleIs ==
  ASSUME NEW d, d.ok = TRUE, NEW arg
  PROVE  /\ Handle(d, Event("value", arg)) = DomScalar(d, arg)
         /\ Handle(d, Event("key", arg)) = DomKey(d, arg)
         /\ arg \in Kinds => /\ Handle(d, Event("start", arg)) = DomStart(d, arg)
                             /\ Handle(d, Event("end", arg)) = DomEnd(d, arg)
<1>1. /\ Event("value", arg).op = "value" /\ Event("value", arg).arg = arg
      /\ Event("key", arg).op = "key" /\ Event("key", arg).arg = arg
      /\ Event("start", arg).op = "start" /\ Event("start", arg).arg = arg
      /\ Event("end", arg).op = "end" /\ Event("end", arg).arg = arg
  BY DEF Event
<1>2. Handle(d, Event("value", arg)) = DomScalar(d, arg)
  BY <1>1 DEF Handle
<1>3. Handle(d, Event("key", arg)) = DomKey(d, arg)
  BY <1>1 DEF Handle
<1>4. ASSUME arg = "object"
      PROVE  /\ Handle(d, Event("start", arg)) = DomStart(d, arg)
             /\ Handle(d, Event("end", arg)) = DomEnd(d, arg)
  BY <1>1, <1>4 DEF Handle, DomObjectStart, DomObjectEnd
<1>5. ASSUME arg = "array"
      PROVE  /\ Handle(d, Event("start", arg)) = DomStart(d, arg)
             /\ Handle(d, Event("end", arg)) = DomEnd(d, arg)
  BY <1>1, <1>5 DEF Handle, DomArrayStart, DomArrayEnd
<1>. QED
  BY <1>2, <1>3, <1>4, <1>5 DEF Kinds

(* Events that each leave the handlers going in the same containers; key[n]
   tells whether a key waits for its value after n of them. *)
LEMMA RunGood ==
  ASSUME NEW d, NEW es, Len(es) \in Nat, NEW ns, NEW named, NEW key,
         Good(d, ns, key[0], named),
         \A n \in 1 .. Len(es) : \A x :
           Good(x, ns, key[n - 1], named) => Good(Handle(x, es[n]), ns, key[n], named)
  PROVE  Good(HandleAll(d, es), ns, key[Len(es)], named)
<1>1. PICK f : EventSteps(d, es, f, Len(es)) /\ HandleAll(d, es) = f[Len(es)]
  BY EventStepsChosen
<1>2. \A n \in 0 .. Len(es) : f[n] = IF n = 0 THEN d ELSE Handle(f[n - 1], es[n])
  BY <1>1 DEF EventSteps
<1>. DEFINE T == {n \in 0 .. Len(es) : ~Good(f[n], ns, key[n], named)}
<1>3. CASE T = {}
  BY <1>1, <1>3
<1>4. CASE T # {}
  <2>1. PICK n \in T : \A j \in T : ~(j < n)
    <3>1. T \subseteq Nat
      OBVIOUS
    <3>. HIDE DEF T
    <3>. QED
      BY <1>4, <3>1, LeastOf
  <2>2. n \in 0 .. Len(es) /\ ~Good(f[n], ns, key[n], named)
    BY <2>1
  <2>3. n # 0
    BY <1>2, <2>2
  <2>4. n \in 1 .. Len(es) /\ n - 1 \in 0 .. Len(es) /\ n - 1 < n
    BY <2>2, <2>3
  <2>5. Good(f[n - 1], ns, key[n - 1], named)
    BY <2>1, <2>4
  <2>6. f[n] = Handle(f[n - 1], es[n])
    BY <1>2, <2>2, <2>3
  <2>. QED
    BY <2>2, <2>4, <2>5, <2>6
<1>. QED
  BY <1>3, <1>4

-------------------------------------------------------------------------------
(* The injection of defaults. *)

(* SetToSeq lists the elements of a finite set. *)
LEMMA Listed ==
  ASSUME NEW S, IsFiniteSet(S)
  PROVE  Cardinality(S) \in Nat /\ SetToSeq(S) \in [1 .. Cardinality(S) -> S]
<1>1. Cardinality(S) \in Nat /\ ExistsBijection(1 .. Cardinality(S), S)
  BY FS_CardinalityType
<1>2. \E f \in [1 .. Cardinality(S) -> S] : IsInjective(f)
  BY <1>1 DEF ExistsBijection, Bijection, Injection
<1>. QED
  BY <1>1, <1>2 DEF SetToSeq

(* Values injected into an array *)
LEMMA ArrayMembers ==
  ASSUME NEW v, v \notin Scalars, v \in [kind : {"array"}, members : Seq(Scalars)]
  PROVE  LET es == MemberEvents(v)
         IN  /\ Len(es) \in Nat
             /\ \A n \in 1 .. Len(es) : \E s : es[n] = Event("value", s)
<1>. DEFINE r  == Reverse(v.members)
            es == [i \in DOMAIN r |-> Event("value", r[i])]
<1>1. v.kind = "array" /\ v.members \in Seq(Scalars)
  OBVIOUS
<1>2. [v EXCEPT !.members = r].members = r
  OBVIOUS
<1>3. MemberEvents(v) = es
  BY <1>1, <1>2 DEF MemberEvents, Delivered, ValueEvents
<1>4. DOMAIN es = 1 .. Len(v.members) /\ Len(v.members) \in Nat
  BY <1>1 DEF Reverse
<1>5. Len(es) = Len(v.members)
  BY <1>4
<1>. QED
  BY <1>3, <1>4, <1>5

(* Pairs injected into an object: a key and a value in turn *)
LEMMA ObjectMembers ==
  ASSUME NEW v, v.kind = "object", IsFiniteSet(DOMAIN v.members),
         NEW K, DOMAIN v.members \subseteq K
  PROVE  LET es == MemberEvents(v)
         IN  /\ Len(es) \in Nat /\ Len(es) % 2 = 0
             /\ \A n \in 1 .. Len(es) :
                  IF n % 2 = 1 THEN \E k \in K : es[n] = Event("key", k)
                  ELSE \E s : es[n] = Event("value", s)
<1>. DEFINE N     == Cardinality(DOMAIN v.members)
            names == SetToSeq(DOMAIN v.members)
            es    == [i \in 1 .. 2 * N |->
                        IF i % 2 = 1 THEN Event("key", names[(i + 1) \div 2])
                        ELSE Event("value", v.members[names[i \div 2]])]
<1>1. MemberEvents(v) = es
  BY DEF MemberEvents
<1>2. N \in Nat /\ names \in [1 .. N -> DOMAIN v.members]
  BY Listed
<1>. HIDE DEF N, names
<1>3. 2 * N \in Nat /\ (2 * N) % 2 = 0
  BY <1>2
<1>4. Len(es) = 2 * N
  BY <1>3
<1>5. ASSUME NEW n \in 1 .. 2 * N, n % 2 = 1
      PROVE  \E k \in K : es[n] = Event("key", k)
  <2>1. (n + 1) \div 2 \in 1 .. N
    BY <1>2, <1>5
  <2>2. names[(n + 1) \div 2] \in K
    BY <1>2, <2>1
  <2>. QED
    BY <1>5, <2>2
<1>6. ASSUME NEW n \in 1 .. 2 * N, n % 2 # 1
      PROVE  \E s : es[n] = Event("value", s)
  BY <1>6
<1>. QED
  BY <1>1, <1>3, <1>4, <1>5, <1>6

LEMMA NestAppended ==
  ASSUME NEW ns, IsNest(ns), NEW kind \in Kinds
  PROVE  /\ IsNest(Append(ns, kind)) /\ Append(ns, kind) # <<>>
         /\ Append(ns, kind)[Len(Append(ns, kind))] = kind
         /\ Front(Append(ns, kind)) = ns
<1>. DEFINE m == Append(ns, kind)
<1>1. IsSeq(ns) /\ Len(ns) \in Nat
  BY SeqFacts DEF IsNest
<1>2. /\ IsSeq(m) /\ Len(m) = Len(ns) + 1 /\ m[Len(ns) + 1] = kind
      /\ \A i \in 1 .. Len(ns) : m[i] = ns[i]
  BY <1>1, AppendFacts
<1>3. Front(m) = ns
  BY <1>1, FrontOfAppend
<1>. HIDE DEF m
<1>4. m # <<>> /\ \A i \in 1 .. Len(m) : i \in 1 .. Len(ns) \/ i = Len(ns) + 1
  BY <1>1, <1>2, SeqFacts
<1>5. IsNest(m) /\ m[Len(m)] = kind
  BY <1>2, <1>4 DEF IsNest
<1>. QED
  BY <1>3, <1>4, <1>5 DEF m

(* A default that is a container: its members follow its start, and its end
   follows them. *)
LEMMA ContainerGood ==
  ASSUME NEW d, NEW ns, NEW named, IsNest(ns), Good(d, ns, TRUE, named),
         Ready(ns, TRUE), NEW v, v \notin Scalars, IsDefault(v)
  PROVE  Good(HandleValue(d, v), ns, FALSE, named)
<1>. DEFINE kind  == v.kind
            m     == Append(ns, kind)
            begun == Handle(d, Event("start", kind))
            es    == MemberEvents(v)
            all   == HandleAll(begun, es)
<1>1. \/ kind = "array" /\ v \in [kind : {"array"}, members : Seq(Scalars)]
      \/ /\ kind = "object" /\ IsFiniteSet(DOMAIN v.members)
         /\ DOMAIN v.members \subseteq Names \ {Empty}
  BY DEF IsDefault
<1>2. kind \in Kinds
  BY <1>1 DEF Kinds
<1>3. HandleValue(d, v) = Handle(all, Event("end", kind))
  BY DEF HandleValue
<1>. HIDE DEF kind
<1>4. IsNest(m) /\ m # <<>> /\ m[Len(m)] = kind /\ Front(m) = ns
  BY <1>2, NestAppended
<1>5. d.ok = TRUE
  BY DEF Good, Placed
<1>6. begun = DomStart(d, kind)
  BY <1>2, <1>5, HandleIs
<1>7. Good(begun, m, FALSE, named)
  BY <1>6, StartGood DEF Ready
<1>. HIDE DEF m, begun, es, all
<1>8. ASSUME kind = "array"
      PROVE  Good(all, m, FALSE, named)
  <2>. DEFINE key == [n \in Nat |-> FALSE]
  <2>1. /\ Len(es) \in Nat
        /\ \A n \in 1 .. Len(es) : \E s : es[n] = Event("value", s)
    BY <1>1, <1>8, ArrayMembers DEF es
  <2>2. Ready(m, FALSE)
    BY <1>4, <1>8 DEF Ready
  <2>3. ASSUME NEW n \in 1 .. Len(es), NEW x, Good(x, m, FALSE, named)
        PROVE  Good(Handle(x, es[n]), m, FALSE, named)
    <3>1. PICK s : es[n] = Event("value", s)
      BY <2>1
    <3>2. Handle(x, es[n]) = DomScalar(x, s)
      BY <2>3, <3>1, HandleIs DEF Good, Placed
    <3>. QED
      BY <1>4, <2>2, <2>3, <3>2, ScalarGood
  <2>4. /\ key[0] = FALSE /\ key[Len(es)] = FALSE
        /\ \A n \in 1 .. Len(es) : key[n] = FALSE /\ key[n - 1] = FALSE
    BY <2>1
  <2>. HIDE DEF key
  <2>5. Good(all, m, key[Len(es)], named)
    BY <1>7, <2>1, <2>3, <2>4, RunGood DEF all
  <2>. QED
    BY <2>4, <2>5
<1>9. ASSUME kind = "object"
      PROVE  Good(all, m, FALSE, named)
  <2>. DEFINE key == [n \in Nat |-> IF n % 2 = 1 THEN TRUE ELSE FALSE]
  <2>1. /\ Len(es) \in Nat /\ Len(es) % 2 = 0
        /\ \A n \in 1 .. Len(es) :
             IF n % 2 = 1 THEN \E k \in Names \ {Empty} : es[n] = Event("key", k)
             ELSE \E s : es[n] = Event("value", s)
    BY <1>1, <1>9, ObjectMembers DEF es, kind
  <2>2. Ready(m, TRUE)
    BY <1>4, <1>9 DEF Ready
  <2>3. ASSUME NEW n \in 1 .. Len(es), n % 2 = 1, NEW x, Good(x, m, FALSE, named)
        PROVE  Good(Handle(x, es[n]), m, TRUE, named)
    <3>1. PICK k \in Names \ {Empty} : es[n] = Event("key", k)
      BY <2>1, <2>3
    <3>2. Handle(x, es[n]) = DomKey(x, k)
      BY <2>3, <3>1, HandleIs DEF Good, Placed
    <3>. QED
      BY <1>4, <1>9, <2>3, <3>2, KeyGood
  <2>4. ASSUME NEW n \in 1 .. Len(es), n % 2 # 1, NEW x, Good(x, m, TRUE, named)
        PROVE  Good(Handle(x, es[n]), m, FALSE, named)
    <3>1. PICK s : es[n] = Event("value", s)
      BY <2>1, <2>4
    <3>2. Handle(x, es[n]) = DomScalar(x, s)
      BY <2>4, <3>1, HandleIs DEF Good, Placed
    <3>. QED
      BY <1>4, <2>2, <2>4, <3>2, ScalarGood
  <2>5. key[0] = FALSE /\ key[Len(es)] = FALSE
    <3>1. 0 % 2 = 0 /\ 0 \in Nat
      OBVIOUS
    <3>. QED
      BY <2>1, <3>1
  <2>6. ASSUME NEW n \in 1 .. Len(es)
        PROVE  \/ n % 2 = 1 /\ key[n] = TRUE /\ key[n - 1] = FALSE
               \/ n % 2 # 1 /\ key[n] = FALSE /\ key[n - 1] = TRUE
    <3>1. n \in Nat /\ n - 1 \in Nat /\ (n % 2 = 1 \/ n % 2 = 0)
      BY <2>1
    <3>2. n % 2 = 1 => (n - 1) % 2 # 1
      BY <3>1
    <3>3. n % 2 = 0 => (n - 1) % 2 = 1
      BY <3>1
    <3>. QED
      BY <3>1, <3>2, <3>3
  <2>. HIDE DEF key
  <2>7. \A n \in 1 .. Len(es) : \A x :
          Good(x, m, key[n - 1], named) => Good(Handle(x, es[n]), m, key[n], named)
    <3>. TAKE n \in 1 .. Len(es)
    <3>. TAKE x
    <3>1. CASE n % 2 = 1
      BY <2>3, <2>6, <3>1
    <3>2. CASE n % 2 # 1
      BY <2>4, <2>6, <3>2
    <3>. QED
      BY <3>1, <3>2
  <2>8. Good(all, m, key[Len(es)], named)
    BY <1>7, <2>1, <2>5, <2>7, RunGood DEF all
  <2>. QED
    BY <2>5, <2>8
<1>10. Good(all, m, FALSE, named)
  BY <1>2, <1>8, <1>9 DEF Kinds
<1>11. Handle(all, Event("end", kind)) = DomEnd(all, kind)
  BY <1>2, <1>10, HandleIs DEF Good, Placed
<1>. QED
  BY <1>3, <1>4, <1>10, <1>11, EndGood

(* A default and its key *)
LEMMA InjectGood ==
  ASSUME NEW d, NEW ns, NEW named, IsNest(ns), Good(d, ns, FALSE, named),
         ns # <<>>, ns[Len(ns)] = "object",
         NEW k \in DOMAIN Defaults, named => k # Empty
  PROVE  Good(Inject(d, k), ns, FALSE, named)
<1>. DEFINE c == Handle(d, Event("key", k))
            v == Defaults[k]
<1>1. k \in Names /\ IsDefault(v)
  BY DomConstants
<1>2. Inject(d, k) = HandleValue(c, v)
  BY DEF Inject
<1>3. c = DomKey(d, k)
  BY HandleIs DEF Good, Placed
<1>4. Good(c, ns, TRUE, named)
  BY <1>1, <1>3, KeyGood
<1>5. Ready(ns, TRUE)
  BY DEF Ready
<1>. HIDE DEF c, v
<1>6. CASE v \in Scalars
  <2>1. HandleValue(c, v) = DomScalar(c, v)
    BY <1>4, <1>6, HandleIs DEF HandleValue, Good, Placed
  <2>. QED
    BY <1>2, <1>4, <1>5, <2>1, ScalarGood
<1>7. CASE v \notin Scalars
  BY <1>1, <1>2, <1>4, <1>5, <1>7, ContainerGood
<1>. QED
  BY <1>6, <1>7

(* Defaults in any order *)
LEMMA InjectAllGood ==
  ASSUME NEW d, NEW ns, NEW named, IsNest(ns), Good(d, ns, FALSE, named),
         ns # <<>>, ns[Len(ns)] = "object",
         NEW ks, Len(ks) \in Nat,
         \A i \in 1 .. Len(ks) : ks[i] \in DOMAIN Defaults /\ (named => ks[i] # Empty)
  PROVE  Good(InjectAll(d, ks), ns, FALSE, named)
<1>1. PICK f : InjectionSteps(d, ks, f, Len(ks)) /\ InjectAll(d, ks) = f[Len(ks)]
  BY InjectionStepsChosen
<1>2. \A n \in 0 .. Len(ks) : f[n] = IF n = 0 THEN d ELSE Inject(f[n - 1], ks[n])
  BY <1>1 DEF InjectionSteps
<1>. DEFINE going(x) == Good(x, ns, FALSE, named)
            T == {n \in 0 .. Len(ks) : ~going(f[n])}
<1>. HIDE DEF going
<1>3. CASE T = {}
  <2>1. going(f[Len(ks)])
    BY <1>3
  <2>. QED
    BY <1>1, <2>1 DEF going
<1>4. CASE T # {}
  <2>1. PICK n \in T : \A j \in T : ~(j < n)
    <3>1. T \subseteq Nat
      OBVIOUS
    <3>. HIDE DEF T
    <3>. QED
      BY <1>4, <3>1, LeastOf
  <2>2. n \in 0 .. Len(ks) /\ ~going(f[n])
    BY <2>1
  <2>3. n # 0
    BY <1>2, <2>2 DEF going
  <2>4. n \in 1 .. Len(ks) /\ n - 1 \in 0 .. Len(ks) /\ n - 1 < n
    BY <2>2, <2>3
  <2>5. going(f[n - 1])
    BY <2>1, <2>4
  <2>6. f[n] = Inject(f[n - 1], ks[n])
    BY <1>2, <2>2, <2>3
  <2>7. going(f[n])
    BY <2>4, <2>5, <2>6, InjectGood DEF going
  <2>. QED
    BY <2>2, <2>7
<1>. QED
  BY <1>3, <1>4

(* What is injected where an object ends: keys with a default, in some order. *)
LEMMA InjectionsFacts ==
  ASSUME NEW d, NEW ks \in Injections(d)
  PROVE  /\ Len(ks) \in Nat
         /\ \A i \in 1 .. Len(ks) : ks[i] \in DOMAIN Defaults
         /\ \A i \in 1 .. Len(ks) : ks[i] \in ToSet(ks)
<1>1. PICK n \in 0 .. MaxInjected : ks \in [1 .. n -> Missing(d)]
  BY DEF Injections
<1>2. n \in Nat /\ Len(ks) = n
  BY <1>1, DomConstants
<1>3. Missing(d) \subseteq DOMAIN Defaults
  BY DEF Missing
<1>. QED
  BY <1>1, <1>2, <1>3 DEF ToSet

-------------------------------------------------------------------------------
(* The parse. *)

(* While the text is read, the handlers have kept up with it. *)
Going ==
  /\ IsNest(nest) /\ keyed \in BOOLEAN
  /\ Good(dom, nest, keyed, ~nameless)
  /\ keyed => Ready(nest, TRUE)
  /\ nest = <<>> => whole \/ dom = Blank
  /\ status = "none" /\ result = NULL
  /\ refused => "m_schema" \in handles
  /\ validator = "failed" => refused

(* The client is not the one who answers for a refusal. *)
Unanswered == refused /\ "m_schema" \notin handles

(* What jdom_parse_ex releases at its end, when it stops with d. *)
Waiting(d) == {n \in ToSet(d.ctx) : n # NULL /\ KindAt(d, n) = "string"}

Settled(d, named) ==
  /\ Fit(d, Roots(d), named)
  /\ \A i \in 1 .. Len(d.ctx) : d.ctx[i] \in d.live \cup Statics \cup {NULL}
  /\ \A n \in 1 .. Len(d.heap) : n \in Roots(d) <=> n = d.ctx[1] \/ n \in Waiting(d)
  /\ Len(d.ctx) = 1 => d.ctx[1] \in d.live \cup {NULL}

(* The document is with the client, or everything is released. *)
Handed(d, n, named) == Fit(d, {n} \ {NULL}, named)

IInv ==
  /\ phase \in {"parsing", "stopped", "done", "undefined"}
  /\ IF phase = "done" THEN Handed(dom, result, ~nameless) ELSE Settled(dom, ~nameless)
  /\ phase = "parsing" => Going
  /\ phase = "stopped" =>
       result = NULL /\ (Unanswered => Unbalanced \/ dom.ctx[1] = NULL)
  /\ phase = "done" /\ Unanswered => result = NULL
  /\ phase = "undefined" => refused /\ "m_schema" \in handles /\ result = NULL
  /\ CanceledForCause

(* Containers are no strings, and what the current context holds is a key. *)
LEMMA GoodSettled ==
  ASSUME NEW d, NEW ns, IsNest(ns), NEW key, NEW named, Good(d, ns, key, named)
  PROVE  Settled(d, named)
<1>. DEFINE L == Len(ns)
<1>1. /\ IsDom(d) /\ Mirrors(d, ns, key, named) /\ Kept(d, ns, named)
      /\ IsSeq(d.ctx) /\ IsSeq(ns)
  BY DEF Good, Placed, IsDom, IsNest
<1>2. /\ L \in Nat /\ Len(d.ctx) = L + 1 /\ (ns = <<>> <=> L = 0)
      /\ DOMAIN d.ctx = 1 .. L + 1 /\ Here(d) = d.ctx[L + 1]
      /\ DOMAIN d.heap = 1 .. Len(d.heap)
  BY <1>1, SeqFacts, Addresses DEF Mirrors, Here
<1>3. /\ Fit(d, Roots(d), named) /\ d.live \subseteq 1 .. Len(d.heap)
      /\ Roots(d) \subseteq d.live
      /\ \A i \in 1 .. L : d.ctx[i] \in d.live
      /\ Target(d.heap, Here(d))
      /\ ns = <<>> => Here(d) \in d.live \cup {NULL}
  BY <1>1 DEF Kept, Fit, Tidy
<1>4. \A i \in 1 .. L : KindAt(d, d.ctx[i]) \in Kinds
  <2>. SUFFICES ASSUME NEW i \in 1 .. L PROVE KindAt(d, d.ctx[i]) \in Kinds
    OBVIOUS
  <2>1. d.ctx[i] \in 1 .. Len(d.heap) /\ d.heap[d.ctx[i]].kind = ns[i]
    BY <1>1 DEF Mirrors, Chain
  <2>2. ns[i] \in Kinds
    BY DEF IsNest
  <2>. QED
    BY <1>2, <2>1, <2>2 DEF KindAt
<1>5. "string" \notin Kinds
  BY DEF Kinds
<1>6. \A i \in 1 .. L + 1 : i \in 1 .. L \/ i = L + 1
  BY <1>2
<1>. HIDE DEF L
<1>7. \A n : n \in Waiting(d) <=> n = Here(d) /\ n # NULL /\ KindAt(d, n) = "string"
  <2>1. \A n : n \in ToSet(d.ctx) <=> \E i \in 1 .. L + 1 : d.ctx[i] = n
    BY <1>2 DEF ToSet
  <2>2. Here(d) \in ToSet(d.ctx)
    <3>1. L + 1 \in 1 .. L + 1
      BY <1>2
    <3>. QED
      BY <1>2, <2>1, <3>1
  <2>3. \A n \in ToSet(d.ctx) : n = Here(d) \/ KindAt(d, n) # "string"
    BY <1>2, <1>4, <1>5, <1>6, <2>1
  <2>. QED
    BY <2>2, <2>3 DEF Waiting
<1>8. \A i \in 1 .. Len(d.ctx) : d.ctx[i] \in d.live \cup Statics \cup {NULL}
  <2>1. Here(d) \in d.live \cup Statics \cup {NULL}
    BY <1>3 DEF Target, Roots
  <2>. QED
    BY <1>2, <1>3, <1>6, <2>1
<1>9. ASSUME NEW n \in 1 .. Len(d.heap)
      PROVE  n \in Roots(d) <=> n = d.ctx[1] \/ n \in Waiting(d)
  <2>1. n # NULL
    BY <1>1, NoAddress
  <2>2. CASE ns = <<>>
    <3>1. Here(d) = d.ctx[1]
      BY <1>2, <2>2
    <3>. QED
      BY <1>7, <3>1 DEF Roots
  <2>3. CASE ns # <<>>
    <3>1. n = Here(d) => KindAt(d, n) = "string"
      BY <1>1, <2>1, <2>3 DEF Mirrors, HasKey
    <3>. QED
      BY <1>7, <2>1, <3>1 DEF Roots
  <2>. QED
    BY <2>2, <2>3
<1>10. Len(d.ctx) = 1 => d.ctx[1] \in d.live \cup {NULL}
  BY <1>2, <1>3
<1>. QED
  BY <1>3, <1>8, <1>9, <1>10 DEF Settled

LEMMA SettledRefused ==
  ASSUME NEW d, NEW named, Settled(d, named)
  PROVE  Settled(Refuse(d), named)
<1>. DEFINE c == Refuse(d)
<1>1. IsDom(d)
  BY DEF Settled, Fit
<1>2. IsDom(c) /\ c.heap = d.heap /\ c.live = d.live /\ c.ctx = d.ctx
  BY <1>1, RefuseFacts DEF Refuse
<1>. HIDE DEF c
<1>3. Roots(c) = Roots(d) /\ Waiting(c) = Waiting(d)
  BY <1>2 DEF Roots, Waiting, Here, KindAt
<1>4. Fit(c, Roots(c), named)
  BY <1>2, <1>3 DEF Settled, Fit
<1>5. Settled(c, named)
  BY <1>2, <1>3, <1>4 DEF Settled
<1>. QED
  BY <1>5 DEF c

LEMMA SettledWeaker ==
  ASSUME NEW d, NEW named, NEW less, Settled(d, named), less => named
  PROVE  Settled(d, less)
<1>1. Fit(d, Roots(d), less)
  BY TidyWeaker DEF Settled, Fit
<1>. QED
  BY <1>1 DEF Settled

(* The roots are released with all that they hold. *)
LEMMA AllReleased ==
  ASSUME NEW d, NEW R, NEW named, Fit(d, R, named),
         NEW e, IsDom(e), e.heap = d.heap,
         NEW ns, \A r \in R : r \in ns, \A n \in ns : n \in 1 .. Len(d.heap) => n \in R,
         e.live = d.live \ UNION {Below(d, n) : n \in ns}
  PROVE  Fit(e, {}, named)
<1>. DEFINE h == d.heap
            G == UNION {Below(d, n) : n \in ns}
<1>1. /\ IsHeap(h) /\ d.live \subseteq 1 .. Len(h) /\ R \subseteq d.live
      /\ \A n \in d.live : \A i, j, p : Points(h, n, i, j, p) => p \in d.live /\ p \notin R
      /\ \A m, n \in d.live : \A i, j, k, l, p :
           Points(h, m, i, j, p) /\ Points(h, n, k, l, p) => m = n /\ i = k /\ j = l
      /\ Tidy(h, d.live, R, named) /\ DOMAIN h = 1 .. Len(h)
  BY Addresses DEF Fit, Tidy
<1>2. \A n \in ns : Below(d, n) = IF n \in R THEN Reach(h)[n] ELSE {}
  BY <1>1 DEF Below
<1>3. \A q : q \in G <=> \E r \in R : q \in Reach(h)[r]
  BY <1>2
<1>. HIDE DEF h, G
<1>4. \A r \in R : \A q \in Reach(h)[r] :
         q = r \/ \E m \in Reach(h)[r] : \E i, j : Points(h, m, i, j, q)
  BY <1>1, ReachFacts
<1>5. \A r \in R : Reach(h)[r] \subseteq d.live
  BY <1>1, ReachAlive
<1>6. \A n \in d.live \ G : \A i, j, p : Points(h, n, i, j, p) => p \in d.live \ G
  <2>. SUFFICES ASSUME NEW n \in d.live \ G, NEW i, NEW j, NEW p, Points(h, n, i, j, p), p \in G
                PROVE  FALSE
    BY <1>1
  <2>1. PICK r \in R : p \in Reach(h)[r]
    BY <1>3
  <2>2. p \notin R
    BY <1>1
  <2>3. PICK m \in Reach(h)[r] : \E x, y : Points(h, m, x, y, p)
    BY <1>4, <2>1, <2>2
  <2>4. m \in d.live /\ m \in G
    BY <1>3, <1>5, <2>3
  <2>5. m = n
    BY <1>1, <2>3, <2>4
  <2>. QED
    BY <2>4, <2>5
<1>7. ASSUME named
      PROVE  d.live \ G = {}
  <2>1. Tidy(h, d.live, R, TRUE)
    BY <1>1, <1>7 DEF Tidy
  <2>2. \A n \in d.live : \E r \in R : n \in Reach(h)[r]
    BY <1>1, <2>1, AliveReached
  <2>. QED
    BY <1>3, <2>2
<1>8. Tidy(h, d.live \ G, {}, named)
  BY <1>1, <1>6, <1>7 DEF Tidy
<1>9. e.heap = h /\ e.live = d.live \ G
  BY DEF h, G
<1>. QED
  BY <1>1, <1>8, <1>9 DEF Fit

(* The validator refuses an event, or the handlers do what Handle says. *)
LEMMA BounceGood ==
  ASSUME IInv, NEW op, NEW arg, Reading(op, arg),
         NEW d, NEW passes \in BOOLEAN, Bounce(op, arg, d, passes),
         Good(d, nest, keyed, ~nameless'),
         nest = <<>> => d = Blank,
         NEW h, h = Handle(d, Event(op, arg)),
         \/ nest = <<>> /\ nest' = <<>> /\ h = Refuse(Blank)
         \/ /\ IsNest(nest') /\ Good(h, nest', keyed', ~nameless')
            /\ keyed' => Ready(nest', TRUE),
         nest' = <<>> => whole'
  PROVE  IInv'
<1>1. /\ phase = "parsing" /\ Going /\ handles' = handles /\ result' = result
      /\ keyed' \in BOOLEAN
  BY DEF IInv, Reading, Advance
<1>2. /\ status = "none" /\ result' = NULL /\ (refused => "m_schema" \in handles)
      /\ (validator = "failed" => refused)
      /\ refused' = (refused \/ ~passes)
      /\ validator' = IF passes THEN validator ELSE "failed"
  BY <1>1 DEF Going, Bounce
<1>3. IsDom(d) /\ Len(d.ctx) = Len(nest) + 1 /\ Len(nest) \in Nat /\ (nest = <<>> <=> Len(nest) = 0)
  BY <1>1, SeqFacts DEF Good, Placed, Mirrors, Going, IsNest
<1>4. /\ IF dom'.ok THEN phase' = phase /\ status' = status
         ELSE phase' = "stopped" /\ status' = "canceled"
      /\ dom' = IF passes \/ "m_schema" \in handles THEN h ELSE Refuse(d)
  BY DEF Bounce
<1>5. Settled(d, ~nameless')
  BY <1>1, GoodSettled DEF Going
<1>6. ASSUME ~passes, "m_schema" \notin handles
      PROVE  IInv'
  <2>1. dom' = Refuse(d)
    BY <1>4, <1>6
  <2>2. dom'.ok = FALSE /\ dom'.ctx = d.ctx
    BY <1>3, <2>1, RefuseFacts DEF Refuse
  <2>3. phase' = "stopped" /\ status' = "canceled" /\ refused'
    BY <1>2, <1>4, <1>6, <2>2
  <2>4. nest = <<>> => dom'.ctx[1] = NULL
    BY <2>2 DEF Blank
  <2>5. nest # <<>> => Unbalanced'
    BY <1>3, <2>2 DEF Unbalanced
  <2>6. Settled(dom', ~nameless')
    BY <1>5, <2>1, SettledRefused
  <2>. QED
    BY <1>2, <2>3, <2>4, <2>5, <2>6 DEF IInv, CanceledForCause
<1>7. ASSUME passes \/ "m_schema" \in handles
      PROVE  IInv'
  <2>1. dom' = h /\ ~Unanswered' /\ (refused' => "m_schema" \in handles')
    BY <1>1, <1>2, <1>4, <1>7 DEF Unanswered
  <2>2. CASE nest = <<>> /\ nest' = <<>> /\ h = Refuse(Blank)
    <3>1. dom'.ok = FALSE
      BY <2>1, <2>2 DEF Refuse, Blank
    <3>2. phase' = "stopped" /\ status' = "canceled"
      BY <1>4, <3>1
    <3>3. Settled(dom', ~nameless')
      BY ZenonT(60), <2>1, <2>2, BlankGood, GoodSettled, SettledRefused
    <3>. QED
      BY <1>2, <2>1, <2>2, <3>2, <3>3 DEF IInv, CanceledForCause
  <2>3. CASE /\ IsNest(nest') /\ Good(h, nest', keyed', ~nameless')
             /\ keyed' => Ready(nest', TRUE)
    <3>1. dom'.ok = TRUE
      BY <2>1, <2>3 DEF Good, Placed
    <3>2. phase' = "parsing" /\ status' = "none"
      BY <1>1, <1>2, <1>4, <3>1
    <3>3. validator' = "failed" => refused'
      BY <1>2
    <3>4. Going'
      BY <1>1, <1>2, <2>1, <2>3, <3>2, <3>3 DEF Going
    <3>5. Settled(dom', ~nameless')
      BY <2>1, <2>3, GoodSettled
    <3>. QED
      BY <3>2, <3>4, <3>5 DEF IInv, CanceledForCause
  <2>. QED
    BY <2>2, <2>3
<1>. QED
  BY <1>6, <1>7

(* A validator without a state is asked about an event. *)
LEMMA AskFailedGood ==
  ASSUME IInv, NEW op, NEW arg, Reading(op, arg), AskFailed, nameless => nameless'
  PROVE  IInv'
<1>1. Going /\ phase' = "undefined" /\ status' = status /\ refused' = refused
      /\ handles' = handles /\ result' = result
  BY DEF IInv, Reading, AskFailed
<1>2. status' = "none" /\ refused' /\ "m_schema" \in handles' /\ result' = NULL
  BY <1>1 DEF Going, AskFailed
<1>3. Settled(dom', ~nameless')
  BY SettledWeaker DEF IInv, AskFailed, Reading
<1>. QED
  BY <1>1, <1>2, <1>3 DEF IInv, CanceledForCause

(* What the order of JSON events leaves: a value follows its key. *)
LEMMA ValueReady ==
  ASSUME Going, ~whole, NEW op \in {"value", "start"}, NEW arg, Legal(op, arg)
  PROVE  (nest = <<>> /\ dom = Blank) \/ Ready(nest, keyed)
<1>1. IsNest(nest) /\ keyed \in BOOLEAN /\ (keyed => Ready(nest, TRUE))
      /\ (nest = <<>> => dom = Blank)
  BY DEF Going
<1>2. nest # <<>> /\ nest[Len(nest)] = "object" => keyed
  BY DEF Legal
<1>3. nest # <<>> => nest[Len(nest)] \in Kinds
  BY <1>1, SeqFacts DEF IsNest
<1>4. CASE keyed = TRUE
  BY <1>1, <1>4
<1>5. CASE keyed = FALSE
  BY <1>1, <1>2, <1>3, <1>5 DEF Ready, Kinds
<1>. QED
  BY <1>1, <1>4, <1>5

LEMMA ReadScalarKeeps ==
  ASSUME IInv, NEW s, ReadScalar(s)
  PROVE  IInv'
<1>1. Reading("value", s) /\ nameless' = nameless
  BY DEF ReadScalar
<1>2. CASE AskFailed
  BY <1>1, <1>2, AskFailedGood
<1>3. ASSUME NEW passes \in BOOLEAN, Bounce("value", s, dom, passes)
      PROVE  IInv'
  <2>. DEFINE h == Handle(dom, Event("value", s))
  <2>1. Going /\ Legal("value", s) /\ ~whole
    BY <1>1 DEF Reading, Legal, IInv
  <2>2. nest' = nest /\ keyed' = FALSE /\ whole' = (nest' = <<>>)
    BY <1>1 DEF Reading, Advance
  <2>3. /\ IsNest(nest) /\ Good(dom, nest, keyed, ~nameless')
        /\ (nest = <<>> => dom = Blank)
    BY <1>1, <2>1 DEF Going
  <2>4. h = DomScalar(dom, s)
    BY <2>3, HandleIs DEF Good, Placed
  <2>5. CASE nest = <<>>
    <3>1. dom = Blank /\ ~HasPrev(Blank)
      BY <2>3, <2>5 DEF Blank, HasPrev
    <3>2. h = Refuse(Blank)
      BY <2>4, <3>1 DEF DomScalar
    <3>. HIDE DEF h
    <3>. QED
      BY <1>1, <1>3, <2>2, <2>3, <2>5, <3>2, BounceGood DEF h
  <2>6. CASE nest # <<>>
    <3>1. Ready(nest, keyed)
      BY <2>1, <2>6, ValueReady
    <3>2. Good(h, nest, FALSE, ~nameless')
      BY <2>3, <2>4, <3>1, ScalarGood
    <3>3. IsNest(nest') /\ Good(h, nest', keyed', ~nameless')
      BY <2>2, <2>3, <3>2
    <3>. HIDE DEF h
    <3>. QED
      BY <1>1, <1>3, <2>2, <2>3, <2>6, <3>3, BounceGood DEF h
  <2>. QED
    BY <2>5, <2>6
<1>. QED
  BY <1>2, <1>3 DEF ReadScalar

LEMMA ReadKeyKeeps ==
  ASSUME IInv, NEW k \in Names, ReadKey(k)
  PROVE  IInv'
<1>1. Reading("key", k) /\ nameless' = (nameless \/ k = Empty)
  BY DEF ReadKey
<1>2. CASE AskFailed
  BY <1>1, <1>2, AskFailedGood
<1>3. ASSUME NEW passes \in BOOLEAN, Bounce("key", k, dom, passes)
      PROVE  IInv'
  <2>. DEFINE h == Handle(dom, Event("key", k))
  <2>1. Going /\ keyed = FALSE /\ nest # <<>> /\ nest[Len(nest)] = "object"
    <3>1. Going /\ ~keyed /\ nest # <<>> /\ nest[Len(nest)] = "object"
      BY <1>1 DEF Reading, Legal, IInv
    <3>. QED
      BY <3>1 DEF Going
  <2>2. nest' = nest /\ keyed' = TRUE
    BY <1>1 DEF Reading, Advance
  <2>3. IsNest(nest) /\ Good(dom, nest, FALSE, ~nameless)
    BY <2>1 DEF Going
  <2>4. Good(dom, nest, FALSE, ~nameless')
    BY <1>1, <2>3, GoodWeaker
  <2>5. h = DomKey(dom, k)
    BY <2>3, HandleIs DEF Good, Placed
  <2>6. Good(h, nest, TRUE, ~nameless')
    BY <1>1, <2>1, <2>3, <2>4, <2>5, KeyGood
  <2>7. /\ IsNest(nest') /\ Good(h, nest', keyed', ~nameless')
        /\ Ready(nest', TRUE)
    BY <1>1, <2>1, <2>2, <2>3, <2>6 DEF Ready
  <2>8. Good(dom, nest, keyed, ~nameless')
    BY <2>1, <2>4
  <2>. HIDE DEF h
  <2>. QED
    BY <1>1, <1>3, <2>1, <2>2, <2>7, <2>8, BounceGood DEF h
<1>. QED
  BY <1>2, <1>3 DEF ReadKey

LEMMA ReadStartKeeps ==
  ASSUME IInv, NEW kind \in Kinds, ReadStart(kind)
  PROVE  IInv'
<1>1. Reading("start", kind) /\ nameless' = nameless
  BY DEF ReadStart
<1>2. CASE AskFailed
  BY <1>1, <1>2, AskFailedGood
<1>3. ASSUME NEW passes \in BOOLEAN, Bounce("start", kind, dom, passes)
      PROVE  IInv'
  <2>. DEFINE h == Handle(dom, Event("start", kind))
  <2>1. Going /\ Legal("start", kind) /\ ~whole
    BY <1>1 DEF Reading, Legal, IInv
  <2>2. nest' = Append(nest, kind) /\ keyed' = FALSE
    BY <1>1 DEF Reading, Advance
  <2>3. /\ IsNest(nest) /\ Good(dom, nest, keyed, ~nameless')
        /\ (nest = <<>> => dom = Blank)
    BY <1>1, <2>1 DEF Going
  <2>4. h = DomStart(dom, kind)
    BY <2>3, HandleIs DEF Good, Placed
  <2>5. nest = <<>> \/ Ready(nest, keyed)
    BY <2>1, ValueReady
  <2>. DEFINE named == ~nameless'
  <2>. HIDE DEF h, named
  <2>6. Good(h, Append(nest, kind), FALSE, named)
    <3>1. Good(dom, nest, keyed, named)
      BY <2>3 DEF named
    <3>2. IsNest(nest) /\ (nest = <<>> \/ Ready(nest, keyed))
      BY <2>3, <2>5
    <3>3. nest = <<>> => Here(dom) = NULL
      <4>1. Here(Blank) = NULL
        BY OneIsSeq DEF Blank, Here
      <4>. QED
        BY <2>3, <4>1
    <3>4. Good(DomStart(dom, kind), Append(nest, kind), FALSE, named)
      BY <3>1, <3>2, <3>3, StartGood, Zenon
    <3>. QED
      BY <2>4, <3>4
  <2>7. IsNest(nest') /\ nest' # <<>> /\ Good(h, nest', keyed', ~nameless')
    BY <2>2, <2>3, <2>6, NestAppended DEF named
  <2>. QED
    BY <1>1, <1>3, <2>2, <2>3, <2>7, BounceGood DEF h
<1>. QED
  BY <1>2, <1>3 DEF ReadStart

LEMMA StartFailsKeeps ==
  ASSUME IInv, NEW kind, StartFails(kind)
  PROVE  IInv'
<1>1. Going /\ handles' = handles /\ result' = result /\ phase' = "stopped"
      /\ starved' /\ refused' = refused
  BY DEF StartFails, Reading, IInv
<1>2. result' = NULL /\ ~Unanswered'
  BY <1>1 DEF Going, Unanswered
<1>3. Settled(dom', ~nameless')
  BY SettledRefused DEF IInv, StartFails, Reading
<1>. QED
  BY <1>1, <1>2, <1>3 DEF IInv, CanceledForCause

(* The innermost container ends, after the handlers have injected defaults. *)
LEMMA EndKeeps ==
  ASSUME IInv, NEW kind \in Kinds, Reading("end", kind),
         NEW d, Good(d, nest, FALSE, ~nameless'),
         NEW passes \in BOOLEAN, Bounce("end", kind, d, passes)
  PROVE  IInv'
<1>. DEFINE h == Handle(d, Event("end", kind))
<1>1. Going /\ keyed = FALSE /\ nest # <<>> /\ nest[Len(nest)] = kind
  <2>1. Going /\ ~keyed /\ nest # <<>> /\ nest[Len(nest)] = kind
    BY DEF Reading, Legal, IInv, Kinds
  <2>. QED
    BY <2>1 DEF Going
<1>2. nest' = Front(nest) /\ keyed' = FALSE /\ (nest' = <<>> => whole')
  BY DEF Reading, Advance
<1>3. IsNest(nest)
  BY <1>1 DEF Going
<1>4. h = DomEnd(d, kind)
  BY HandleIs DEF Good, Placed
<1>5. Good(h, Front(nest), FALSE, ~nameless')
  BY <1>1, <1>3, <1>4, EndGood
<1>6. IsNest(Front(nest))
  <2>1. IsSeq(nest) /\ Len(nest) \in Nat /\ Len(nest) # 0
    BY <1>1, <1>3, SeqFacts DEF IsNest
  <2>. QED
    BY <1>1, <1>3, <2>1, FrontFacts DEF IsNest
<1>7. IsNest(nest') /\ Good(h, nest', keyed', ~nameless') /\ Good(d, nest, keyed, ~nameless')
  BY <1>1, <1>2, <1>5, <1>6
<1>. HIDE DEF h
<1>. QED
  BY <1>1, <1>2, <1>7, BounceGood DEF h

LEMMA ReadEndArrayKeeps ==
  ASSUME IInv, ReadEndArray
  PROVE  IInv'
<1>1. Reading("end", "array") /\ nameless' = nameless /\ "array" \in Kinds
  BY DEF ReadEndArray, Kinds
<1>2. CASE AskFailed
  BY <1>1, <1>2, AskFailedGood
<1>3. ASSUME NEW passes \in BOOLEAN, Bounce("end", "array", dom, passes)
      PROVE  IInv'
  <2>1. Good(dom, nest, FALSE, ~nameless')
    <3>1. Going /\ ~keyed
      BY <1>1 DEF Reading, Legal, IInv
    <3>2. keyed = FALSE
      BY <3>1 DEF Going
    <3>. QED
      BY <1>1, <3>1, <3>2 DEF Going
  <2>. QED
    BY <1>1, <1>3, <2>1, EndKeeps
<1>. QED
  BY <1>2, <1>3 DEF ReadEndArray

LEMMA ReadEndObjectKeeps ==
  ASSUME IInv, ReadEndObject
  PROVE  IInv'
<1>1. Reading("end", "object") /\ "object" \in Kinds
  BY DEF ReadEndObject, Kinds
<1>2. CASE AskFailed
  <2>1. nameless => nameless'
    BY DEF ReadEndObject
  <2>. QED
    BY <1>1, <1>2, <2>1, AskFailedGood
<1>3. ASSUME NEW ks \in Injections(dom), NEW passes \in BOOLEAN,
             nameless' = (nameless \/ Empty \in ToSet(ks)),
             Bounce("end", "object", [InjectAll(dom, ks) EXCEPT !.ok = TRUE], passes)
      PROVE  IInv'
  <2>. DEFINE named == ~nameless'
              d == InjectAll(dom, ks)
  <2>1. Going /\ keyed = FALSE /\ nest # <<>> /\ nest[Len(nest)] = "object"
    <3>1. Going /\ ~keyed /\ nest # <<>> /\ nest[Len(nest)] = "object"
      BY <1>1 DEF Reading, Legal, IInv
    <3>. QED
      BY <3>1 DEF Going
  <2>2. IsNest(nest) /\ Good(dom, nest, FALSE, ~nameless)
    BY <2>1 DEF Going
  <2>3. Good(dom, nest, FALSE, named)
    BY <1>3, <2>2, GoodWeaker
  <2>4. /\ Len(ks) \in Nat
        /\ \A i \in 1 .. Len(ks) : ks[i] \in DOMAIN Defaults /\ (named => ks[i] # Empty)
    BY <1>3, InjectionsFacts
  <2>. HIDE DEF named
  <2>5. Good(d, nest, FALSE, named)
    BY <2>1, <2>2, <2>3, <2>4, InjectAllGood
  <2>. HIDE DEF d
  <2>6. [d EXCEPT !.ok = TRUE] = d
    <3>1. IsDom(d) /\ d.ok = TRUE
      BY <2>5 DEF Good, Placed
    <3>2. /\ d = [heap |-> d.heap, live |-> d.live, ctx |-> d.ctx, ok |-> d.ok]
          /\ [d EXCEPT !.ok = TRUE]
               = [heap |-> d.heap, live |-> d.live, ctx |-> d.ctx, ok |-> TRUE]
      BY <3>1, DomFields, Zenon DEF IsDom
    <3>. QED
      BY <3>1, <3>2
  <2>7. Bounce("end", "object", d, passes)
    BY <1>3, <2>6 DEF d
  <2>8. Good(d, nest, FALSE, ~nameless')
    BY <2>5 DEF named
  <2>. QED
    BY <1>1, <2>7, <2>8, EndKeeps
<1>4. ASSUME ~AskFailed
      PROVE  \E ks \in Injections(dom), passes \in BOOLEAN :
               /\ nameless' = (nameless \/ Empty \in ToSet(ks))
               /\ Bounce("end", "object", [InjectAll(dom, ks) EXCEPT !.ok = TRUE], passes)
  BY <1>4 DEF ReadEndObject
<1>. QED
  BY <1>2, <1>3, <1>4

LEMMA StoppedKeeps ==
  ASSUME IInv, NoValidation \/ TextEnds
  PROVE  IInv'
<1>1. Going /\ handles' = handles /\ result' = result /\ phase' = "stopped"
      /\ status' # "canceled" /\ refused' = refused /\ dom' = dom /\ nameless' = nameless
  BY DEF NoValidation, TextEnds, IInv, history
<1>2. result' = NULL /\ ~Unanswered'
  BY <1>1 DEF Going, Unanswered
<1>3. Settled(dom', ~nameless')
  <2>1. phase # "done"
    BY DEF NoValidation, TextEnds
  <2>2. Settled(dom, ~nameless)
    BY <2>1 DEF IInv
  <2>. QED
    BY <1>1, <2>2
<1>. QED
  BY <1>1, <1>2, <1>3 DEF IInv, CanceledForCause

LEMMA FinishHands ==
  ASSUME IInv, Finish
  PROVE  Handed(dom', result', ~nameless')
<1>. DEFINE ns == IF Unbalanced THEN Pending ELSE {}
            d  == IF Unbalanced THEN Release(dom, Pending) ELSE dom
            r  == dom.ctx[1]
<1>1. Settled(dom, ~nameless) /\ nameless' = nameless
  BY DEF IInv, Finish, history
<1>2. /\ Fit(dom, Roots(dom), ~nameless) /\ IsDom(dom) /\ NULL \notin 1 .. Len(dom.heap)
      /\ \A n \in 1 .. Len(dom.heap) : n \in Roots(dom) <=> n = r \/ n \in Pending
      /\ Len(dom.ctx) = 1 => r \in dom.live \cup {NULL}
      /\ Roots(dom) \subseteq 1 .. Len(dom.heap) /\ dom.live \subseteq 1 .. Len(dom.heap)
  <2>1. Fit(dom, Roots(dom), ~nameless)
    BY <1>1 DEF Settled
  <2>2. IsDom(dom) /\ dom.live \subseteq 1 .. Len(dom.heap)
    BY <2>1 DEF Fit, Tidy
  <2>. QED
    BY <1>1, <2>1, <2>2, NoAddress DEF Settled, Waiting, Pending, Roots
<1>3. ~Unbalanced => Len(dom.ctx) = 1 /\ Roots(dom) = {r} \ {NULL}
  <2>. SUFFICES ASSUME ~Unbalanced
                PROVE  Len(dom.ctx) = 1 /\ Roots(dom) = {r} \ {NULL}
    OBVIOUS
  <2>1. Len(dom.ctx) = 1
    <3>1. IsSeq(dom.ctx) /\ dom.ctx # <<>>
      BY <1>2 DEF IsDom
    <3>2. Len(dom.ctx) \in Nat /\ Len(dom.ctx) # 0
      BY <3>1, SeqFacts
    <3>3. ~(Len(dom.ctx) > 1)
      BY DEF Unbalanced
    <3>4. \A n \in Nat : n # 0 /\ ~(n > 1) => n = 1
      OBVIOUS
    <3>. QED
      BY <3>2, <3>3, <3>4
  <2>2. Here(dom) = r
    BY <2>1 DEF Here
  <2>. QED
    BY <1>2, <2>1, <2>2 DEF Roots
<1>4. CASE ParsedOK /\ ~Unbalanced
  <2>1. result' = r /\ dom' = dom
    BY <1>4 DEF Finish
  <2>. QED
    BY <1>1, <1>2, <1>3, <1>4, <2>1 DEF Handed
<1>5. CASE ~(ParsedOK /\ ~Unbalanced)
  <2>1. result' = NULL /\ dom' = Release(d, {r})
    BY <1>5 DEF Finish
  <2>2. /\ IsDom(d) /\ d.heap = dom.heap
        /\ d.live = dom.live \ UNION {Below(dom, n) : n \in ns}
    <3>1. CASE Unbalanced
      BY <1>2, <3>1, ReleaseFacts DEF Around
    <3>2. CASE ~Unbalanced
      BY <1>2, <3>2
    <3>. QED
      BY <3>1, <3>2
  <2>. DEFINE e == Release(d, {r})
  <2>. HIDE DEF d
  <2>3. /\ IsDom(e) /\ e.heap = d.heap
        /\ e.live = d.live \ UNION {Below(d, n) : n \in {r}}
    BY <2>2, ReleaseFacts DEF Around
  <2>4. Below(d, r) = Below(dom, r)
    BY <2>2 DEF Below
  <2>. DEFINE all == ns \cup {r}
  <2>. HIDE DEF e
  <2>5. e.live = dom.live \ UNION {Below(dom, n) : n \in all}
    BY <2>2, <2>3, <2>4
  <2>6. \A x \in Roots(dom) : x \in all
    BY <1>2, <1>3
  <2>7. \A n \in all : n \in 1 .. Len(dom.heap) => n \in Roots(dom)
    BY <1>2
  <2>. HIDE DEF all
  <2>8. Fit(e, {}, ~nameless)
    BY SMTT(40), <1>2, <2>2, <2>3, <2>5, <2>6, <2>7, AllReleased
  <2>9. {NULL} \ {NULL} = {}
    OBVIOUS
  <2>. QED
    BY <1>1, <2>1, <2>8, <2>9 DEF Handed, e
<1>. QED
  BY <1>4, <1>5

LEMMA FinishKeeps ==
  ASSUME IInv, Finish
  PROVE  IInv'
<1>1. /\ phase = "stopped" /\ phase' = "done" /\ status' = status /\ nest' = nest
      /\ refused' = refused /\ starved' = starved /\ handles' = handles
  BY DEF Finish, history, yajl
<1>2. Unanswered' = Unanswered /\ CanceledForCause
      /\ (Unanswered => Unbalanced \/ dom.ctx[1] = NULL)
  BY <1>1 DEF IInv, Unanswered
<1>3. Unanswered => result' = NULL
  BY <1>2 DEF Finish
<1>4. dom = Refuse(Blank) => dom' = dom
  <2>1. ASSUME dom = Refuse(Blank)
        PROVE  /\ ~Unbalanced
               /\ \A ns : Release(dom, ns) = dom
    <3>1. dom = [heap |-> <<>>, live |-> {}, ctx |-> <<NULL>>, ok |-> FALSE]
      BY <2>1 DEF Refuse, Blank
    <3>2. ~Unbalanced
      BY <3>1 DEF Unbalanced
    <3>3. ASSUME NEW ns
          PROVE  Release(dom, ns) = dom
      <4>. DEFINE gone == UNION {Below(dom, n) : n \in ns}
      <4>1. Release(dom, ns) = [dom EXCEPT !.live = @ \ gone]
        BY DEF Release
      <4>. HIDE DEF gone
      <4>. QED
        BY <3>1, <4>1
    <3>. QED
      BY <3>2, <3>3
  <2>. QED
    BY <2>1 DEF Finish
<1>5. CanceledForCause'
  BY <1>1, <1>2, <1>4 DEF CanceledForCause
<1>6. Handed(dom', result', ~nameless')
  BY FinishHands
<1>. QED
  BY <1>1, <1>2, <1>3, <1>5, <1>6 DEF IInv

(* Every step of the parse keeps the invariant: one lemma for each action. *)
LEMMA StepKeeps ==
  ASSUME IInv, [Next]_vars
  PROVE  IInv'
<1>1. ASSUME NEW s \in Scalars, ReadScalar(s)
      PROVE  IInv'
  BY <1>1, ReadScalarKeeps
<1>2. ASSUME NEW k \in Names, ReadKey(k)
      PROVE  IInv'
  BY <1>2, ReadKeyKeeps
<1>3. ASSUME NEW kind \in Kinds, ReadStart(kind) \/ StartFails(kind)
      PROVE  IInv'
  BY <1>3, ReadStartKeeps, StartFailsKeeps
<1>4. CASE ReadEndArray
  BY <1>4, ReadEndArrayKeeps
<1>5. CASE ReadEndObject
  BY <1>5, ReadEndObjectKeeps
<1>6. CASE NoValidation \/ TextEnds
  BY <1>6, StoppedKeeps
<1>7. CASE Finish
  BY <1>7, FinishKeeps
<1>8. CASE UNCHANGED vars
  BY <1>8 DEF vars, yajl, history, IInv, Going, Unanswered, CanceledForCause, Unbalanced
<1>. QED
  BY <1>1, <1>2, <1>3, <1>4, <1>5, <1>6, <1>7, <1>8 DEF Next

LEMMA StartKeeps ==
  ASSUME Init
  PROVE  IInv
<1>1. Going
  BY BlankGood DEF Init, Going
<1>2. Settled(dom, ~nameless)
  BY <1>1, GoodSettled DEF Going
<1>. QED
  BY <1>1, <1>2 DEF Init, IInv, CanceledForCause

LEMMA Invariance == Spec => []IInv
<1>1. Init => IInv
  BY StartKeeps
<1>2. IInv /\ [Next]_vars => IInv'
  BY StepKeeps
<1>. QED
  BY <1>1, <1>2, PTL DEF Spec

(* As long as jdom_parse_ex hands events to the dom_ handlers, whatever the
   document, its depth and the defaults that are injected, the chain of
   DomInfo contexts mirrors the containers that are open in the text. *)
THEOREM ContextsMirror == Spec => []ContextMirrorsText
<1>1. IInv => ContextMirrorsText
  <2>. SUFFICES ASSUME IInv, phase = "parsing"
                PROVE  /\ Len(dom.ctx) = Len(nest) + 1
                       /\ \A i \in DOMAIN nest : KindAt(dom, dom.ctx[i]) = nest[i]
                       /\ ~nameless => \A i \in 2 .. Len(nest) :
                                         dom.ctx[i] \in Pointed(dom.heap, dom.ctx[i - 1])
                       /\ nest # <<>> => (IF keyed THEN HasKey(dom) ELSE Here(dom) = NULL)
    BY DEF ContextMirrorsText
  <2>1. IsDom(dom) /\ IsSeq(nest) /\ Mirrors(dom, nest, keyed, ~nameless)
    BY DEF IInv, Going, Good, Placed, IsNest
  <2>2. Chain(dom, nest, ~nameless) /\ DOMAIN nest = 1 .. Len(nest) /\ Len(nest) \in Nat
    BY <2>1, SeqFacts DEF Mirrors
  <2>3. \A i \in DOMAIN nest : KindAt(dom, dom.ctx[i]) = nest[i]
    BY <2>1, <2>2, Addresses DEF Chain, KindAt
  <2>4. ASSUME ~nameless, NEW i \in 2 .. Len(nest)
        PROVE  dom.ctx[i] \in Pointed(dom.heap, dom.ctx[i - 1])
    <3>1. i - 1 \in 1 .. Len(nest) - 1 /\ (i - 1) + 1 = i
      BY <2>2
    <3>2. dom.ctx[(i - 1) + 1] \in Pointed(dom.heap, dom.ctx[i - 1])
      BY <2>2, <2>4, <3>1 DEF Chain
    <3>. QED
      BY <3>1, <3>2
  <2>. QED
    BY <2>1, <2>3, <2>4 DEF Mirrors
<1>. QED
  BY <1>1, Invariance, PTL

(* Whatever legal JSON yajl delivers, the dom_ handlers cancel the parse only
   for a value outside of any container: any other cancellation has its cause
   in the validator or in the memory. *)
THEOREM CancelsForCause == Spec => []CanceledForCause
<1>1. IInv => CanceledForCause
  BY DEF IInv
<1>. QED
  BY <1>1, Invariance, PTL

(* A refusal by the validator leaves jdom_parse_ex without a document unless
   the client's m_schema callback answered for it, whatever the other
   callbacks return. *)
THEOREM RefusalsFinal == Spec => []RefusalIsFinal
<1>1. IInv => RefusalIsFinal
  BY DEF IInv, Going, Unanswered, RefusalIsFinal
<1>. QED
  BY <1>1, Invariance, PTL

-------------------------------------------------------------------------------
(* Ownership. *)

(* What is allocated is what the roots hold. *)
LEMMA FitOwned ==
  ASSUME NEW d, NEW R, NEW named, Fit(d, R, named),
         NEW ns, \A r \in R : r \in ns, \A n \in ns : n \in 1 .. Len(d.heap) => n \in R
  PROVE  LET owned == UNION {Below(d, n) : n \in ns}
         IN  owned \subseteq d.live /\ (named => d.live = owned)
<1>. DEFINE owned == UNION {Below(d, n) : n \in ns}
<1>1. /\ IsHeap(d.heap) /\ Tidy(d.heap, d.live, R, named) /\ R \subseteq d.live
      /\ d.live \subseteq 1 .. Len(d.heap) /\ DOMAIN d.heap = 1 .. Len(d.heap)
  BY Addresses DEF Fit, Tidy
<1>2. \A n \in ns : Below(d, n) = IF n \in R THEN Reach(d.heap)[n] ELSE {}
  BY <1>1 DEF Below
<1>3. \A q : q \in owned <=> \E r \in R : q \in Reach(d.heap)[r]
  BY <1>2
<1>. HIDE DEF owned
<1>4. owned \subseteq d.live
  <2>1. \A r \in R : Reach(d.heap)[r] \subseteq d.live
    BY <1>1, ReachAlive
  <2>. QED
    BY <1>3, <2>1
<1>5. ASSUME named
      PROVE  d.live = owned
  <2>1. Tidy(d.heap, d.live, R, TRUE)
    BY <1>1, <1>5 DEF Tidy
  <2>2. \A n \in d.live : \E r \in R : n \in Reach(d.heap)[r]
    BY <1>1, <2>1, AliveReached
  <2>. QED
    BY <1>3, <1>4, <2>2
<1>. QED
  BY <1>4, <1>5 DEF owned

(* No value is an item twice. *)
LEMMA HeldOnce ==
  ASSUME NEW R, NEW named, Fit(dom, R, named), NEW p \in dom.live
  PROVE  Cardinality(Places(p)) <= 1
<1>1. /\ dom.live \subseteq 1 .. Len(dom.heap)
      /\ \A m, n \in dom.live : \A i, j, k, l :
           Points(dom.heap, m, i, j, p) /\ Points(dom.heap, n, k, l, p)
             => m = n /\ i = k /\ j = l
  BY DEF Fit, Tidy
<1>2. \A n \in dom.live : DOMAIN dom.heap[n].items = 1 .. Len(dom.heap[n].items)
  BY <1>1, SeqFacts DEF Fit, IsHeap, IsNode
<1>3. ASSUME NEW c \in Places(p)
      PROVE  \E n \in dom.live : \E i, j : c = <<n, i, j>> /\ Points(dom.heap, n, i, j, p)
  <2>1. PICK n \in dom.live : c \in {n} \X (DOMAIN dom.heap[n].items) \X {1, 2}
    BY <1>3 DEF Places
  <2>2. c = <<n, c[2], c[3]>> /\ c[2] \in DOMAIN dom.heap[n].items /\ c[3] \in {1, 2}
    BY <2>1
  <2>3. dom.heap[n].items[c[2]][c[3]] = p
    BY <1>3, <2>2 DEF Places
  <2>4. Points(dom.heap, n, c[2], c[3], p)
    BY <1>1, <1>2, <2>2, <2>3 DEF Points
  <2>. QED
    BY <2>2, <2>4
<1>4. \A c, e \in Places(p) : c = e
  <2>. SUFFICES ASSUME NEW c \in Places(p), NEW e \in Places(p) PROVE c = e
    OBVIOUS
  <2>1. PICK m \in dom.live : \E i, j : c = <<m, i, j>> /\ Points(dom.heap, m, i, j, p)
    BY <1>3
  <2>2. PICK n \in dom.live : \E i, j : e = <<n, i, j>> /\ Points(dom.heap, n, i, j, p)
    BY <1>3
  <2>. QED
    BY <1>1, <2>1, <2>2
<1>5. CASE Places(p) = {}
  BY <1>5, FS_EmptySet
<1>6. CASE Places(p) # {}
  <2>1. PICK c : c \in Places(p)
    BY <1>6
  <2>2. Places(p) = {c}
    BY <1>4, <2>1
  <2>. QED
    BY <2>2, FS_Singleton
<1>. QED
  BY <1>5, <1>6

(* Whatever is read, wherever the text stops and whoever refuses what, no
   value of the document being built is lost, none is freed twice, and none is
   left but those of the document the client gets; only the value of a member
   without a name is lost. *)
THEOREM OwnershipHolds == Spec => []Ownership
<1>1. ASSUME IInv PROVE Ownership
  <2>1. CASE phase = "done"
    <3>1. Fit(dom, {result} \ {NULL}, ~nameless)
      BY <1>1, <2>1 DEF IInv, Handed
    <3>2. IsDom(dom) /\ NULL \notin 1 .. Len(dom.heap)
      BY <3>1, NoAddress DEF Fit
    <3>3. \A r \in {result} \ {NULL} : r \in {result}
      OBVIOUS
    <3>4. \A n \in {result} : n \in 1 .. Len(dom.heap) => n \in {result} \ {NULL}
      BY <3>2
    <3>5. UNION {Below(dom, n) : n \in {result}} = Below(dom, result)
      OBVIOUS
    <3>6. /\ Below(dom, result) \subseteq dom.live
          /\ ~nameless => dom.live = Below(dom, result)
      BY <3>1, <3>3, <3>4, <3>5, FitOwned
    <3>7. \A p \in dom.live : Cardinality(Places(p)) <= 1
      BY <3>1, HeldOnce
    <3>. QED
      BY <2>1, <3>6, <3>7 DEF Ownership
  <2>2. CASE phase # "done"
    <3>. DEFINE ns == {dom.ctx[1]} \cup Pending
    <3>1. /\ Fit(dom, Roots(dom), ~nameless)
          /\ \A n \in 1 .. Len(dom.heap) : n \in Roots(dom) <=> n \in ns
      BY <1>1, <2>2 DEF IInv, Settled, Waiting, Pending
    <3>2. Roots(dom) \subseteq 1 .. Len(dom.heap)
      BY DEF Roots
    <3>3. (\A r \in Roots(dom) : r \in ns)
          /\ \A n \in ns : n \in 1 .. Len(dom.heap) => n \in Roots(dom)
      BY <3>1, <3>2
    <3>. HIDE DEF ns
    <3>4. /\ UNION {Below(dom, n) : n \in ns} \subseteq dom.live
          /\ ~nameless => dom.live = UNION {Below(dom, n) : n \in ns}
      BY <3>1, <3>3, FitOwned
    <3>5. \A p \in dom.live : Cardinality(Places(p)) <= 1
      BY <3>1, HeldOnce
    <3>. QED
      BY <2>2, <3>4, <3>5 DEF Ownership, ns
  <2>. QED
    BY <2>1, <2>2
<1>. QED
  BY <1>1, Invariance, PTL

(* The variables but for the document *)
Typed ==
  /\ status \in {"none", "ok", "canceled", "error", "insufficient data", "not run"}
  /\ handles \in Clients
  /\ validator \in {"ready", "failed"}
  /\ nest \in Seq(Kinds)
  /\ read \in 0 .. MaxEvents
  /\ keyed \in BOOLEAN /\ whole \in BOOLEAN
  /\ refused \in BOOLEAN /\ nameless \in BOOLEAN /\ starved \in BOOLEAN

LEMMA ReadingTyped ==
  ASSUME Typed, NEW op, NEW arg, Reading(op, arg), op = "start" => arg \in Kinds,
         op \in {"value", "key", "start", "end"}
  PROVE  /\ handles' \in Clients /\ nest' \in Seq(Kinds)
         /\ read' \in 0 .. MaxEvents /\ keyed' \in BOOLEAN /\ whole' \in BOOLEAN
<1>1. read' \in 0 .. MaxEvents
  <2>1. MaxEvents \in Nat
    BY DomConstants
  <2>2. read \in 0 .. MaxEvents
    BY DEF Typed
  <2>3. read < MaxEvents /\ read' = read + 1
    BY Zenon DEF Reading
  <2>. QED
    BY <2>1, <2>2, <2>3
<1>2. handles' \in Clients
  BY DEF Reading, Typed
<1>3. keyed' \in BOOLEAN
  BY Zenon DEF Reading, Advance
<1>4. whole' \in BOOLEAN
  BY Zenon DEF Reading, Advance
<1>5. nest \in Seq(Kinds)
  BY DEF Typed
<1>6. nest' \in Seq(Kinds)
  <2>1. CASE op = "start"
    BY <1>5, <2>1 DEF Reading, Advance
  <2>2. CASE op = "end" /\ nest = <<>>
    <3>1. Len(<<>>) = 0 /\ Front(<<>>) = SubSeq(<<>>, 1, Len(<<>>) - 1)
      BY EmptySeq DEF Front
    <3>2. /\ <<>> \in Seq(Kinds) /\ 1 \in Int /\ Len(<<>>) - 1 \in Int
          /\ \A i \in 1 .. Len(<<>>) - 1 : <<>>[i] \in Kinds
      BY <3>1
    <3>3. Front(<<>>) \in Seq(Kinds)
      BY <3>1, <3>2, SubSeqProperties
    <3>. QED
      BY <2>2, <3>3 DEF Reading, Advance
  <2>3. CASE op = "end" /\ nest # <<>>
    <3>1. nest' = Front(nest)
      BY <2>3 DEF Reading, Advance
    <3>2. Len(nest) \in Nat /\ \A i \in 1 .. Len(nest) - 1 : nest[i] \in Kinds
      BY <1>5
    <3>3. Front(nest) = SubSeq(nest, 1, Len(nest) - 1) /\ Len(nest) - 1 \in Int /\ 1 \in Int
      BY <3>2 DEF Front
    <3>4. Front(nest) \in Seq(Kinds)
      BY <1>5, <3>2, <3>3, SubSeqProperties
    <3>. QED
      BY <3>1, <3>4
  <2>4. CASE op # "start" /\ op # "end"
    BY <1>5, <2>4 DEF Reading, Advance
  <2>. QED
    BY <2>1, <2>2, <2>3, <2>4
<1>. QED
  BY <1>1, <1>2, <1>3, <1>4, <1>6

LEMMA BounceTyped ==
  ASSUME Typed, NEW op, NEW arg, NEW d,
         AskFailed \/ \E passes \in BOOLEAN : Bounce(op, arg, d, passes)
  PROVE  /\ status' \in {"none", "ok", "canceled", "error", "insufficient data", "not run"}
         /\ validator' \in {"ready", "failed"} /\ refused' \in BOOLEAN
BY DEF Typed, AskFailed, Bounce

LEMMA TypedKept ==
  ASSUME Typed, [Next]_vars
  PROVE  Typed'
<1>1. ASSUME NEW s \in Scalars, ReadScalar(s)
      PROVE  Typed'
  <2>1. /\ Reading("value", s) /\ UNCHANGED <<nameless, starved>>
        /\ AskFailed \/ \E passes \in BOOLEAN : Bounce("value", s, dom, passes)
    BY <1>1 DEF ReadScalar
  <2>. QED
    BY <2>1, ReadingTyped, BounceTyped DEF Typed
<1>2. ASSUME NEW k \in Names, ReadKey(k)
      PROVE  Typed'
  <2>1. /\ Reading("key", k) /\ nameless' \in BOOLEAN /\ starved' = starved
        /\ AskFailed \/ \E passes \in BOOLEAN : Bounce("key", k, dom, passes)
    BY <1>2 DEF ReadKey, Typed
  <2>. QED
    BY <2>1, ReadingTyped, BounceTyped DEF Typed
<1>3. ASSUME NEW kind \in Kinds, ReadStart(kind)
      PROVE  Typed'
  <2>1. /\ Reading("start", kind) /\ UNCHANGED <<nameless, starved>>
        /\ AskFailed \/ \E passes \in BOOLEAN : Bounce("start", kind, dom, passes)
    BY <1>3 DEF ReadStart
  <2>. QED
    BY <2>1, ReadingTyped, BounceTyped DEF Typed
<1>4. ASSUME NEW kind \in Kinds, StartFails(kind)
      PROVE  Typed'
  <2>1. Reading("start", kind)
    BY <1>4 DEF StartFails
  <2>. QED
    BY <1>4, <2>1, ReadingTyped DEF Typed, StartFails
<1>5. CASE ReadEndArray
  <2>1. /\ Reading("end", "array") /\ UNCHANGED <<nameless, starved>>
        /\ AskFailed \/ \E passes \in BOOLEAN : Bounce("end", "array", dom, passes)
    BY <1>5 DEF ReadEndArray
  <2>. QED
    BY <2>1, ReadingTyped, BounceTyped DEF Typed
<1>6. CASE ReadEndObject
  <2>1. /\ Reading("end", "object") /\ nameless' \in BOOLEAN /\ starved' = starved
    BY <1>6 DEF ReadEndObject, Typed
  <2>2. \/ AskFailed
        \/ \E d : \E passes \in BOOLEAN : Bounce("end", "object", d, passes)
    BY <1>6 DEF ReadEndObject
  <2>. QED
    BY <2>1, <2>2, ReadingTyped, BounceTyped DEF Typed
<1>7. CASE NoValidation \/ TextEnds
  BY <1>7 DEF NoValidation, TextEnds, Typed, yajl, history
<1>8. CASE Finish
  BY <1>8 DEF Finish, Typed, yajl, history
<1>9. CASE UNCHANGED vars
  BY <1>9 DEF vars, yajl, history, Typed
<1>. QED
  BY <1>1, <1>2, <1>3, <1>4, <1>5, <1>6, <1>7, <1>8, <1>9 DEF Next

(* Every variable keeps its type: what a value points to was created after it,
   and the contexts of the parser, and the client, hold no value that is
   freed. *)
THEOREM TypesHold == Spec => []TypeOK
<1>1. Init => Typed
  <2>1. <<>> \in Seq(Kinds) /\ 0 \in 0 .. MaxEvents
    BY DomConstants, EmptySeq
  <2>. QED
    BY <2>1 DEF Init, Typed
<1>2. Typed /\ [Next]_vars => Typed'
  BY TypedKept
<1>3. ASSUME IInv, Typed PROVE TypeOK
  <2>1. PICK R : Fit(dom, R, ~nameless) /\ R = IF phase = "done" THEN {result} \ {NULL}
                                                ELSE Roots(dom)
    BY <1>3 DEF IInv, Handed, Settled
  <2>2. /\ IsDom(dom) /\ IsHeap(dom.heap) /\ dom.live \subseteq 1 .. Len(dom.heap)
        /\ R \subseteq dom.live /\ DOMAIN dom.heap = 1 .. Len(dom.heap)
    BY <2>1, Addresses DEF Fit, Tidy
  <2>3. \A n \in DOMAIN dom.heap : \A p \in Pointed(dom.heap, n) : p > n
    BY <2>2, PointedLater
  <2>4. dom.ctx # <<>>
    BY <2>2 DEF IsDom
  <2>5. phase # "done" => ToSet(dom.ctx) \subseteq dom.live \cup Statics \cup {NULL}
    <3>. SUFFICES ASSUME phase # "done", NEW i \in DOMAIN dom.ctx
                  PROVE  dom.ctx[i] \in dom.live \cup Statics \cup {NULL}
      BY DEF ToSet
    <3>1. i \in 1 .. Len(dom.ctx)
      BY <2>2, SeqFacts DEF IsDom
    <3>. QED
      BY <1>3, <3>1 DEF IInv, Settled
  <2>6. result \in dom.live \cup {NULL}
    <3>1. phase = "parsing" \/ phase = "stopped" => result = NULL
      BY <1>3 DEF IInv, Going
    <3>2. phase = "done" => result \in dom.live \cup {NULL}
      BY <2>1, <2>2
    <3>3. phase = "undefined" => result = NULL
      BY <1>3 DEF IInv
    <3>. QED
      BY <1>3, <3>1, <3>2, <3>3 DEF IInv
  <2>. QED
    BY <1>3, <2>2, <2>3, <2>4, <2>5, <2>6 DEF TypeOK, Typed, IInv
<1>. QED
  BY <1>1, <1>2, <1>3, Invariance, PTL DEF Spec

-------------------------------------------------------------------------------
(* The document each address is the root of: the recursion of Trees has one   *)
(* solution, because what a value points to was created later.                *)

(* What is at an address, T being the documents of the values that are there. *)
Sub(d, T, p) == IF p \in DOMAIN d.heap THEN T[p] ELSE p

KeyOf(d, items, i) == TextAt(d, items[i][1])

KeysOf(d, items) == {KeyOf(d, items, i) : i \in DOMAIN items}

Elements(d, T, items) == [i \in DOMAIN items |-> Sub(d, T, items[i][2])]

Members(d, T, items) ==
  [k \in KeysOf(d, items) |->
     Sub(d, T, items[CHOOSE i \in DOMAIN items : KeyOf(d, items, i) = k][2])]

Body(d, T, n) ==
  CASE d.heap[n].kind = "array"  -> [kind |-> "array", members |-> Elements(d, T, d.heap[n].items)]
    [] d.heap[n].kind = "object" -> [kind |-> "object", members |-> Members(d, T, d.heap[n].items)]
    [] OTHER                     -> d.heap[n].text

Grows(d, f, m) ==
  f = [n \in (Len(d.heap) - m + 1) .. Len(d.heap) |-> Body(d, f, n)]

(* Items whose values T and U agree on *)
LEMMA SameInside ==
  ASSUME NEW d, NEW T, NEW U, NEW items,
         \A i \in DOMAIN items : Sub(d, T, items[i][2]) = Sub(d, U, items[i][2])
  PROVE  Elements(d, T, items) = Elements(d, U, items) /\ Members(d, T, items) = Members(d, U, items)
<1>1. Elements(d, T, items) = Elements(d, U, items)
  BY DEF Elements
<1>2. Members(d, T, items) = Members(d, U, items)
  <2>. DEFINE at(k) == CHOOSE i \in DOMAIN items : KeyOf(d, items, i) = k
              K == KeysOf(d, items)
  <2>1. \A k \in K : at(k) \in DOMAIN items
    BY DEF KeysOf
  <2>2. Members(d, T, items) = [k \in K |-> Sub(d, T, items[at(k)][2])]
    BY Zenon DEF Members
  <2>3. Members(d, U, items) = [k \in K |-> Sub(d, U, items[at(k)][2])]
    BY Zenon DEF Members
  <2>. HIDE DEF at, K
  <2>4. \A k \in K : Sub(d, T, items[at(k)][2]) = Sub(d, U, items[at(k)][2])
    BY <2>1
  <2>. QED
    BY <2>2, <2>3, <2>4
<1>. QED
  BY <1>1, <1>2

LEMMA SameBody ==
  ASSUME NEW d, IsDom(d), IsHeap(d.heap), NEW n \in 1 .. Len(d.heap), NEW T, NEW U,
         \A p \in Pointed(d.heap, n) : T[p] = U[p]
  PROVE  Body(d, T, n) = Body(d, U, n)
<1>. DEFINE items == d.heap[n].items
<1>1. \A i \in DOMAIN items : Sub(d, T, items[i][2]) = Sub(d, U, items[i][2])
  BY DEF Sub, Pointed
<1>2. Elements(d, T, items) = Elements(d, U, items) /\ Members(d, T, items) = Members(d, U, items)
  <2>. HIDE DEF items
  <2>. QED
    BY <1>1, SameInside
<1>. QED
  BY <1>2 DEF Body

LEMMA GrowsExist ==
  ASSUME NEW d, IsDom(d), IsHeap(d.heap), NEW m \in 0 .. Len(d.heap)
  PROVE  \E f : Grows(d, f, m)
<1>. DEFINE h == d.heap
            L == Len(h)
            T == {k \in 0 .. L : ~ \E f : Grows(d, f, k)}
<1>1. SUFFICES ASSUME T # {} PROVE FALSE
  OBVIOUS
<1>2. L \in Nat /\ T \subseteq Nat
  BY SeqFacts DEF IsHeap
<1>3. PICK k \in T : \A j \in T : ~(j < k)
  <2>. HIDE DEF T
  <2>. QED
    BY <1>1, <1>2, LeastOf
<1>4. k \in 0 .. L /\ ~ \E f : Grows(d, f, k)
  BY <1>3
<1>5. CASE k = 0
  <2>. DEFINE f == [n \in (L + 1) .. L |-> {}]
  <2>1. f = [n \in (L - 0 + 1) .. L |-> Body(d, f, n)]
    BY <1>2
  <2>2. Grows(d, f, 0)
    BY <2>1 DEF Grows
  <2>. QED
    BY <1>4, <1>5, <2>2
<1>6. CASE k # 0
  <2>1. k - 1 \in 0 .. L /\ k - 1 < k
    BY <1>2, <1>4, <1>6
  <2>2. PICK f : Grows(d, f, k - 1)
    BY <1>3, <2>1
  <2>. DEFINE b == L - k + 1
              g == [n \in b .. L |-> IF n = b THEN Body(d, f, b) ELSE f[n]]
  <2>3. b \in 1 .. L /\ L - (k - 1) + 1 = b + 1
    BY <1>2, <1>4, <1>6
  <2>. HIDE DEF b
  <2>4. \A n \in (b + 1) .. L : f[n] = Body(d, f, n)
    BY <2>2, <2>3 DEF Grows
  <2>5. \A n \in b .. L : \A p \in Pointed(h, n) : p \in (b + 1) .. L /\ p # b
    <3>. TAKE n \in b .. L
    <3>. TAKE p \in Pointed(h, n)
    <3>1. n \in 1 .. L
      BY <1>2, <2>3
    <3>2. p \in 1 .. L /\ p > n
      BY <3>1, PointedLater
    <3>. QED
      BY <1>2, <2>3, <3>1, <3>2
  <2>6. \A n \in b .. L : \A p \in Pointed(h, n) : g[p] = f[p]
    <3>1. \A p \in (b + 1) .. L : p \in b .. L
      BY <1>2, <2>3
    <3>. QED
      BY <2>5, <3>1
  <2>7. \A n \in b .. L : g[n] = IF n = b THEN Body(d, f, b) ELSE f[n]
    OBVIOUS
  <2>8. g = [n \in b .. L |-> g[n]]
    OBVIOUS
  <2>. HIDE DEF g
  <2>9. \A n \in b .. L : Body(d, g, n) = Body(d, f, n)
    <3>. TAKE n \in b .. L
    <3>1. n \in 1 .. L
      BY <1>2, <2>3
    <3>. QED
      BY <2>6, <3>1, SameBody
  <2>10. \A n \in b .. L : g[n] = Body(d, g, n)
    <3>. TAKE n \in b .. L
    <3>1. n # b => n \in (b + 1) .. L
      BY <1>2, <2>3
    <3>. QED
      BY <2>4, <2>7, <2>9, <3>1
  <2>11. g = [n \in b .. L |-> Body(d, g, n)]
    BY <2>8, <2>10
  <2>12. Grows(d, g, k)
    BY <2>11, Zenon DEF Grows, b, L, h
  <2>. QED
    BY <1>4, <2>12
<1>. QED
  BY <1>5, <1>6

LEMMA TreesAre ==
  ASSUME NEW d, IsDom(d), IsHeap(d.heap), NEW n \in 1 .. Len(d.heap)
  PROVE  Trees(d)[n] = Body(d, Trees(d), n)
<1>. DEFINE R == CHOOSE R : R = [x \in DOMAIN d.heap |-> Body(d, R, x)]
<1>1. Len(d.heap) \in Nat /\ DOMAIN d.heap = 1 .. Len(d.heap)
      /\ Len(d.heap) - Len(d.heap) + 1 = 1 /\ Len(d.heap) \in 0 .. Len(d.heap)
  BY SeqFacts DEF IsHeap
<1>2. PICK f : Grows(d, f, Len(d.heap))
  BY <1>1, GrowsExist
<1>3. f = [x \in DOMAIN d.heap |-> Body(d, f, x)]
  BY <1>1, <1>2, Zenon DEF Grows
<1>4. R = [x \in DOMAIN d.heap |-> Body(d, R, x)]
  BY <1>3, Zenon
<1>5. Trees(d) = R
  BY Zenon DEF Trees, Body, Elements, Members, Sub, KeysOf, KeyOf
<1>. HIDE DEF R
<1>6. R[n] = Body(d, R, n)
  BY <1>1, <1>4
<1>. QED
  BY <1>5, <1>6

(* The keys of an object differ. *)
Distinct(d, items) ==
  \A i, j \in DOMAIN items : KeyOf(d, items, i) = KeyOf(d, items, j) => i = j

Unlike(d) ==
  \A n \in 1 .. Len(d.heap) : d.heap[n].kind = "object" => Distinct(d, d.heap[n].items)

Elems(d, n) == Elements(d, Trees(d), d.heap[n].items)
Pairs(d, n) == Members(d, Trees(d), d.heap[n].items)

LEMMA TreeOf ==
  ASSUME NEW d, IsDom(d), IsHeap(d.heap), NEW n \in 1 .. Len(d.heap)
  PROVE  Tree(d, n) = CASE d.heap[n].kind = "array"  -> [kind |-> "array", members |-> Elems(d, n)]
                        [] d.heap[n].kind = "object" -> [kind |-> "object", members |-> Pairs(d, n)]
                        [] OTHER                     -> d.heap[n].text
<1>1. n \in DOMAIN d.heap
  BY Addresses
<1>2. Tree(d, n) = Trees(d)[n]
  BY <1>1 DEF Tree
<1>3. Trees(d)[n] = Body(d, Trees(d), n)
  BY TreesAre
<1>. QED
  BY <1>2, <1>3, Zenon DEF Body, Elems, Pairs

LEMMA MembersAt ==
  ASSUME NEW d, NEW T, NEW items, Distinct(d, items)
  PROVE  /\ DOMAIN Members(d, T, items) = KeysOf(d, items)
         /\ \A i \in DOMAIN items : Members(d, T, items)[KeyOf(d, items, i)] = Sub(d, T, items[i][2])
<1>. DEFINE at(k) == CHOOSE i \in DOMAIN items : KeyOf(d, items, i) = k
            K == KeysOf(d, items)
<1>1. \A k \in K : at(k) \in DOMAIN items /\ KeyOf(d, items, at(k)) = k
  BY DEF KeysOf
<1>2. Members(d, T, items) = [k \in K |-> Sub(d, T, items[at(k)][2])]
  BY Zenon DEF Members
<1>3. \A i \in DOMAIN items : KeyOf(d, items, i) \in K
  BY DEF KeysOf
<1>. HIDE DEF at
<1>4. \A i \in DOMAIN items : at(KeyOf(d, items, i)) = i
  BY <1>1, <1>3 DEF Distinct
<1>. HIDE DEF K
<1>5. DOMAIN Members(d, T, items) = K
  BY <1>2
<1>6. \A i \in DOMAIN items : Members(d, T, items)[KeyOf(d, items, i)] = Sub(d, T, items[i][2])
  BY <1>2, <1>3, <1>4
<1>. QED
  BY <1>5, <1>6 DEF K

(* Items with the same keys and values in d and in e *)
LEMMA SameItems ==
  ASSUME NEW d, NEW e, NEW T, NEW U, NEW items, Distinct(d, items),
         \A i \in DOMAIN items : /\ KeyOf(d, items, i) = KeyOf(e, items, i)
                                 /\ Sub(d, T, items[i][2]) = Sub(e, U, items[i][2])
  PROVE  /\ Elements(d, T, items) = Elements(e, U, items)
         /\ Members(d, T, items) = Members(e, U, items)
         /\ Distinct(e, items)
<1>1. Elements(d, T, items) = Elements(e, U, items)
  BY DEF Elements
<1>2. Distinct(e, items)
  BY DEF Distinct
<1>. DEFINE f == Members(d, T, items)
            g == Members(e, U, items)
            K == KeysOf(d, items)
            J == KeysOf(e, items)
<1>3. DOMAIN f = K /\ \A i \in DOMAIN items : f[KeyOf(d, items, i)] = Sub(d, T, items[i][2])
  <2>1. Distinct(d, items)
    OBVIOUS
  <2>. QED
    BY ONLY <2>1, MembersAt
<1>4. DOMAIN g = K /\ \A i \in DOMAIN items : g[KeyOf(d, items, i)] = Sub(e, U, items[i][2])
  <2>1. DOMAIN g = J /\ \A i \in DOMAIN items : g[KeyOf(e, items, i)] = Sub(e, U, items[i][2])
    BY ONLY <1>2, MembersAt
  <2>2. J = K
    BY DEF KeysOf
  <2>. HIDE DEF g, J, K
  <2>. QED
    BY <2>1, <2>2
<1>5. f = [k \in DOMAIN f |-> f[k]] /\ g = [k \in DOMAIN g |-> g[k]]
  BY DEF Members
<1>. HIDE DEF f, g
<1>6. \A k \in K : f[k] = g[k]
  BY <1>3, <1>4 DEF KeysOf
<1>. HIDE DEF K
<1>7. f = g
  BY <1>3, <1>4, <1>5, <1>6
<1>. QED
  BY <1>1, <1>2, <1>7 DEF f, g

(* The values of S, which hold only values of S, are the same in d and in e. *)
Alike(d, e, S) ==
  /\ IsDom(d) /\ IsHeap(d.heap) /\ Unlike(d)
  /\ IsDom(e) /\ IsHeap(e.heap) /\ Len(d.heap) <= Len(e.heap)
  /\ S \subseteq 1 .. Len(d.heap)
  /\ \A n \in S : e.heap[n] = d.heap[n] /\ Pointed(d.heap, n) \subseteq S

(* An address that is in S, or of no value, or of one that was created since *)
LEMMA SameText ==
  ASSUME NEW d, NEW e, NEW S, Alike(d, e, S), NEW p, Target(d.heap, p),
         p \in 1 .. Len(d.heap) => p \in S
  PROVE  TextAt(e, p) = TextAt(d, p)
<1>1. DOMAIN d.heap = 1 .. Len(d.heap) /\ DOMAIN e.heap = 1 .. Len(e.heap)
      /\ Len(d.heap) \in Nat /\ Len(e.heap) \in Nat /\ Len(d.heap) <= Len(e.heap)
  BY Addresses DEF Alike
<1>2. CASE p \in 1 .. Len(d.heap)
  BY <1>1, <1>2 DEF TextAt, Alike
<1>3. CASE p \notin 1 .. Len(d.heap)
  <2>1. p \in Statics \cup {NULL}
    BY <1>3 DEF Target
  <2>2. p \notin 1 .. Len(e.heap)
    BY <1>1, <2>1, DomConstants DEF Statics
  <2>. QED
    BY <1>1, <1>3, <2>2 DEF TextAt
<1>. QED
  BY <1>2, <1>3

LEMMA SameTrees ==
  ASSUME NEW d, NEW e, NEW S, Alike(d, e, S), NEW n \in S
  PROVE  Trees(e)[n] = Trees(d)[n]
<1>. DEFINE same(x) == Trees(e)[x] = Trees(d)[x]
            T == {x \in S : ~same(x)}
<1>1. SUFFICES ASSUME T # {} PROVE FALSE
  OBVIOUS
<1>2. /\ Len(d.heap) \in Nat /\ Len(e.heap) \in Nat /\ Len(d.heap) <= Len(e.heap)
      /\ DOMAIN d.heap = 1 .. Len(d.heap) /\ DOMAIN e.heap = 1 .. Len(e.heap)
  BY Addresses DEF Alike
<1>3. PICK m \in T : \A x \in T : x <= m
  <2>1. T \subseteq 1 .. Len(d.heap)
    BY DEF Alike
  <2>. HIDE DEF T
  <2>. QED
    BY <1>1, <1>2, <2>1, GreatestOf
<1>4. m \in S /\ ~same(m) /\ m \in 1 .. Len(d.heap) /\ m \in 1 .. Len(e.heap)
  BY <1>2, <1>3 DEF Alike
<1>. DEFINE items == d.heap[m].items
<1>5. e.heap[m] = d.heap[m] /\ IsNode(d.heap[m]) /\ DOMAIN items = 1 .. Len(items)
  BY <1>4, SeqFacts DEF Alike, IsDom, IsNode
<1>6. \A p \in Pointed(d.heap, m) : p \in S /\ same(p)
  <2>. SUFFICES ASSUME NEW p \in Pointed(d.heap, m) PROVE p \in S /\ same(p)
    OBVIOUS
  <2>1. p \in S /\ p \in 1 .. Len(d.heap) /\ p > m
    BY <1>4, PointedLater DEF Alike
  <2>2. ~(p <= m)
    BY SMTT(40), <1>2, <1>4, <2>1
  <2>. QED
    BY <1>3, <2>1, <2>2
<1>7. ASSUME NEW i \in DOMAIN items, NEW j \in {1, 2}
      PROVE  /\ Target(d.heap, items[i][j])
             /\ items[i][j] \in 1 .. Len(d.heap) => items[i][j] \in Pointed(d.heap, m)
  <2>1. Target(d.heap, items[i][j])
    BY <1>4, <1>5 DEF Alike, IsHeap
  <2>. QED
    BY <1>2, <2>1 DEF Pointed
<1>8. \A i \in DOMAIN items : /\ KeyOf(d, items, i) = KeyOf(e, items, i)
                              /\ Sub(d, Trees(d), items[i][2]) = Sub(e, Trees(e), items[i][2])
  <2>. SUFFICES ASSUME NEW i \in DOMAIN items
                PROVE  /\ KeyOf(d, items, i) = KeyOf(e, items, i)
                       /\ Sub(d, Trees(d), items[i][2]) = Sub(e, Trees(e), items[i][2])
    OBVIOUS
  <2>. DEFINE k == items[i][1]
              v == items[i][2]
  <2>1. Target(d.heap, k) /\ (k \in 1 .. Len(d.heap) => k \in S)
    BY <1>6, <1>7
  <2>2. Target(d.heap, v) /\ (v \in 1 .. Len(d.heap) => v \in S /\ same(v))
    BY <1>6, <1>7
  <2>. HIDE DEF same
  <2>3. TextAt(d, k) = TextAt(e, k)
    <3>. HIDE DEF k, items
    <3>. QED
      BY <2>1, SameText
  <2>4. Sub(d, Trees(d), v) = Sub(e, Trees(e), v)
    <3>. HIDE DEF v, items
    <3>1. CASE v \in 1 .. Len(d.heap)
      BY <1>2, <2>2, <3>1 DEF Sub, same
    <3>2. CASE v \notin 1 .. Len(d.heap)
      <4>1. v \in Statics \cup {NULL}
        BY <2>2, <3>2 DEF Target
      <4>2. v \notin 1 .. Len(e.heap)
        BY <1>2, <4>1, DomConstants DEF Statics
      <4>. QED
        BY <1>2, <3>2, <4>2 DEF Sub
    <3>. QED
      BY <3>1, <3>2
  <2>. QED
    BY <2>3, <2>4 DEF KeyOf
<1>9. Body(e, Trees(e), m) = Body(d, Trees(d), m)
  <2>1. d.heap[m].kind = "object" => Distinct(d, items)
    BY <1>4 DEF Alike, Unlike
  <2>2. Elements(d, Trees(d), items) = Elements(e, Trees(e), items)
    BY <1>8 DEF Elements
  <2>3. Distinct(d, items) => Members(d, Trees(d), items) = Members(e, Trees(e), items)
    <3>. HIDE DEF items
    <3>. QED
      BY <1>8, SameItems
  <2>. QED
    BY <1>5, <2>1, <2>2, <2>3, Zenon DEF Body
<1>10. Trees(d)[m] = Body(d, Trees(d), m) /\ Trees(e)[m] = Body(e, Trees(e), m)
  BY <1>4, TreesAre DEF Alike
<1>. QED
  BY <1>4, <1>9, <1>10

LEMMA SameTree ==
  ASSUME NEW d, NEW e, NEW S, Alike(d, e, S), NEW p, Target(d.heap, p),
         p \in 1 .. Len(d.heap) => p \in S
  PROVE  Sub(e, Trees(e), p) = Sub(d, Trees(d), p)
<1>1. DOMAIN d.heap = 1 .. Len(d.heap) /\ DOMAIN e.heap = 1 .. Len(e.heap)
      /\ Len(d.heap) \in Nat /\ Len(e.heap) \in Nat /\ Len(d.heap) <= Len(e.heap)
  BY Addresses DEF Alike
<1>2. CASE p \in 1 .. Len(d.heap)
  <2>1. Trees(e)[p] = Trees(d)[p]
    BY <1>2, SameTrees
  <2>. QED
    BY <1>1, <1>2, <2>1 DEF Sub
<1>3. CASE p \notin 1 .. Len(d.heap)
  <2>1. p \in Statics \cup {NULL}
    BY <1>3 DEF Target
  <2>2. p \notin 1 .. Len(e.heap)
    BY <1>1, <2>1, DomConstants DEF Statics
  <2>. QED
    BY <1>1, <1>3, <2>2 DEF Sub
<1>. QED
  BY <1>2, <1>3

-------------------------------------------------------------------------------
(* Nothing but the container around it holds an open container, as a value.   *)
Guarded(d, L) ==
  \A m \in 1 .. Len(d.heap) : \A i, j, p : Points(d.heap, m, i, j, p) =>
    \A y \in 1 .. L : p = d.ctx[y] => y > 1 /\ m = d.ctx[y - 1] /\ j = 2

(* Values that are not open *)
Shut(d, L) == {n \in 1 .. Len(d.heap) : \A y \in 1 .. L : n # d.ctx[y]}

(* The keys of the objects *)
Keyed(d) ==
  \A n \in 1 .. Len(d.heap) : d.heap[n].kind = "object" =>
    /\ Distinct(d, d.heap[n].items)
    /\ \A i \in DOMAIN d.heap[n].items : KeyOf(d, d.heap[n].items, i) \in Names \ {Empty}

(* e is d with the item x of o, and perhaps with new values that hold nothing. *)
Adds(d, e, o, x, k, v) ==
  LET h   == d.heap
      g   == e.heap
      old == h[o].items
      new == g[o].items
  IN  /\ Len(h) <= Len(g)
      /\ \A n \in 1 .. Len(h) : n # o => g[n] = h[n]
      /\ g[o].kind = h[o].kind /\ g[o].text = h[o].text
      /\ \A n \in 1 .. Len(g) : n \notin 1 .. Len(h) => g[n].items = <<>>
      /\ \A i : i \in 1 .. Len(new) <=> i \in 1 .. Len(old) \/ i = x
      /\ \A i \in 1 .. Len(old) : i # x => new[i] = old[i]
      /\ new[x] = <<k, v>>

(* The item x is the one of the key k, or the first free one. *)
Slot(d, e, o, x, k) ==
  LET old == d.heap[o].items
  IN  \A i \in 1 .. Len(old) : KeyOf(d, old, i) = TextAt(e, k) <=> i = x

LEMMA KeyedUnlike ==
  ASSUME NEW d, Keyed(d)
  PROVE  Unlike(d)
BY DEF Keyed, Unlike

LEMMA ShutAlike ==
  ASSUME NEW d, NEW e, NEW L \in Nat, Guarded(d, L), IsDom(d), IsHeap(d.heap), Keyed(d),
         IsDom(e), IsHeap(e.heap), Len(d.heap) <= Len(e.heap),
         \A n \in Shut(d, L) : e.heap[n] = d.heap[n]
  PROVE  Alike(d, e, Shut(d, L))
<1>. DEFINE S == Shut(d, L)
<1>1. S \subseteq 1 .. Len(d.heap)
  BY DEF Shut
<1>2. ASSUME NEW n \in S, NEW p \in Pointed(d.heap, n)
      PROVE  p \in S
  <2>1. n \in 1 .. Len(d.heap) /\ \A y \in 1 .. L : n # d.ctx[y]
    BY <1>2 DEF Shut
  <2>2. PICK i, j : Points(d.heap, n, i, j, p)
    BY <1>2, <2>1, PointedIs DEF IsHeap
  <2>3. p \in 1 .. Len(d.heap)
    BY <2>2 DEF Points
  <2>4. ASSUME NEW y \in 1 .. L, p = d.ctx[y]
        PROVE  FALSE
    <3>1. y > 1 /\ n = d.ctx[y - 1]
      BY <2>1, <2>2, <2>4 DEF Guarded
    <3>2. y - 1 \in 1 .. L
      BY <2>4, <3>1
    <3>. QED
      BY <2>1, <3>1, <3>2
  <2>. QED
    BY <2>3, <2>4 DEF Shut
<1>3. \A n \in S : e.heap[n] = d.heap[n] /\ Pointed(d.heap, n) \subseteq S
  BY <1>2
<1>. QED
  BY <1>1, <1>3, KeyedUnlike DEF Alike

NewPlace(o, k, v, m, j, p) == m = o /\ (p = k \/ (j = 2 /\ p = v))

LEMMA AddsPoints ==
  ASSUME NEW d, NEW e, NEW o \in 1 .. Len(d.heap), NEW x \in Nat, NEW k, NEW v,
         Adds(d, e, o, x, k, v), IsDom(d), IsHeap(d.heap), IsDom(e),
         NEW m \in 1 .. Len(e.heap), NEW i, NEW j, NEW p, Points(e.heap, m, i, j, p)
  PROVE  \/ m \in 1 .. Len(d.heap) /\ Points(d.heap, m, i, j, p)
         \/ NewPlace(o, k, v, m, j, p)
<1>. DEFINE h == d.heap
            g == e.heap
<1>1. Len(h) \in Nat /\ Len(g) \in Nat /\ Len(<<>>) = 0
  BY Addresses, EmptyIsSeq
<1>2. i \in 1 .. Len(g[m].items) /\ j \in {1, 2} /\ g[m].items[i][j] = p /\ p \in 1 .. Len(g)
  BY DEF Points
<1>3. m \in 1 .. Len(h)
  <2>1. m \notin 1 .. Len(h) => g[m].items = <<>>
    BY DEF Adds
  <2>. QED
    BY <1>1, <1>2, <2>1
<1>4. CASE m = o /\ i = x
  <2>1. g[o].items[x] = <<k, v>>
    BY DEF Adds
  <2>. QED
    BY <1>2, <1>4, <2>1 DEF NewPlace
<1>5. CASE ~(m = o /\ i = x)
  <2>1. i \in 1 .. Len(h[m].items) /\ h[m].items[i] = g[m].items[i]
    <3>1. CASE m = o
      BY <1>2, <1>5, <3>1 DEF Adds
    <3>2. CASE m # o
      BY <1>2, <1>3, <3>2 DEF Adds
    <3>. QED
      BY <3>1, <3>2
  <2>2. Target(h, p)
    BY <1>2, <1>3, <2>1 DEF IsHeap
  <2>3. p \notin Statics \cup {NULL}
    <3>1. p \in Nat
      BY <1>1, <1>2
    <3>. QED
      BY <3>1, DomConstants DEF Statics
  <2>. QED
    BY <1>2, <1>3, <2>1, <2>2, <2>3 DEF Points, Target
<1>. QED
  BY <1>4, <1>5

(* No text changes. *)
LEMMA AddsText ==
  ASSUME NEW d, NEW e, NEW o \in 1 .. Len(d.heap), NEW x, NEW k, NEW v,
         Adds(d, e, o, x, k, v), IsDom(d), IsDom(e), NEW p, Target(d.heap, p)
  PROVE  TextAt(e, p) = TextAt(d, p)
<1>1. /\ DOMAIN d.heap = 1 .. Len(d.heap) /\ DOMAIN e.heap = 1 .. Len(e.heap)
      /\ Len(d.heap) \in Nat /\ Len(e.heap) \in Nat /\ Len(d.heap) <= Len(e.heap)
  BY Addresses DEF Adds
<1>2. CASE p \in 1 .. Len(d.heap)
  <2>1. e.heap[p].text = d.heap[p].text
    BY <1>2 DEF Adds
  <2>. QED
    BY <1>1, <1>2, <2>1 DEF TextAt
<1>3. CASE p \notin 1 .. Len(d.heap)
  <2>1. p \in Statics \cup {NULL}
    BY <1>3 DEF Target
  <2>2. p \notin 1 .. Len(e.heap)
    BY <1>1, <2>1, DomConstants DEF Statics
  <2>. QED
    BY <1>1, <1>3, <2>2 DEF TextAt
<1>. QED
  BY <1>2, <1>3

LEMMA AddsKeyed ==
  ASSUME NEW d, NEW e, NEW o \in 1 .. Len(d.heap), NEW x, NEW k, NEW v,
         Adds(d, e, o, x, k, v), IsDom(d), IsHeap(d.heap), IsDom(e), Keyed(d),
         d.heap[o].kind = "object" => Slot(d, e, o, x, k) /\ TextAt(e, k) \in Names \ {Empty}
  PROVE  Keyed(e)
<1>. SUFFICES ASSUME NEW n \in 1 .. Len(e.heap), e.heap[n].kind = "object"
              PROVE  /\ Distinct(e, e.heap[n].items)
                     /\ \A i \in DOMAIN e.heap[n].items : KeyOf(e, e.heap[n].items, i) \in Names \ {Empty}
  BY DEF Keyed
<1>. DEFINE new == e.heap[n].items
            old == d.heap[n].items
<1>1. /\ Len(d.heap) \in Nat /\ Len(e.heap) \in Nat /\ Len(<<>>) = 0
      /\ DOMAIN new = 1 .. Len(new) /\ Len(new) \in Nat
  BY Addresses, EmptyIsSeq, SeqFacts DEF IsDom, IsNode
<1>2. CASE n \notin 1 .. Len(d.heap)
  <2>1. new = <<>>
    BY <1>2 DEF Adds
  <2>2. DOMAIN new = {}
    BY <1>1, <2>1
  <2>. QED
    BY <2>2 DEF Distinct
<1>3. CASE n \in 1 .. Len(d.heap)
  <2>1. /\ DOMAIN old = 1 .. Len(old) /\ Len(old) \in Nat
    BY <1>3, SeqFacts DEF IsDom, IsNode
  <2>2. \A i \in 1 .. Len(old) : Target(d.heap, old[i][1])
    BY <1>3 DEF IsHeap
  <2>3. \A i \in 1 .. Len(old) : TextAt(e, old[i][1]) = TextAt(d, old[i][1])
    BY ZenonT(60), <2>2, AddsText
  <2>4. d.heap[n].kind = "object"
    BY <1>3 DEF Adds
  <2>5. /\ \A i, j \in 1 .. Len(old) : KeyOf(d, old, i) = KeyOf(d, old, j) => i = j
        /\ \A i \in 1 .. Len(old) : KeyOf(d, old, i) \in Names \ {Empty}
    BY <1>3, <2>1, <2>4 DEF Keyed, Distinct
  <2>6. CASE n # o
    <3>1. new = old
      BY <1>3, <2>6 DEF Adds
    <3>2. \A i \in 1 .. Len(old) : KeyOf(e, old, i) = KeyOf(d, old, i)
      BY <2>3 DEF KeyOf
    <3>. HIDE DEF old, new
    <3>. QED
      BY <2>1, <2>5, <3>1, <3>2 DEF Distinct, new
  <2>7. CASE n = o
    <3>1. /\ \A i : i \in 1 .. Len(new) <=> i \in 1 .. Len(old) \/ i = x
          /\ \A i \in 1 .. Len(old) : i # x => new[i] = old[i]
          /\ new[x] = <<k, v>>
      BY <2>7 DEF Adds
    <3>2. TextAt(e, k) \in Names \ {Empty}
          /\ \A i \in 1 .. Len(old) : KeyOf(d, old, i) = TextAt(e, k) <=> i = x
      BY <2>4, <2>7 DEF Slot
    <3>3. new[x][1] = k
      BY <3>1
    <3>. HIDE DEF old, new
    <3>4. KeyOf(e, new, x) = TextAt(e, k)
      BY <3>3 DEF KeyOf
    <3>5. \A i \in 1 .. Len(old) : i # x => KeyOf(e, new, i) = KeyOf(d, old, i)
      BY <2>3, <3>1 DEF KeyOf
    <3>6. \A i \in 1 .. Len(new) : KeyOf(e, new, i) \in Names \ {Empty}
      BY <2>5, <3>1, <3>2, <3>4, <3>5
    <3>7. \A i, j \in 1 .. Len(new) : KeyOf(e, new, i) = KeyOf(e, new, j) => i = j
      BY SMTT(40), <2>5, <3>1, <3>2, <3>4, <3>5
    <3>. QED
      BY <1>1, <3>6, <3>7 DEF Distinct, new
  <2>. QED
    BY <2>6, <2>7
<1>. QED
  BY <1>2, <1>3

(* What the container o holds in e, of which nothing is open in d. *)
LEMMA AddsInside ==
  ASSUME NEW d, NEW e, NEW o \in 1 .. Len(d.heap), NEW x \in Nat, NEW k, NEW v,
         Adds(d, e, o, x, k, v), IsDom(d), IsHeap(d.heap),
         NEW S, Alike(d, e, S), Pointed(d.heap, o) \subseteq S,
         NEW i \in 1 .. Len(d.heap[o].items), i # x
  PROVE  Sub(e, Trees(e), e.heap[o].items[i][2]) = Sub(d, Trees(d), d.heap[o].items[i][2])
<1>. DEFINE old == d.heap[o].items
<1>1. e.heap[o].items[i] = old[i]
  BY DEF Adds
<1>. DEFINE p == old[i][2]
<1>2. Target(d.heap, p)
  BY DEF IsHeap
<1>3. p \in 1 .. Len(d.heap) => p \in S
  <2>1. DOMAIN d.heap = 1 .. Len(d.heap) /\ DOMAIN old = 1 .. Len(old)
    BY Addresses, SeqFacts DEF IsDom, IsNode
  <2>. QED
    BY SMTT(40), <2>1 DEF Pointed
<1>. HIDE DEF p
<1>4. Sub(e, Trees(e), p) = Sub(d, Trees(d), p)
  BY <1>2, <1>3, SameTree
<1>. QED
  BY <1>1, <1>4 DEF p

LEMMA ListIsSeq ==
  ASSUME NEW n \in Nat, NEW f, f = [i \in 1 .. n |-> f[i]]
  PROVE  IsSeq(f) /\ Len(f) = n
<1>. DEFINE S == {f[i] : i \in 1 .. n}
<1>1. f \in [1 .. n -> S]
  OBVIOUS
<1>2. f \in Seq(S)
  BY <1>1
<1>3. Len(f) = n
  BY <1>1, <1>2, LenProperties
<1>. QED
  BY <1>2, <1>3 DEF IsSeq

LEMMA EqualSeqs ==
  ASSUME NEW q, NEW r, IsSeq(q), IsSeq(r), Len(q) = Len(r),
         \A i \in 1 .. Len(q) : q[i] = r[i]
  PROVE  q = r
<1>1. PICK S : q \in Seq(S)
  BY DEF IsSeq
<1>2. PICK U : r \in Seq(U)
  BY DEF IsSeq
<1>3. q = [i \in 1 .. Len(q) |-> q[i]] /\ r = [i \in 1 .. Len(r) |-> r[i]]
  BY <1>1, <1>2, LenProperties
<1>. QED
  BY <1>3

(* The items of a container of d *)
LEMMA ItemsAre ==
  ASSUME NEW d, IsDom(d), NEW n \in 1 .. Len(d.heap)
  PROVE  /\ Len(d.heap[n].items) \in Nat /\ DOMAIN d.heap[n].items = 1 .. Len(d.heap[n].items)
         /\ IsSeq(Elems(d, n)) /\ Len(Elems(d, n)) = Len(d.heap[n].items)
         /\ \A i \in 1 .. Len(d.heap[n].items) :
              Elems(d, n)[i] = Sub(d, Trees(d), d.heap[n].items[i][2])
<1>. DEFINE items == d.heap[n].items
            f     == Elems(d, n)
<1>1. Len(items) \in Nat /\ DOMAIN items = 1 .. Len(items)
  BY SeqFacts DEF IsDom, IsNode
<1>2. f = [i \in 1 .. Len(items) |-> Sub(d, Trees(d), items[i][2])]
  BY <1>1 DEF Elems, Elements
<1>. HIDE DEF f
<1>3. f = [i \in 1 .. Len(items) |-> f[i]]
  BY <1>2
<1>4. IsSeq(f) /\ Len(f) = Len(items)
  BY <1>1, <1>3, ListIsSeq
<1>5. \A i \in 1 .. Len(items) : f[i] = Sub(d, Trees(d), items[i][2])
  BY <1>2
<1>. QED
  BY <1>1, <1>4, <1>5 DEF f

LEMMA ItemsOf ==
  ASSUME NEW d, IsDom(d), NEW n \in 1 .. Len(d.heap), NEW items, items = d.heap[n].items
  PROVE  /\ Len(items) \in Nat /\ DOMAIN items = 1 .. Len(items)
         /\ IsSeq(Elems(d, n)) /\ Len(Elems(d, n)) = Len(items)
         /\ \A i \in 1 .. Len(items) : Elems(d, n)[i] = Sub(d, Trees(d), items[i][2])
BY ItemsAre

LEMMA PairsAre ==
  ASSUME NEW d, IsDom(d), NEW n \in 1 .. Len(d.heap), Distinct(d, d.heap[n].items)
  PROVE  LET items == d.heap[n].items
             f     == Pairs(d, n)
         IN  /\ f = [m \in DOMAIN f |-> f[m]]
             /\ \A m : m \in DOMAIN f <=> \E i \in 1 .. Len(items) : m = KeyOf(d, items, i)
             /\ \A i \in 1 .. Len(items) : f[KeyOf(d, items, i)] = Sub(d, Trees(d), items[i][2])
<1>. DEFINE items == d.heap[n].items
            f     == Pairs(d, n)
<1>1. DOMAIN items = 1 .. Len(items)
  BY ItemsAre
<1>2. /\ DOMAIN f = KeysOf(d, items)
      /\ \A i \in DOMAIN items : f[KeyOf(d, items, i)] = Sub(d, Trees(d), items[i][2])
  <2>1. Distinct(d, items)
    OBVIOUS
  <2>. QED
    BY ONLY <2>1, MembersAt DEF Pairs
<1>3. f = [m \in DOMAIN f |-> f[m]]
  BY DEF Pairs, Members
<1>. HIDE DEF f, items
<1>4. \A m : m \in DOMAIN f <=> \E i \in 1 .. Len(items) : m = KeyOf(d, items, i)
  BY <1>1, <1>2 DEF KeysOf
<1>5. \A i \in 1 .. Len(items) : f[KeyOf(d, items, i)] = Sub(d, Trees(d), items[i][2])
  BY <1>1, <1>2
<1>. QED
  BY <1>3, <1>4, <1>5 DEF f, items

(* What o holds is in S. *)
Inside(d, o, S) == Pointed(d.heap, o) \subseteq S

(* x is the first place that is free in o. *)
FirstFree(d, o, x) == x = Len(d.heap[o].items) + 1

Longer(q, v) == Append(q, v)

(* The members m, with the value v at k *)
PutAt(k, v, m) == Document!Joined([n \in {k} |-> v], m)

LEMMA AddsElems ==
  ASSUME NEW d, NEW e, NEW o \in 1 .. Len(d.heap), NEW x \in Nat, NEW k, NEW v,
         Adds(d, e, o, x, k, v), IsDom(d), IsHeap(d.heap), IsDom(e),
         NEW S, Alike(d, e, S), Inside(d, o, S),
         FirstFree(d, o, x)
  PROVE  Elems(e, o) = Append(Elems(d, o), Sub(e, Trees(e), v))
<1>. DEFINE old == d.heap[o].items
            new == e.heap[o].items
            f   == Elems(d, o)
            g   == Elems(e, o)
            t   == Sub(e, Trees(e), v)
<1>1. o \in 1 .. Len(e.heap)
  BY Addresses DEF Adds
<1>2. /\ Len(old) \in Nat /\ IsSeq(f) /\ Len(f) = Len(old)
      /\ \A i \in 1 .. Len(old) : f[i] = Sub(d, Trees(d), old[i][2])
  BY ItemsAre
<1>3. /\ Len(new) \in Nat /\ IsSeq(g) /\ Len(g) = Len(new)
      /\ \A i \in 1 .. Len(new) : g[i] = Sub(e, Trees(e), new[i][2])
  BY <1>1, ItemsAre
<1>4. \A i \in 1 .. Len(old) : i # x =>
        Sub(e, Trees(e), new[i][2]) = Sub(d, Trees(d), old[i][2])
  <2>. TAKE i \in 1 .. Len(old)
  <2>. HAVE i # x
  <2>1. /\ o \in 1 .. Len(d.heap) /\ Adds(d, e, o, x, k, v) /\ IsDom(d) /\ IsHeap(d.heap)
        /\ Alike(d, e, S) /\ Pointed(d.heap, o) \subseteq S /\ x \in Nat
        /\ i \in 1 .. Len(old) /\ i # x
    BY DEF Inside
  <2>. QED
    BY ONLY <2>1, AddsInside DEF old, new
<1>5. /\ \A i : i \in 1 .. Len(new) <=> i \in 1 .. Len(old) \/ i = x
      /\ new[x] = <<k, v>>
  BY DEF Adds
<1>6. new[x][2] = v
  BY <1>5
<1>. HIDE DEF f, g, old, new, t
<1>7. Len(new) = Len(old) + 1
  <2>1. x \in 1 .. Len(new) /\ x = Len(old) + 1
    BY <1>5 DEF old, FirstFree
  <2>2. Len(new) \in 1 .. Len(old) \/ Len(new) = x
    BY <1>3, <1>5, <2>1
  <2>. QED
    BY <1>2, <1>3, <2>1, <2>2
<1>8. /\ IsSeq(Append(f, t)) /\ Len(Append(f, t)) = Len(f) + 1
      /\ \A i \in 1 .. Len(f) : Append(f, t)[i] = f[i]
      /\ Append(f, t)[Len(f) + 1] = t
  BY <1>2, AppendFacts
<1>9. x = Len(old) + 1
  BY DEF old, FirstFree
<1>10. ASSUME NEW i \in 1 .. Len(new) PROVE g[i] = Append(f, t)[i]
  <2>1. CASE i = x
    BY <1>2, <1>3, <1>6, <1>8, <1>9, <2>1 DEF t
  <2>2. CASE i # x
    <3>1. i \in 1 .. Len(old)
      BY <1>5, <2>2
    <3>. QED
      BY <1>2, <1>3, <1>4, <1>8, <2>2, <3>1
  <2>. QED
    BY <2>1, <2>2
<1>. QED
  BY <1>2, <1>3, <1>7, <1>8, <1>10, EqualSeqs DEF f, g, t

LEMMA AddsPairs ==
  ASSUME NEW d, NEW e, NEW o \in 1 .. Len(d.heap), NEW x \in Nat, NEW k, NEW v,
         Adds(d, e, o, x, k, v), IsDom(d), IsHeap(d.heap), IsDom(e), Keyed(d), Keyed(e),
         NEW S, Alike(d, e, S), Inside(d, o, S),
         d.heap[o].kind = "object", Slot(d, e, o, x, k)
  PROVE  Pairs(e, o) = PutAt(TextAt(e, k), Sub(e, Trees(e), v), Pairs(d, o))
<1>. DEFINE old == d.heap[o].items
            new == e.heap[o].items
            f   == Pairs(d, o)
            g   == Pairs(e, o)
            t   == Sub(e, Trees(e), v)
            key == TextAt(e, k)
<1>1. o \in 1 .. Len(e.heap) /\ e.heap[o].kind = "object"
  BY Addresses DEF Adds
<1>2. Distinct(d, old) /\ Distinct(e, new)
  BY <1>1 DEF Keyed
<1>3. f = [m \in DOMAIN f |-> f[m]] /\ g = [m \in DOMAIN g |-> g[m]]
  BY DEF Pairs, Members
<1>4. /\ \A m : m \in DOMAIN f <=> \E i \in 1 .. Len(old) : m = KeyOf(d, old, i)
      /\ \A i \in 1 .. Len(old) : f[KeyOf(d, old, i)] = Sub(d, Trees(d), old[i][2])
  BY ZenonT(60), <1>2, PairsAre
<1>5. /\ \A m : m \in DOMAIN g <=> \E i \in 1 .. Len(new) : m = KeyOf(e, new, i)
      /\ \A i \in 1 .. Len(new) : g[KeyOf(e, new, i)] = Sub(e, Trees(e), new[i][2])
  BY ZenonT(60), <1>1, <1>2, PairsAre
<1>6. \A i \in 1 .. Len(old) : i # x =>
        Sub(e, Trees(e), new[i][2]) = Sub(d, Trees(d), old[i][2])
  <2>. TAKE i \in 1 .. Len(old)
  <2>. HAVE i # x
  <2>1. /\ o \in 1 .. Len(d.heap) /\ Adds(d, e, o, x, k, v) /\ IsDom(d) /\ IsHeap(d.heap)
        /\ Alike(d, e, S) /\ Pointed(d.heap, o) \subseteq S /\ x \in Nat
        /\ i \in 1 .. Len(old) /\ i # x
    BY DEF Inside
  <2>. QED
    BY ONLY <2>1, AddsInside DEF old, new
<1>7. /\ \A i : i \in 1 .. Len(new) <=> i \in 1 .. Len(old) \/ i = x
      /\ \A i \in 1 .. Len(old) : i # x => new[i] = old[i]
      /\ new[x] = <<k, v>>
  BY DEF Adds
<1>8. new[x][2] = v /\ new[x][1] = k
  BY <1>7
<1>9. \A i \in 1 .. Len(old) : TextAt(e, old[i][1]) = TextAt(d, old[i][1])
  <2>1. \A i \in 1 .. Len(old) : Target(d.heap, old[i][1])
    BY DEF IsHeap
  <2>. QED
    BY ZenonT(60), <2>1, AddsText
<1>10. \A i \in 1 .. Len(old) : KeyOf(d, old, i) = key <=> i = x
  BY DEF Slot
<1>. HIDE DEF f, g, t, old, new, key
<1>12. KeyOf(e, new, x) = key
  BY <1>8 DEF KeyOf, key
<1>13. \A i \in 1 .. Len(old) : i # x => KeyOf(e, new, i) = KeyOf(d, old, i)
  BY <1>7, <1>9 DEF KeyOf
<1>16. \A m : m \in DOMAIN g <=> m = key \/ m \in DOMAIN f
  <2>1. \A m \in DOMAIN g : m = key \/ m \in DOMAIN f
    BY <1>7, <1>4, <1>5, <1>12, <1>13
  <2>2. key \in DOMAIN g
    BY <1>5, <1>7, <1>12
  <2>3. \A m \in DOMAIN f : m \in DOMAIN g
    BY ZenonT(60), <1>4, <1>5, <1>7, <1>10, <1>13, <2>2
  <2>. QED
    BY <2>1, <2>2, <2>3
<1>17. g[key] = t
  BY <1>5, <1>7, <1>8, <1>12 DEF t
<1>18. \A m \in DOMAIN f : m # key => g[m] = f[m]
  <2>. SUFFICES ASSUME NEW m \in DOMAIN f, m # key PROVE g[m] = f[m]
    OBVIOUS
  <2>1. PICK i \in 1 .. Len(old) : m = KeyOf(d, old, i)
    BY <1>4
  <2>2. i # x
    BY <1>10, <2>1
  <2>3. i \in 1 .. Len(new) /\ m = KeyOf(e, new, i)
    BY <1>7, <1>13, <2>1, <2>2
  <2>4. g[m] = Sub(e, Trees(e), new[i][2])
    BY <1>5, <2>3
  <2>5. f[m] = Sub(d, Trees(d), old[i][2])
    BY <1>4, <2>1
  <2>. QED
    BY <1>6, <2>2, <2>4, <2>5
<1>19. DOMAIN g = {key} \cup DOMAIN f
  BY <1>16
<1>20. g = [m \in {key} \cup DOMAIN f |-> IF m \in {key} THEN t ELSE f[m]]
  BY <1>3, <1>16, <1>17, <1>18, <1>19
<1>21. Document!Joined([n \in {key} |-> t], f)
         = [m \in {key} \cup DOMAIN f |-> IF m \in {key} THEN t ELSE f[m]]
  <2>. DEFINE one == [n \in {key} |-> t]
  <2>1. DOMAIN one = {key} /\ one[key] = t
    OBVIOUS
  <2>. HIDE DEF one
  <2>2. Document!Joined(one, f) = [m \in {key} \cup DOMAIN f |-> IF m \in {key} THEN one[m] ELSE f[m]]
    BY <2>1 DEF Document!Joined
  <2>. QED
    BY <2>1, <2>2 DEF one
<1>. QED
  BY <1>20, <1>21 DEF f, g, t, key, PutAt

-------------------------------------------------------------------------------
(* The frames of the containers that are open. *)

Contents(d, n) == IF d.heap[n].kind = "array" THEN Elems(d, n) ELSE Pairs(d, n)

(* f without k *)
Without(f, k) == [m \in DOMAIN f \ {k} |-> f[m]]

IsOpen(d, i) ==
  /\ d.ctx[i] \in 1 .. Len(d.heap)
  /\ d.heap[d.ctx[i]].kind \in Kinds

LEMMA TreeOpen ==
  ASSUME NEW d, IsDom(d), IsHeap(d.heap), NEW n \in 1 .. Len(d.heap), d.heap[n].kind \in Kinds
  PROVE  Tree(d, n) = [kind |-> d.heap[n].kind, members |-> Contents(d, n)]
<1>1. CASE d.heap[n].kind = "array"
  BY <1>1, TreeOf, Zenon DEF Contents
<1>2. CASE d.heap[n].kind = "object"
  <2>1. d.heap[n].kind # "array"
    BY <1>2
  <2>. QED
    BY <1>2, <2>1, TreeOf, Zenon DEF Contents
<1>. QED
  BY <1>1, <1>2 DEF Kinds

LEMMA InnerFrame ==
  ASSUME NEW d, IsDom(d), IsHeap(d.heap), NEW i, IsOpen(d, i), i + 1 = Len(d.ctx)
  PROVE  FrameIn(d, i) = [kind |-> d.heap[d.ctx[i]].kind, members |-> Contents(d, d.ctx[i]),
                          name |-> IF Here(d) = NULL THEN NULL ELSE TextAt(d, Here(d))]
<1>1. Tree(d, d.ctx[i]) = [kind |-> d.heap[d.ctx[i]].kind, members |-> Contents(d, d.ctx[i])]
  BY TreeOpen DEF IsOpen
<1>2. d.ctx[i + 1] = Here(d)
  BY DEF Here
<1>3. Tree(d, d.ctx[i]).kind = d.heap[d.ctx[i]].kind
      /\ Tree(d, d.ctx[i]).members = Contents(d, d.ctx[i])
  BY <1>1
<1>. QED
  BY <1>2, <1>3, Zenon DEF FrameIn

LEMMA OuterArray ==
  ASSUME NEW d, IsDom(d), IsHeap(d.heap), NEW i, IsOpen(d, i), i + 1 # Len(d.ctx),
         NEW c, c = d.ctx[i], d.heap[c].kind = "array"
  PROVE  FrameIn(d, i) = [kind |-> "array", name |-> NULL,
                          members |-> SubSeq(Elems(d, c), 1, Len(d.heap[c].items) - 1)]
<1>1. Tree(d, c) = [kind |-> "array", members |-> Elems(d, c)]
  BY TreeOpen, Zenon DEF IsOpen, Contents
<1>2. Tree(d, c).kind = "array" /\ Tree(d, c).members = Elems(d, c)
  BY <1>1
<1>. QED
  BY <1>2, Zenon DEF FrameIn

LEMMA OuterNameless ==
  ASSUME NEW d, IsDom(d), IsHeap(d.heap), NEW i \in Nat, IsOpen(d, i), i + 1 # Len(d.ctx),
         NEW c, c = d.ctx[i], d.heap[c].kind = "object",
         NEW items, items = d.heap[c].items,
         \A j \in 1 .. Len(items) : items[j][2] # d.ctx[i + 1]
  PROVE  FrameIn(d, i) = [kind |-> "object", name |-> Empty, members |-> Pairs(d, c)]
<1>0. "object" # "array"
  OBVIOUS
<1>1. Tree(d, c) = [kind |-> "object", members |-> Pairs(d, c)]
  BY <1>0, TreeOpen, Zenon DEF IsOpen, Contents
<1>2. Tree(d, c).kind = "object" /\ Tree(d, c).members = Pairs(d, c)
  BY <1>1
<1>3. DOMAIN items = 1 .. Len(items)
  BY SMTT(40), ItemsAre DEF IsOpen
<1>4. {j \in DOMAIN items : items[j][2] = d.ctx[i + 1]} = {}
  BY <1>3
<1>. QED
  BY <1>0, <1>2, <1>4, Zenon DEF FrameIn

(* Only the item x has the value p. *)
OnlyAt(items, x, p) ==
  /\ x \in 1 .. Len(items) /\ items[x][2] = p
  /\ \A l \in 1 .. Len(items) : items[l][2] = p => l = x

(* The object c at ctx[i] has at x what is open in it. *)
OpenItem(d, i, c, items, x) ==
  /\ IsDom(d) /\ IsHeap(d.heap) /\ i \in Nat /\ IsOpen(d, i) /\ i + 1 # Len(d.ctx)
  /\ c = d.ctx[i] /\ d.heap[c].kind = "object" /\ items = d.heap[c].items
  /\ x \in Nat /\ OnlyAt(items, x, d.ctx[i + 1])

LEMMA OuterNamed ==
  ASSUME NEW d, NEW i, NEW c, NEW items, NEW x, OpenItem(d, i, c, items, x)
  PROVE  FrameIn(d, i) = [kind |-> "object", name |-> KeyOf(d, items, x),
                          members |-> Without(Pairs(d, c), KeyOf(d, items, x))]
<1>. USE DEF OpenItem
<1>0. "object" # "array"
  OBVIOUS
<1>1. Tree(d, c) = [kind |-> "object", members |-> Pairs(d, c)]
  BY <1>0, TreeOpen, Zenon DEF IsOpen, Contents
<1>2. Tree(d, c).kind = "object" /\ Tree(d, c).members = Pairs(d, c)
  BY <1>1
<1>3. DOMAIN items = 1 .. Len(items)
  BY ZenonT(60), ItemsAre DEF IsOpen
<1>. DEFINE at == {j \in DOMAIN items : items[j][2] = d.ctx[i + 1]}
<1>4. at = {x} /\ at # {}
  BY ZenonT(60), <1>3 DEF OnlyAt
<1>5. (CHOOSE l \in at : TRUE) = x
  BY ZenonT(60), <1>4
<1>6. TextAt(d, items[CHOOSE l \in at : TRUE][1]) = KeyOf(d, items, x)
  BY ZenonT(60), <1>5 DEF KeyOf
<1>7. FrameIn(d, i) = LET k == TextAt(d, items[CHOOSE l \in at : TRUE][1])
                      IN  [kind |-> "object", name |-> k, members |-> Without(Pairs(d, c), k)]
  BY ZenonT(60), <1>0, <1>2, <1>4 DEF FrameIn, Without
<1>. QED
  BY <1>6, <1>7, Zenon

(* The contexts up to L hold different containers. *)
Apart(d, L) ==
  /\ \A y \in 1 .. L : d.ctx[y] \in 1 .. Len(d.heap) /\ d.heap[d.ctx[y]].kind \in Kinds
  /\ \A y, z \in 1 .. L : d.ctx[y] = d.ctx[z] => y = z

Fenced(d, L) == L \in Nat /\ Guarded(d, L) /\ Apart(d, L) /\ IsDom(d) /\ IsHeap(d.heap)

(* The item i of the container at ctx[y] *)
ItemOf(d, L, y, items, i) ==
  y \in 1 .. L /\ items = d.heap[d.ctx[y]].items /\ i \in 1 .. Len(items)

(* What the container at ctx[y] holds is not open, but for the container open in it. *)
LEMMA ShutInside ==
  ASSUME NEW d, NEW L, Fenced(d, L), NEW y, NEW items, NEW i, ItemOf(d, L, y, items, i)
  PROVE  /\ Target(d.heap, items[i][1]) /\ Target(d.heap, items[i][2])
         /\ items[i][1] \in 1 .. Len(d.heap) => items[i][1] \in Shut(d, L)
         /\ items[i][2] \in 1 .. Len(d.heap) =>
              items[i][2] \in Shut(d, L) \/ (y + 1 \in 1 .. L /\ items[i][2] = d.ctx[y + 1])
<1>0. /\ L \in Nat /\ Guarded(d, L) /\ Apart(d, L) /\ IsDom(d) /\ IsHeap(d.heap)
      /\ y \in 1 .. L /\ items = d.heap[d.ctx[y]].items /\ i \in 1 .. Len(items)
  BY DEF Fenced, ItemOf
<1>. USE <1>0
<1>1. d.ctx[y] \in 1 .. Len(d.heap)
  BY DEF Apart
<1>2. \A j \in {1, 2} : Target(d.heap, items[i][j])
  BY <1>1 DEF IsHeap
<1>3. ASSUME NEW j \in {1, 2}, items[i][j] \in 1 .. Len(d.heap), NEW z \in 1 .. L,
             items[i][j] = d.ctx[z]
      PROVE  j = 2 /\ z = y + 1
  <2>1. Points(d.heap, d.ctx[y], i, j, items[i][j])
    BY <1>3 DEF Points
  <2>2. z > 1 /\ d.ctx[y] = d.ctx[z - 1] /\ j = 2
    BY <1>1, <1>3, <2>1 DEF Guarded
  <2>3. z - 1 \in 1 .. L
    BY <2>2
  <2>4. y = z - 1
    BY ZenonT(60), <2>2, <2>3 DEF Apart
  <2>. QED
    BY <2>2, <2>4
<1>4. ASSUME items[i][1] \in 1 .. Len(d.heap), items[i][1] \notin Shut(d, L)
      PROVE  FALSE
  <2>1. PICK z \in 1 .. L : items[i][1] = d.ctx[z]
    BY ZenonT(60), <1>4 DEF Shut
  <2>2. 1 \in {1, 2} /\ 1 # 2
    OBVIOUS
  <2>3. 1 = 2
    BY ZenonT(60), <1>3, <1>4, <2>1, <2>2
  <2>. QED
    BY <2>2, <2>3
<1>5. ASSUME items[i][2] \in 1 .. Len(d.heap), items[i][2] \notin Shut(d, L)
      PROVE  y + 1 \in 1 .. L /\ items[i][2] = d.ctx[y + 1]
  <2>1. PICK z \in 1 .. L : items[i][2] = d.ctx[z]
    BY ZenonT(60), <1>5 DEF Shut
  <2>2. z = y + 1
    BY ZenonT(60), <1>3, <1>5, <2>1
  <2>. QED
    BY SMTT(40), <2>1, <2>2
<1>. QED
  BY ZenonT(60), <1>2, <1>4, <1>5

(* ... and is in e what it is in d, if the rest of the values is. *)
LEMMA StillInside ==
  ASSUME NEW d, NEW L, Fenced(d, L), NEW e, Alike(d, e, Shut(d, L)),
         NEW y, NEW items, NEW i, ItemOf(d, L, y, items, i)
  PROVE  /\ KeyOf(e, items, i) = KeyOf(d, items, i)
         /\ items[i][2] # d.ctx[y + 1] \/ y = L =>
              Sub(e, Trees(e), items[i][2]) = Sub(d, Trees(d), items[i][2])
<1>. DEFINE p == items[i][1]
            q == items[i][2]
            S == Shut(d, L)
<1>1. /\ Target(d.heap, p) /\ Target(d.heap, q)
      /\ p \in 1 .. Len(d.heap) => p \in S
      /\ q \in 1 .. Len(d.heap) => q \in S \/ (y + 1 \in 1 .. L /\ q = d.ctx[y + 1])
  <2>1. Fenced(d, L) /\ ItemOf(d, L, y, items, i)
    OBVIOUS
  <2>. QED
    BY ONLY <2>1, ShutInside
<1>2. y = L => y + 1 \notin 1 .. L
  BY DEF Fenced, ItemOf
<1>. HIDE DEF p, q, S
<1>3. Alike(d, e, S)
  BY DEF S
<1>4. TextAt(e, p) = TextAt(d, p)
  BY <1>1, <1>3, SameText
<1>5. ASSUME q # d.ctx[y + 1] \/ y = L
      PROVE  Sub(e, Trees(e), q) = Sub(d, Trees(d), q)
  <2>1. q \in 1 .. Len(d.heap) => q \in S
    BY <1>1, <1>2, <1>5
  <2>. QED
    BY <1>1, <1>3, <2>1, SameTree
<1>. QED
  BY ZenonT(60), <1>4, <1>5 DEF p, q, KeyOf

SameKeys(d, e, items) ==
  \A i \in 1 .. Len(items) : KeyOf(e, items, i) = KeyOf(d, items, i)

SameValues(d, e, items, x) ==
  /\ x \in 1 .. Len(items)
  /\ \A i \in 1 .. Len(items) : i # x =>
     Sub(e, Trees(e), items[i][2]) = Sub(d, Trees(d), items[i][2])

(* Without the member of one key, the others are the same. *)
LEMMA SameWithout ==
  ASSUME NEW d, NEW e, IsDom(d), IsDom(e), NEW n \in 1 .. Len(d.heap),
         n \in 1 .. Len(e.heap), NEW items, items = d.heap[n].items, e.heap[n].items = d.heap[n].items,
         Distinct(d, items), SameKeys(d, e, items),
         NEW x \in Nat, SameValues(d, e, items, x)
  PROVE  Without(Pairs(e, n), KeyOf(e, items, x)) = Without(Pairs(d, n), KeyOf(d, items, x))
<1>. DEFINE f == Pairs(d, n)
            g == Pairs(e, n)
            k == KeyOf(d, items, x)
<1>1. DOMAIN items = 1 .. Len(items)
  BY ItemsAre
<1>2. Distinct(e, items)
  BY <1>1 DEF Distinct, SameKeys
<1>3. /\ \A m : m \in DOMAIN f <=> \E i \in 1 .. Len(items) : m = KeyOf(d, items, i)
      /\ \A i \in 1 .. Len(items) : f[KeyOf(d, items, i)] = Sub(d, Trees(d), items[i][2])
  <2>1. f = Members(d, Trees(d), items)
    BY DEF Pairs
  <2>2. Distinct(d, items)
    OBVIOUS
  <2>3. LET m == Members(d, Trees(d), items)
        IN  /\ DOMAIN m = KeysOf(d, items)
            /\ \A i \in DOMAIN items : m[KeyOf(d, items, i)] = Sub(d, Trees(d), items[i][2])
    BY ONLY <2>2, MembersAt
  <2>. HIDE DEF f
  <2>. QED
    BY <1>1, <2>1, <2>3 DEF KeysOf
<1>4. /\ \A m : m \in DOMAIN g <=> \E i \in 1 .. Len(items) : m = KeyOf(e, items, i)
      /\ \A i \in 1 .. Len(items) : g[KeyOf(e, items, i)] = Sub(e, Trees(e), items[i][2])
  <2>1. g = Members(e, Trees(e), items)
    BY DEF Pairs
  <2>2. Distinct(e, items)
    BY <1>2
  <2>3. LET m == Members(e, Trees(e), items)
        IN  /\ DOMAIN m = KeysOf(e, items)
            /\ \A i \in DOMAIN items : m[KeyOf(e, items, i)] = Sub(e, Trees(e), items[i][2])
    BY ONLY <2>2, MembersAt
  <2>. HIDE DEF g
  <2>. QED
    BY <1>1, <2>1, <2>3 DEF KeysOf
<1>0. x \in 1 .. Len(items)
  BY DEF SameValues
<1>5. KeyOf(e, items, x) = k
  BY <1>0 DEF SameKeys
<1>6. \A i \in 1 .. Len(items) : KeyOf(d, items, i) = k => i = x
  BY <1>0, <1>1 DEF Distinct
<1>. HIDE DEF f, g, k
<1>7. DOMAIN f = DOMAIN g
  <2>1. \A m : m \in DOMAIN f <=> m \in DOMAIN g
    BY <1>3, <1>4 DEF SameKeys
  <2>. QED
    BY <2>1
<1>8. ASSUME NEW m \in DOMAIN f \ {k}
      PROVE  f[m] = g[m]
  <2>1. PICK i \in 1 .. Len(items) : m = KeyOf(d, items, i)
    BY <1>3, <1>8
  <2>2. i # x
    BY <1>8, <2>1 DEF k
  <2>3. f[m] = Sub(d, Trees(d), items[i][2])
    BY <1>3, <2>1
  <2>4. g[m] = Sub(e, Trees(e), items[i][2])
    BY <1>4, <2>1 DEF SameKeys
  <2>. QED
    BY <2>2, <2>3, <2>4 DEF SameValues
<1>9. Without(f, k) = Without(g, k)
  BY <1>7, <1>8 DEF Without
<1>. QED
  BY <1>5, <1>9 DEF f, g, k

(* The container at ctx[i] holds the one that is open in it at most once, an
   array as its last element. *)
Once(d, i) ==
  LET items == d.heap[d.ctx[i]].items
  IN  \A j, l \in 1 .. Len(items) :
        items[j][2] = d.ctx[i + 1] /\ items[l][2] = d.ctx[i + 1] => j = l

LastOpen(d, i) ==
  LET items == d.heap[d.ctx[i]].items
  IN  d.heap[d.ctx[i]].kind = "array" =>
        Len(items) >= 1 /\ items[Len(items)][2] = d.ctx[i + 1]

LEMMA SubSeqSame ==
  ASSUME NEW q, NEW r, IsSeq(q), IsSeq(r), Len(q) = Len(r), NEW n \in Nat, n <= Len(q),
         \A i \in 1 .. n : q[i] = r[i]
  PROVE  SubSeq(q, 1, n) = SubSeq(r, 1, n)
<1>1. PICK S : q \in Seq(S)
  BY DEF IsSeq
<1>2. PICK U : r \in Seq(U)
  BY DEF IsSeq
<1>3. SubSeq(q, 1, n) = [i \in 1 .. n |-> q[i]]
  BY <1>1
<1>4. SubSeq(r, 1, n) = [i \in 1 .. n |-> r[i]]
  BY <1>2
<1>. QED
  BY <1>3, <1>4

LEMMA OuterSame ==
  ASSUME NEW d, NEW L \in Nat, Guarded(d, L), Apart(d, L), IsDom(d), IsHeap(d.heap), Keyed(d),
         NEW e, IsDom(e), IsHeap(e.heap), Alike(d, e, Shut(d, L)),
         NEW i \in Nat, i \in 1 .. L, i + 1 \in 1 .. L, Once(d, i), LastOpen(d, i),
         i + 1 # Len(d.ctx), i + 1 # Len(e.ctx),
         e.ctx[i] = d.ctx[i], e.ctx[i + 1] = d.ctx[i + 1],
         e.heap[d.ctx[i]] = d.heap[d.ctx[i]]
  PROVE  FrameIn(e, i) = FrameIn(d, i)
<1>. DEFINE c     == d.ctx[i]
            items == d.heap[c].items
            n     == Len(items)
<1>1. /\ c \in 1 .. Len(d.heap) /\ d.heap[c].kind \in Kinds
      /\ c \in 1 .. Len(e.heap) /\ e.heap[c].kind = d.heap[c].kind /\ e.heap[c].items = items
      /\ IsOpen(d, i) /\ IsOpen(e, i)
  <2>1. Len(d.heap) \in Nat /\ Len(e.heap) \in Nat /\ Len(d.heap) <= Len(e.heap)
    BY Addresses DEF Alike
  <2>. QED
    BY <2>1 DEF Apart, IsOpen
<1>2. \A j \in 1 .. n : /\ KeyOf(e, items, j) = KeyOf(d, items, j)
                        /\ items[j][2] # d.ctx[i + 1] =>
                             Sub(e, Trees(e), items[j][2]) = Sub(d, Trees(d), items[j][2])
  <2>. TAKE j \in 1 .. n
  <2>1. Fenced(d, L)
    BY Zenon DEF Fenced
  <2>2. ItemOf(d, L, i, items, j)
    BY Zenon DEF ItemOf
  <2>3. Alike(d, e, Shut(d, L))
    OBVIOUS
  <2>. HIDE DEF items
  <2>. QED
    BY ONLY <2>1, <2>2, <2>3, StillInside
<1>3. \A j, l \in 1 .. n : items[j][2] = d.ctx[i + 1] /\ items[l][2] = d.ctx[i + 1] => j = l
  BY Zenon DEF Once
<1>4. n \in Nat /\ DOMAIN items = 1 .. n
  BY <1>1, ItemsAre
<1>7. /\ c = d.ctx[i] /\ c = e.ctx[i] /\ items = d.heap[c].items /\ items = e.heap[c].items
      /\ n = Len(items)
  BY <1>1
<1>8. d.heap[c].kind = "array" => n >= 1 /\ items[n][2] = d.ctx[i + 1]
  BY DEF LastOpen
<1>9. d.heap[c].kind = "object" => Distinct(d, items)
  BY <1>1 DEF Keyed
<1>. HIDE DEF c, items, n
<1>5. CASE d.heap[c].kind = "array"
  <2>1. n >= 1 /\ items[n][2] = d.ctx[i + 1]
    BY <1>5, <1>8
  <2>2. FrameIn(d, i) = [kind |-> "array", name |-> NULL, members |-> SubSeq(Elems(d, c), 1, n - 1)]
    BY ZenonT(60), <1>1, <1>5, <1>7, OuterArray
  <2>3. FrameIn(e, i) = [kind |-> "array", name |-> NULL, members |-> SubSeq(Elems(e, c), 1, n - 1)]
    BY ZenonT(60), <1>1, <1>5, <1>7, OuterArray
  <2>4. /\ IsSeq(Elems(d, c)) /\ Len(Elems(d, c)) = n
        /\ \A j \in 1 .. n : Elems(d, c)[j] = Sub(d, Trees(d), items[j][2])
    <3>1. IsDom(d) /\ c \in 1 .. Len(d.heap) /\ items = d.heap[c].items
      BY <1>1, <1>7
    <3>2. n = Len(items)
      BY <1>7
    <3>. QED
      BY ONLY SMTT(40), <3>1, <3>2, ItemsOf
  <2>5. /\ IsSeq(Elems(e, c)) /\ Len(Elems(e, c)) = n
        /\ \A j \in 1 .. n : Elems(e, c)[j] = Sub(e, Trees(e), items[j][2])
    <3>1. IsDom(e) /\ c \in 1 .. Len(e.heap) /\ items = e.heap[c].items
      BY <1>1, <1>7
    <3>2. n = Len(items)
      BY <1>7
    <3>. QED
      BY ONLY SMTT(40), <3>1, <3>2, ItemsOf
  <2>6. \A j \in 1 .. n - 1 : j \in 1 .. n /\ items[j][2] # d.ctx[i + 1]
    BY <1>3, <1>4, <2>1
  <2>7. \A j \in 1 .. n - 1 : Elems(d, c)[j] = Elems(e, c)[j]
    BY <1>2, <2>4, <2>5, <2>6
  <2>8. SubSeq(Elems(d, c), 1, n - 1) = SubSeq(Elems(e, c), 1, n - 1)
    <3>1. n - 1 \in Nat /\ n - 1 <= n
      BY SMTT(40), <1>4, <2>1
    <3>. QED
      BY SMTT(40), <2>4, <2>5, <2>7, <3>1, SubSeqSame
  <2>. QED
    BY <2>2, <2>3, <2>8
<1>6. CASE d.heap[c].kind = "object"
  <2>1. Distinct(d, items)
    BY <1>6, <1>9
  <2>2. CASE \A j \in 1 .. n : items[j][2] # d.ctx[i + 1]
    <3>1. FrameIn(d, i) = [kind |-> "object", name |-> Empty, members |-> Pairs(d, c)]
      <4>1. /\ IsDom(d) /\ IsHeap(d.heap) /\ i \in Nat /\ IsOpen(d, i) /\ i + 1 # Len(d.ctx)
            /\ c = d.ctx[i] /\ d.heap[c].kind = "object" /\ items = d.heap[c].items
            /\ \A j \in 1 .. Len(items) : items[j][2] # d.ctx[i + 1]
        BY SMTT(40), <1>1, <1>6, <1>7, <2>2
      <4>. QED
        BY ONLY SMTT(40), <4>1, OuterNameless
    <3>2. FrameIn(e, i) = [kind |-> "object", name |-> Empty, members |-> Pairs(e, c)]
      <4>1. /\ IsDom(e) /\ IsHeap(e.heap) /\ i \in Nat /\ IsOpen(e, i) /\ i + 1 # Len(e.ctx)
            /\ c = e.ctx[i] /\ e.heap[c].kind = "object" /\ items = e.heap[c].items
            /\ \A j \in 1 .. Len(items) : items[j][2] # e.ctx[i + 1]
        BY <1>1, <1>6, <1>7, <2>2
      <4>. QED
        BY ONLY <4>1, OuterNameless
    <3>3. \A j \in DOMAIN items : /\ KeyOf(d, items, j) = KeyOf(e, items, j)
                                  /\ Sub(d, Trees(d), items[j][2]) = Sub(e, Trees(e), items[j][2])
      BY <1>2, <1>4, <2>2
    <3>4. Members(d, Trees(d), items) = Members(e, Trees(e), items)
      <4>. QED
        BY ONLY <2>1, <3>3, SameItems
    <3>. QED
      BY <1>7, <3>1, <3>2, <3>4 DEF Pairs
  <2>3. CASE \E j \in 1 .. n : items[j][2] = d.ctx[i + 1]
    <3>1. PICK x \in 1 .. n : items[x][2] = d.ctx[i + 1]
      BY <2>3
    <3>2. \A l \in 1 .. n : items[l][2] = d.ctx[i + 1] => l = x
      BY SMTT(40), <1>3, <3>1
    <3>7. x \in Nat
      BY ONLY <1>7, x \in 1 .. n
    <3>6. x \in Nat /\ OnlyAt(items, x, d.ctx[i + 1])
      BY <1>7, <3>1, <3>2, <3>7, Zenon DEF OnlyAt
    <3>3. FrameIn(d, i) = [kind |-> "object", name |-> KeyOf(d, items, x),
                           members |-> Without(Pairs(d, c), KeyOf(d, items, x))]
      <4>1. OpenItem(d, i, c, items, x)
        BY SMTT(40), <1>1, <1>6, <1>7, <3>1, <3>6 DEF OpenItem
      <4>. QED
        BY ONLY <4>1, OuterNamed
    <3>4. FrameIn(e, i) = [kind |-> "object", name |-> KeyOf(e, items, x),
                           members |-> Without(Pairs(e, c), KeyOf(e, items, x))]
      <4>1. OpenItem(e, i, c, items, x)
        BY <1>1, <1>6, <1>7, <3>1, <3>6 DEF OpenItem
      <4>. QED
        BY ONLY <4>1, OuterNamed
    <3>5. Without(Pairs(e, c), KeyOf(e, items, x)) = Without(Pairs(d, c), KeyOf(d, items, x))
      <4>1. /\ IsDom(d) /\ IsDom(e) /\ c \in 1 .. Len(d.heap) /\ c \in 1 .. Len(e.heap)
            /\ items = d.heap[c].items /\ e.heap[c].items = d.heap[c].items /\ Distinct(d, items)
            /\ x \in Nat /\ SameKeys(d, e, items) /\ SameValues(d, e, items, x)
        <5>1. SameKeys(d, e, items)
          BY ZenonT(60), <1>2, <1>7 DEF SameKeys
        <5>2. SameValues(d, e, items, x)
          BY <1>2, <1>7, <3>2 DEF SameValues
        <5>3. x \in Nat /\ x \in 1 .. Len(items)
          BY <1>7
        <5>. QED
          BY SMTT(40), <1>1, <1>7, <2>1, <5>1, <5>2, <5>3
      <4>. QED
        BY ONLY SMTT(40), <4>1, SameWithout
    <3>. QED
      BY <1>2, <3>1, <3>3, <3>4, <3>5
  <2>. QED
    BY <2>2, <2>3
<1>. QED
  BY <1>1, <1>5, <1>6 DEF Kinds

-------------------------------------------------------------------------------
(* What the handlers do to the values. *)

(* c is d, perhaps with new values that hold nothing. *)
Extends(d, c) ==
  /\ Len(d.heap) <= Len(c.heap)
  /\ \A n \in 1 .. Len(d.heap) : c.heap[n] = d.heap[n]
  /\ \A n \in 1 .. Len(c.heap) : n \notin 1 .. Len(d.heap) => c.heap[n].items = <<>>

LEMMA ExtendsText ==
  ASSUME NEW d, NEW c, IsDom(d), IsDom(c), Extends(d, c), NEW p, Target(d.heap, p)
  PROVE  TextAt(c, p) = TextAt(d, p)
<1>1. /\ DOMAIN d.heap = 1 .. Len(d.heap) /\ DOMAIN c.heap = 1 .. Len(c.heap)
      /\ Len(d.heap) \in Nat /\ Len(c.heap) \in Nat /\ Len(d.heap) <= Len(c.heap)
  BY Addresses DEF Extends
<1>2. CASE p \in 1 .. Len(d.heap)
  <2>1. c.heap[p].text = d.heap[p].text
    BY <1>2 DEF Extends
  <2>. QED
    BY <1>1, <1>2, <2>1 DEF TextAt
<1>3. CASE p \notin 1 .. Len(d.heap)
  <2>1. p \in Statics \cup {NULL}
    BY <1>3 DEF Target
  <2>2. p \notin 1 .. Len(c.heap)
    BY <1>1, <2>1, DomConstants DEF Statics
  <2>. QED
    BY <1>1, <1>3, <2>2 DEF TextAt
<1>. QED
  BY <1>2, <1>3

LEMMA Created ==
  ASSUME NEW d, IsDom(d), NEW kind, NEW text, NEW c, c = Create(d, kind, text),
         NEW n, n = Len(d.heap) + 1
  PROVE  /\ Extends(d, c) /\ c.ctx = d.ctx /\ IsDom(c) /\ Len(c.heap) = n
         /\ n = Fresh(d) /\ n \in 1 .. Len(c.heap)
         /\ c.heap[n].kind = kind /\ c.heap[n].text = text /\ c.heap[n].items = <<>>
<1>1. /\ Around(d, c) /\ Len(c.heap) = Len(d.heap) + 1
      /\ \A m \in 1 .. Len(d.heap) : c.heap[m] = d.heap[m]
      /\ c.heap[Fresh(d)].kind = kind /\ c.heap[Fresh(d)].items = <<>>
  BY CreateFacts
<1>2. n = Fresh(d) /\ Len(d.heap) \in Nat
  BY Addresses DEF Fresh
<1>3. Extends(d, c)
  BY <1>1, <1>2 DEF Extends
<1>. DEFINE node == [kind |-> kind, text |-> text, items |-> <<>>]
<1>4. c = [heap |-> Append(d.heap, node), live |-> d.live \cup {Fresh(d)}, ctx |-> d.ctx, ok |-> d.ok]
  <2>1. c = [d EXCEPT !.heap = Append(d.heap, node), !.live = d.live \cup {Fresh(d)}]
    BY Zenon DEF Create
  <2>. QED
    BY <2>1, HeapAndLive, Zenon
<1>5. node.text = text
  OBVIOUS
<1>. HIDE DEF node
<1>6. c.heap = Append(d.heap, node)
  BY <1>4
<1>7. Append(d.heap, node)[Len(d.heap) + 1] = node
  BY AppendFacts DEF IsDom
<1>8. c.heap[n] = node
  BY <1>6, <1>7
<1>. QED
  BY <1>1, <1>2, <1>3, <1>5, <1>8 DEF Around

(* A scalar has its text. *)
LEMMA ScalarCreated ==
  ASSUME NEW d, IsDom(d), NEW s, NEW c, c = CreateScalar(d, s), NEW v, v = ScalarAt(d, s)
  PROVE  /\ Extends(d, c) /\ c.ctx = d.ctx /\ IsDom(c)
         /\ TextAt(c, v) = s /\ Target(c.heap, v)
         /\ v \in 1 .. Len(c.heap) => /\ v = Len(d.heap) + 1 /\ c.heap[v].kind \notin Kinds
                                      /\ c.heap[v].text = s
         /\ v \notin 1 .. Len(c.heap) => v = s
<1>1. Len(d.heap) \in Nat /\ DOMAIN d.heap = 1 .. Len(d.heap)
  BY Addresses
<1>2. CASE s \in Statics
  <2>1. c = d /\ v = s
    BY <1>2 DEF CreateScalar, ScalarAt
  <2>2. s \notin 1 .. Len(d.heap)
    BY <1>1, <1>2, DomConstants DEF Statics
  <2>. QED
    BY <1>1, <1>2, <2>1, <2>2 DEF Extends, TextAt, Target
<1>3. CASE s \notin Statics
  <2>. DEFINE kind == IF s \in Strings \cup Names THEN "string" ELSE "other"
              n    == Len(d.heap) + 1
  <2>1. c = Create(d, kind, s) /\ v = n
    BY <1>3 DEF CreateScalar, ScalarAt, Fresh
  <2>2. kind \notin Kinds
    BY DEF Kinds
  <2>. HIDE DEF kind
  <2>3. /\ Extends(d, c) /\ c.ctx = d.ctx /\ IsDom(c) /\ Len(c.heap) = n
        /\ n = Fresh(d) /\ n \in 1 .. Len(c.heap)
        /\ c.heap[n].kind = kind /\ c.heap[n].text = s /\ c.heap[n].items = <<>>
    BY <2>1, Created
  <2>4. DOMAIN c.heap = 1 .. Len(c.heap)
    BY <2>3, Addresses
  <2>5. TextAt(c, v) = s /\ Target(c.heap, v)
    BY <2>1, <2>3, <2>4 DEF TextAt, Target
  <2>. QED
    BY <2>1, <2>2, <2>3, <2>5
<1>. QED
  BY <1>2, <1>3

(* Only the items of o are others in c. *)
LEMMA ItemsReplaced ==
  ASSUME NEW d, IsDom(d), NEW o \in 1 .. Len(d.heap), NEW items, IsSeq(items),
         NEW c, c = WithItems(d, o, items)
  PROVE  /\ IsDom(c) /\ c.ctx = d.ctx /\ Len(c.heap) = Len(d.heap)
         /\ \A n \in 1 .. Len(d.heap) : n # o => c.heap[n] = d.heap[n]
         /\ c.heap[o].kind = d.heap[o].kind /\ c.heap[o].text = d.heap[o].text
         /\ c.heap[o].items = items
<1>. DEFINE node == [d.heap[o] EXCEPT !.items = items]
            h    == [d.heap EXCEPT ![o] = node]
<1>1. IsDom(c) /\ c.ctx = d.ctx
  BY WithItemsFacts DEF Around
<1>2. c = [d EXCEPT !.heap = h]
  <2>1. d = [heap |-> d.heap, live |-> d.live, ctx |-> d.ctx, ok |-> d.ok]
    BY DEF IsDom
  <2>. QED
    BY <2>1, SMT DEF WithItems
<1>3. c = [heap |-> h, live |-> d.live, ctx |-> d.ctx, ok |-> d.ok]
  BY <1>2, DomFields, Zenon
<1>4. IsNode(d.heap[o]) /\ IsSeq(d.heap)
  BY DEF IsDom
<1>5. node = [kind |-> d.heap[o].kind, text |-> d.heap[o].text, items |-> items]
  BY <1>4 DEF IsNode
<1>6. node.kind = d.heap[o].kind /\ node.text = d.heap[o].text /\ node.items = items
  <2>. HIDE DEF node
  <2>. QED
    BY <1>5
<1>. HIDE DEF node
<1>7. /\ Len(h) = Len(d.heap) /\ h[o] = node
      /\ \A n \in 1 .. Len(d.heap) : n # o => h[n] = d.heap[n]
  <2>1. h = With(d.heap, o, node)
    BY Zenon DEF With
  <2>. HIDE DEF h
  <2>. QED
    BY <1>4, <2>1, WithFacts
<1>. HIDE DEF h
<1>8. c.heap = h
  BY <1>3
<1>. QED
  BY <1>1, <1>6, <1>7, <1>8

(* The item x of old is w in new, or one more is. *)
Replaces(old, new, x, w) ==
  /\ IsSeq(new) /\ new[x] = w
  /\ \A i : i \in 1 .. Len(new) <=> i \in 1 .. Len(old) \/ i = x
  /\ \A i \in 1 .. Len(old) : i # x => new[i] = old[i]

LEMMA ReplacedAdds ==
  ASSUME NEW d, NEW e, IsDom(d), IsDom(e), e.heap = d.heap, NEW o \in 1 .. Len(d.heap),
         NEW items, NEW c, c = WithItems(e, o, items),
         NEW x \in Nat, NEW k, NEW v, Replaces(d.heap[o].items, items, x, <<k, v>>)
  PROVE  Adds(d, c, o, x, k, v) /\ c.ctx = e.ctx /\ Len(c.heap) = Len(d.heap) /\ IsDom(c)
<1>1. o \in 1 .. Len(e.heap) /\ Len(d.heap) \in Nat
  BY Addresses
<1>2. /\ IsDom(c) /\ c.ctx = e.ctx /\ Len(c.heap) = Len(e.heap)
      /\ \A n \in 1 .. Len(e.heap) : n # o => c.heap[n] = e.heap[n]
      /\ c.heap[o].kind = e.heap[o].kind /\ c.heap[o].text = e.heap[o].text
      /\ c.heap[o].items = items
  BY <1>1, ItemsReplaced DEF Replaces
<1>3. Adds(d, c, o, x, k, v)
  BY <1>1, <1>2 DEF Adds, Replaces
<1>. QED
  BY <1>2, <1>3

LEMMA LastAdds ==
  ASSUME NEW d, IsDom(d), NEW o \in 1 .. Len(d.heap), NEW k, NEW v,
         NEW c, c = WithItems(d, o, Append(d.heap[o].items, <<k, v>>)),
         NEW x, x = Len(d.heap[o].items) + 1
  PROVE  /\ Adds(d, c, o, x, k, v) /\ c.ctx = d.ctx /\ Len(c.heap) = Len(d.heap) /\ IsDom(c)
         /\ x \in Nat
<1>. DEFINE items == d.heap[o].items
            w     == <<k, v>>
            new   == Append(items, w)
<1>1. IsSeq(items) /\ Len(items) \in Nat
  BY SeqFacts DEF IsDom, IsNode
<1>. HIDE DEF w
<1>2. /\ IsSeq(new) /\ Len(new) = Len(items) + 1
      /\ \A i \in 1 .. Len(items) : new[i] = items[i]
      /\ new[Len(items) + 1] = w
  BY <1>1, AppendFacts
<1>. HIDE DEF new
<1>3. c = WithItems(d, o, new)
  BY DEF new, w
<1>4. x \in Nat /\ new[x] = <<k, v>>
  BY <1>1, <1>2 DEF w
<1>5. \A i : i \in 1 .. Len(new) <=> i \in 1 .. Len(items) \/ i = x
  BY <1>1, <1>2
<1>6. \A i \in 1 .. Len(items) : i # x => new[i] = items[i]
  BY <1>2
<1>7. d.heap = d.heap /\ IsDom(d)
  OBVIOUS
<1>8. Adds(d, c, o, x, k, v) /\ c.ctx = d.ctx /\ Len(c.heap) = Len(d.heap) /\ IsDom(c)
  <2>1. Replaces(d.heap[o].items, new, x, <<k, v>>)
    BY <1>2, <1>4, <1>5, <1>6 DEF Replaces
  <2>. QED
    BY <1>2, <1>3, <1>4, <1>7, <2>1, ReplacedAdds
<1>. QED
  BY <1>4, <1>8

LEMMA AppendAdds ==
  ASSUME NEW d, IsDom(d), NEW o \in 1 .. Len(d.heap), NEW v,
         NEW c, c = ArrayAppend(d, o, v), NEW x, x = Len(d.heap[o].items) + 1
  PROVE  /\ Adds(d, c, o, x, NULL, v) /\ c.ctx = d.ctx /\ Len(c.heap) = Len(d.heap) /\ IsDom(c)
         /\ x \in Nat
<1>1. c = WithItems(d, o, Append(d.heap[o].items, <<NULL, v>>))
  BY Zenon DEF ArrayAppend, WithItems
<1>. QED
  BY <1>1, LastAdds

(* jobject_put puts the pair in the place of the one with its key, or last. *)
LEMMA PutAdds ==
  ASSUME NEW d, IsDom(d), NEW o \in 1 .. Len(d.heap), NEW k, k # Empty, NEW v,
         Distinct(d, d.heap[o].items), NEW c, c = ObjectPut(d, o, k, v)
  PROVE  \E x \in Nat :
           /\ Adds(d, c, o, x, k, v) /\ c.ctx = d.ctx /\ Len(c.heap) = Len(d.heap) /\ IsDom(c)
           /\ Slot(d, d, o, x, k)
<1>. DEFINE items == d.heap[o].items
            same  == {i \in DOMAIN items : TextAt(d, items[i][1]) = TextAt(d, k)}
<1>1. IsSeq(items) /\ Len(items) \in Nat /\ DOMAIN items = 1 .. Len(items)
  BY SeqFacts DEF IsDom, IsNode
<1>2. CASE same = {}
  <2>. DEFINE x == Len(items) + 1
  <2>1. c = WithItems(d, o, Append(items, <<k, v>>))
    BY <1>2, Zenon DEF ObjectPut, WithItems
  <2>2. /\ Adds(d, c, o, x, k, v) /\ c.ctx = d.ctx /\ Len(c.heap) = Len(d.heap) /\ IsDom(c)
        /\ x \in Nat
    BY <2>1, LastAdds
  <2>3. \A i \in 1 .. Len(items) : KeyOf(d, items, i) = TextAt(d, k) <=> i = x
    <3>. TAKE i \in 1 .. Len(items)
    <3>1. i # x
      BY <1>1
    <3>2. KeyOf(d, items, i) # TextAt(d, k)
      BY <1>1, <1>2 DEF KeyOf
    <3>. QED
      BY <3>1, <3>2
  <2>. QED
    BY <2>2, <2>3 DEF Slot
<1>3. CASE same # {}
  <2>. DEFINE x   == CHOOSE i \in same : TRUE
              e   == Release(d, {items[x][1], items[x][2]})
              w   == <<k, v>>
              new == With(items, x, w)
  <2>1. x \in 1 .. Len(items) /\ KeyOf(d, items, x) = TextAt(d, k)
    <3>1. x \in same
      BY <1>3
    <3>. QED
      BY ZenonT(60), <1>1, <3>1 DEF KeyOf
  <2>2. c = [e EXCEPT !.heap[o].items[x] = w]
    BY <1>3, Zenon DEF ObjectPut
  <2>. HIDE DEF x
  <2>3. IsDom(e) /\ e.heap = d.heap /\ e.ctx = d.ctx
    BY ReleaseFacts DEF Around
  <2>. HIDE DEF e, w
  <2>4. [e EXCEPT !.heap[o].items[x] = w] = [e EXCEPT !.heap[o].items = [e.heap[o].items EXCEPT ![x] = w]]
    <3>1. e = [heap |-> e.heap, live |-> e.live, ctx |-> e.ctx, ok |-> e.ok]
      BY <2>3 DEF IsDom
    <3>. QED
      BY <3>1, SMT
  <2>5. [e.heap[o].items EXCEPT ![x] = w] = new
    BY <2>3, Zenon DEF With
  <2>6. c = WithItems(e, o, new)
    BY <2>2, <2>4, <2>5, Zenon DEF WithItems
  <2>7. /\ IsSeq(new) /\ Len(new) = Len(items) /\ new[x] = w
        /\ \A j \in 1 .. Len(items) : j # x => new[j] = items[j]
    BY SMTT(40), <1>1, <2>1, WithFacts
  <2>. HIDE DEF new
  <2>8. x \in Nat /\ Replaces(d.heap[o].items, new, x, <<k, v>>)
    <3>1. new[x] = <<k, v>> /\ x \in Nat
      BY <1>1, <2>1, <2>7 DEF w
    <3>2. \A i : i \in 1 .. Len(new) <=> i \in 1 .. Len(items) \/ i = x
      BY <1>1, <2>1, <2>7
    <3>. QED
      BY <2>7, <3>1, <3>2 DEF Replaces
  <2>9. Adds(d, c, o, x, k, v) /\ c.ctx = e.ctx /\ Len(c.heap) = Len(d.heap) /\ IsDom(c)
    BY <2>3, <2>6, <2>7, <2>8, ReplacedAdds
  <2>10. \A i \in 1 .. Len(items) : KeyOf(d, items, i) = TextAt(d, k) <=> i = x
    BY <1>1, <2>1 DEF Distinct
  <2>. QED
    BY ZenonT(60), <2>3, <2>8, <2>9, <2>10 DEF Slot
<1>. QED
  BY <1>2, <1>3

(* New values, then an item more *)
LEMMA ExtendsAdds ==
  ASSUME NEW d, NEW c, NEW e, IsDom(d), IsDom(c), IsDom(e), NEW o \in 1 .. Len(d.heap),
         NEW x \in Nat, NEW k, NEW v, Extends(d, c), Adds(c, e, o, x, k, v),
         Len(e.heap) = Len(c.heap)
  PROVE  Adds(d, e, o, x, k, v)
<1>1. Len(d.heap) \in Nat /\ Len(c.heap) \in Nat /\ Len(d.heap) <= Len(c.heap)
  BY Addresses DEF Extends
<1>2. /\ \A n \in 1 .. Len(d.heap) : c.heap[n] = d.heap[n] /\ n \in 1 .. Len(c.heap)
      /\ \A n \in 1 .. Len(c.heap) : n \notin 1 .. Len(d.heap) => c.heap[n].items = <<>>
  BY <1>1 DEF Extends
<1>3. /\ \A n \in 1 .. Len(c.heap) : n # o => e.heap[n] = c.heap[n]
      /\ e.heap[o].kind = c.heap[o].kind /\ e.heap[o].text = c.heap[o].text
      /\ \A i : i \in 1 .. Len(e.heap[o].items) <=> i \in 1 .. Len(c.heap[o].items) \/ i = x
      /\ \A i \in 1 .. Len(c.heap[o].items) : i # x => e.heap[o].items[i] = c.heap[o].items[i]
      /\ e.heap[o].items[x] = <<k, v>>
  BY DEF Adds
<1>4. c.heap[o] = d.heap[o]
  BY <1>2
<1>5. \A n \in 1 .. Len(e.heap) : n \notin 1 .. Len(d.heap) => e.heap[n].items = <<>>
  BY <1>2, <1>3
<1>6. \A n \in 1 .. Len(d.heap) : n # o => e.heap[n] = d.heap[n]
  BY <1>2, <1>3
<1>. QED
  BY <1>1, <1>3, <1>4, <1>5, <1>6 DEF Adds

-------------------------------------------------------------------------------
(* The containers that are open, when one gets an item more. *)

Base(d, L) ==
  /\ IsDom(d) /\ IsHeap(d.heap) /\ Guarded(d, L) /\ Apart(d, L) /\ Keyed(d)
  /\ \A i \in 1 .. L - 1 : Once(d, i) /\ LastOpen(d, i)

SameCtx(d, e, L) == \A y \in 1 .. L : e.ctx[y] = d.ctx[y]

Outside(d, L, p) == \A y \in 1 .. L : p # d.ctx[y]

(* The frames around the innermost one are the same. *)
SameFrames(d, e, L) == \A i \in 1 .. L - 1 : FrameIn(e, i) = FrameIn(d, i)

LEMMA InnerShut ==
  ASSUME NEW d, NEW L \in Nat, L >= 1, Base(d, L)
  PROVE  /\ d.ctx[L] \in 1 .. Len(d.heap) /\ L \in 1 .. L
         /\ Pointed(d.heap, d.ctx[L]) \subseteq Shut(d, L)
<1>. DEFINE o == d.ctx[L]
<1>1. o \in 1 .. Len(d.heap) /\ L \in 1 .. L
  BY DEF Base, Apart
<1>2. ASSUME NEW p \in Pointed(d.heap, o)
      PROVE  p \in Shut(d, L)
  <2>1. PICK i, j : Points(d.heap, o, i, j, p)
    BY <1>1, <1>2, PointedIs DEF IsHeap, Base
  <2>2. p \in 1 .. Len(d.heap)
    BY <2>1 DEF Points
  <2>3. ASSUME NEW y \in 1 .. L, p = d.ctx[y]
        PROVE  FALSE
    <3>1. y > 1 /\ o = d.ctx[y - 1]
      BY <1>1, <2>1, <2>3 DEF Guarded, Base
    <3>2. y - 1 \in 1 .. L /\ y - 1 # L
      BY <2>3, <3>1
    <3>3. y - 1 = L
      BY <1>1, <3>1, <3>2 DEF Apart, Base
    <3>. QED
      BY <3>2, <3>3
  <2>. QED
    BY <2>2, <2>3 DEF Shut
<1>. QED
  BY <1>1, <1>2

LEMMA AddsAlike ==
  ASSUME NEW d, NEW L \in Nat, L >= 1, Base(d, L), NEW o, o = d.ctx[L],
         NEW e, NEW x \in Nat, NEW k, NEW v, Adds(d, e, o, x, k, v), IsDom(e), IsHeap(e.heap)
  PROVE  Alike(d, e, Shut(d, L))
<1>1. Len(d.heap) <= Len(e.heap)
  BY DEF Adds
<1>2. L \in 1 .. L
  BY ONLY L \in Nat, L >= 1
<1>3. \A n \in Shut(d, L) : e.heap[n] = d.heap[n]
  BY <1>2 DEF Shut, Adds
<1>4. Guarded(d, L) /\ IsDom(d) /\ IsHeap(d.heap) /\ Keyed(d)
  BY DEF Base
<1>5. L \in Nat /\ IsDom(e) /\ IsHeap(e.heap)
  OBVIOUS
<1>. QED
  BY ONLY <1>1, <1>3, <1>4, <1>5, ShutAlike

LEMMA ExtendsAlike ==
  ASSUME NEW d, NEW L \in Nat, Base(d, L),
         NEW e, Extends(d, e), IsDom(e), IsHeap(e.heap)
  PROVE  Alike(d, e, Shut(d, L))
<1>1. Len(d.heap) <= Len(e.heap)
  BY DEF Extends
<1>3. \A n \in Shut(d, L) : e.heap[n] = d.heap[n]
  BY DEF Shut, Extends
<1>4. Guarded(d, L) /\ IsDom(d) /\ IsHeap(d.heap) /\ Keyed(d)
  BY DEF Base
<1>. QED
  BY <1>1, <1>3, <1>4, ShutAlike

LEMMA AddsGuarded ==
  ASSUME NEW d, NEW L \in Nat, L >= 1, Base(d, L), NEW o, o = d.ctx[L],
         NEW e, NEW x \in Nat, NEW k, NEW v, Adds(d, e, o, x, k, v), IsDom(e),
         SameCtx(d, e, L), Outside(d, L, k), Outside(d, L, v)
  PROVE  Guarded(e, L)
<1>1. o \in 1 .. Len(d.heap) /\ Guarded(d, L) /\ IsDom(d) /\ IsHeap(d.heap)
  BY InnerShut DEF Base
<1>. SUFFICES ASSUME NEW m \in 1 .. Len(e.heap), NEW i, NEW j, NEW p,
                     Points(e.heap, m, i, j, p), NEW y \in 1 .. L, p = e.ctx[y]
              PROVE  y > 1 /\ m = e.ctx[y - 1] /\ j = 2
  BY DEF Guarded
<1>2. p = d.ctx[y]
  BY DEF SameCtx
<1>3. p # k /\ p # v
  BY <1>2 DEF Outside
<1>4. m \in 1 .. Len(d.heap) /\ Points(d.heap, m, i, j, p)
  <2>1. \/ m \in 1 .. Len(d.heap) /\ Points(d.heap, m, i, j, p)
        \/ NewPlace(o, k, v, m, j, p)
    BY <1>1, AddsPoints
  <2>. QED
    BY <1>3, <2>1 DEF NewPlace
<1>5. y > 1 /\ m = d.ctx[y - 1] /\ j = 2
  BY <1>1, <1>2, <1>4 DEF Guarded
<1>6. y - 1 \in 1 .. L
  BY <1>5
<1>. QED
  BY <1>5, <1>6 DEF SameCtx

LEMMA ExtendsGuarded ==
  ASSUME NEW d, NEW L \in Nat, Base(d, L), NEW e, Extends(d, e), IsDom(e), SameCtx(d, e, L)
  PROVE  Guarded(e, L)
<1>1. Guarded(d, L) /\ IsDom(d) /\ IsHeap(d.heap) /\ Len(<<>>) = 0
      /\ Len(d.heap) \in Nat /\ Len(e.heap) \in Nat /\ Len(d.heap) <= Len(e.heap)
  BY Addresses, EmptyIsSeq DEF Base, Extends
<1>. SUFFICES ASSUME NEW m \in 1 .. Len(e.heap), NEW i, NEW j, NEW p,
                     Points(e.heap, m, i, j, p), NEW y \in 1 .. L, p = e.ctx[y]
              PROVE  y > 1 /\ m = e.ctx[y - 1] /\ j = 2
  BY DEF Guarded
<1>2. p = d.ctx[y] /\ p \in 1 .. Len(d.heap)
  BY DEF SameCtx, Base, Apart
<1>3. m \in 1 .. Len(d.heap)
  <2>1. m \notin 1 .. Len(d.heap) => e.heap[m].items = <<>>
    BY DEF Extends
  <2>2. i \in 1 .. Len(e.heap[m].items)
    BY DEF Points
  <2>. QED
    BY <1>1, <2>1, <2>2
<1>4. Points(d.heap, m, i, j, p)
  BY <1>2, <1>3 DEF Points, Extends
<1>5. y > 1 /\ m = d.ctx[y - 1] /\ j = 2
  BY <1>1, <1>2, <1>3, <1>4 DEF Guarded
<1>6. y - 1 \in 1 .. L
  BY <1>5
<1>. QED
  BY <1>5, <1>6 DEF SameCtx

(* The containers around the innermost one hold what they held. *)
LEMMA OuterKept ==
  ASSUME NEW d, NEW L \in Nat, Base(d, L), NEW e, IsDom(e), IsHeap(e.heap),
         Alike(d, e, Shut(d, L)), SameCtx(d, e, L),
         \A i \in 1 .. L - 1 : e.heap[d.ctx[i]] = d.heap[d.ctx[i]],
         Len(d.ctx) > L, Len(e.ctx) > L
  PROVE  SameFrames(d, e, L) /\ \A i \in 1 .. L - 1 : LastOpen(e, i)
<1>. SUFFICES ASSUME NEW i \in 1 .. L - 1
              PROVE  FrameIn(e, i) = FrameIn(d, i) /\ LastOpen(e, i)
  BY DEF SameFrames
<1>0. Len(d.ctx) \in Nat /\ Len(e.ctx) \in Nat
  BY SeqFacts DEF Base, IsDom
<1>1. i \in Nat /\ i \in 1 .. L /\ i + 1 \in 1 .. L /\ i + 1 # Len(d.ctx) /\ i + 1 # Len(e.ctx)
  BY <1>0
<1>2. e.ctx[i] = d.ctx[i] /\ e.ctx[i + 1] = d.ctx[i + 1]
  BY <1>1 DEF SameCtx
<1>3. /\ Guarded(d, L) /\ Apart(d, L) /\ IsDom(d) /\ IsHeap(d.heap) /\ Keyed(d)
      /\ Once(d, i) /\ LastOpen(d, i) /\ e.heap[d.ctx[i]] = d.heap[d.ctx[i]]
      /\ IsDom(e) /\ IsHeap(e.heap) /\ Alike(d, e, Shut(d, L)) /\ L \in Nat
  BY DEF Base
<1>4. FrameIn(e, i) = FrameIn(d, i)
  BY ONLY ZenonT(60), <1>1, <1>2, <1>3, OuterSame
<1>5. LastOpen(e, i)
  BY <1>2, <1>3 DEF LastOpen
<1>. QED
  BY <1>4, <1>5

LEMMA AddsOuter ==
  ASSUME NEW d, NEW L \in Nat, L >= 1, Base(d, L), NEW o, o = d.ctx[L],
         NEW e, NEW x \in Nat, NEW k, NEW v, Adds(d, e, o, x, k, v), IsDom(e), IsHeap(e.heap),
         SameCtx(d, e, L), Len(d.ctx) > L, Len(e.ctx) > L
  PROVE  SameFrames(d, e, L) /\ \A i \in 1 .. L - 1 : LastOpen(e, i)
<1>1. Alike(d, e, Shut(d, L))
  BY AddsAlike
<1>2. \A i \in 1 .. L - 1 : e.heap[d.ctx[i]] = d.heap[d.ctx[i]]
  <2>. TAKE i \in 1 .. L - 1
  <2>1. i \in 1 .. L /\ L \in 1 .. L /\ i # L
    OBVIOUS
  <2>2. d.ctx[i] \in 1 .. Len(d.heap) /\ d.ctx[i] # o
    BY <2>1 DEF Base, Apart
  <2>. QED
    BY <2>2 DEF Adds
<1>. QED
  BY <1>1, <1>2, OuterKept

LEMMA ExtendsOuter ==
  ASSUME NEW d, NEW L \in Nat, Base(d, L), NEW e, Extends(d, e), IsDom(e), IsHeap(e.heap),
         SameCtx(d, e, L), Len(d.ctx) > L, Len(e.ctx) > L
  PROVE  SameFrames(d, e, L) /\ \A i \in 1 .. L - 1 : LastOpen(e, i)
<1>1. Alike(d, e, Shut(d, L))
  BY ExtendsAlike
<1>2. \A i \in 1 .. L - 1 : e.heap[d.ctx[i]] = d.heap[d.ctx[i]]
  <2>. TAKE i \in 1 .. L - 1
  <2>1. i \in 1 .. L
    OBVIOUS
  <2>2. d.ctx[i] \in 1 .. Len(d.heap)
    BY <2>1 DEF Base, Apart
  <2>. QED
    BY <2>2 DEF Extends
<1>. QED
  BY <1>1, <1>2, OuterKept

LEMMA TreeIsSub ==
  ASSUME NEW d, NEW p
  PROVE  Sub(d, Trees(d), p) = Tree(d, p)
BY DEF Sub, Tree

Holds(e, o, m) == Contents(e, o) = m

(* An array gets another element. *)
LEMMA ArrayAdds ==
  ASSUME NEW d, NEW L \in Nat, L >= 1, Base(d, L), NEW o, o = d.ctx[L],
         d.heap[o].kind = "array", NEW e, NEW x \in Nat, NEW k, NEW v,
         Adds(d, e, o, x, k, v), FirstFree(d, o, x), IsDom(e), IsHeap(e.heap)
  PROVE  /\ Keyed(e) /\ e.heap[o].kind = "array" /\ o \in 1 .. Len(e.heap)
         /\ Holds(e, o, Longer(Contents(d, o), Tree(e, v)))
<1>1. o \in 1 .. Len(d.heap) /\ Pointed(d.heap, o) \subseteq Shut(d, L)
  BY InnerShut
<1>2. Alike(d, e, Shut(d, L))
  BY AddsAlike
<1>3. IsDom(d) /\ IsHeap(d.heap) /\ Keyed(d)
  BY DEF Base
<1>4. Elems(e, o) = Append(Elems(d, o), Sub(e, Trees(e), v))
  <2>. DEFINE S == Shut(d, L)
  <2>1. /\ o \in 1 .. Len(d.heap) /\ x \in Nat /\ Adds(d, e, o, x, k, v) /\ IsDom(d)
        /\ IsHeap(d.heap) /\ IsDom(e) /\ Alike(d, e, S) /\ Inside(d, o, S)
        /\ FirstFree(d, o, x)
    BY SMTT(40), <1>1, <1>2, <1>3 DEF Inside, FirstFree
  <2>. HIDE DEF S
  <2>. QED
    BY ONLY <2>1, AddsElems
<1>5. e.heap[o].kind = "array"
  BY <1>1 DEF Adds
<1>6. Keyed(e)
  <2>1. d.heap[o].kind = "object" => Slot(d, e, o, x, k) /\ TextAt(e, k) \in Names \ {Empty}
    OBVIOUS
  <2>2. /\ o \in 1 .. Len(d.heap) /\ Adds(d, e, o, x, k, v) /\ IsDom(d)
        /\ IsHeap(d.heap) /\ IsDom(e) /\ Keyed(d)
    BY <1>1, <1>3
  <2>. QED
    BY ONLY <2>1, <2>2, AddsKeyed
<1>7. o \in 1 .. Len(e.heap)
  <2>1. Len(d.heap) \in Nat /\ Len(e.heap) \in Nat
    BY <1>3, Addresses
  <2>2. Len(d.heap) <= Len(e.heap)
    BY DEF Adds
  <2>. QED
    BY SMTT(40), <1>1, <2>1, <2>2
<1>. QED
  BY <1>4, <1>5, <1>6, <1>7, TreeIsSub DEF Contents, Longer, Holds

(* An object gets another member or replaces one. *)
LEMMA ObjectAdds ==
  ASSUME NEW d, NEW L \in Nat, L >= 1, Base(d, L), NEW o, o = d.ctx[L],
         d.heap[o].kind = "object", NEW e, NEW x \in Nat, NEW k, NEW v,
         Adds(d, e, o, x, k, v), Slot(d, e, o, x, k), NEW t, t = TextAt(e, k),
         t \in Names \ {Empty}, IsDom(e), IsHeap(e.heap)
  PROVE  /\ Keyed(e) /\ e.heap[o].kind = "object" /\ o \in 1 .. Len(e.heap)
         /\ Contents(e, o) = PutAt(t, Tree(e, v), Contents(d, o))
<1>1. o \in 1 .. Len(d.heap) /\ Pointed(d.heap, o) \subseteq Shut(d, L)
  BY InnerShut
<1>2. Alike(d, e, Shut(d, L))
  BY AddsAlike
<1>3. IsDom(d) /\ IsHeap(d.heap) /\ Keyed(d)
  BY DEF Base
<1>5. e.heap[o].kind = "object"
  BY <1>1 DEF Adds
<1>6. Keyed(e)
  <2>1. d.heap[o].kind = "object" => Slot(d, e, o, x, k) /\ TextAt(e, k) \in Names \ {Empty}
    OBVIOUS
  <2>2. /\ o \in 1 .. Len(d.heap) /\ Adds(d, e, o, x, k, v) /\ IsDom(d)
        /\ IsHeap(d.heap) /\ IsDom(e) /\ Keyed(d)
    BY <1>1, <1>3
  <2>. QED
    BY ONLY <2>1, <2>2, AddsKeyed
<1>4. Pairs(e, o) = PutAt(TextAt(e, k), Sub(e, Trees(e), v), Pairs(d, o))
  <2>. DEFINE S == Shut(d, L)
  <2>1. /\ o \in 1 .. Len(d.heap) /\ x \in Nat /\ Adds(d, e, o, x, k, v) /\ IsDom(d)
        /\ IsHeap(d.heap) /\ IsDom(e) /\ Alike(d, e, S) /\ Inside(d, o, S)
        /\ Keyed(d) /\ Keyed(e) /\ d.heap[o].kind = "object" /\ Slot(d, e, o, x, k)
    BY <1>1, <1>2, <1>3, <1>6 DEF Inside
  <2>. HIDE DEF S
  <2>. QED
    BY ONLY <2>1, AddsPairs
<1>7. o \in 1 .. Len(e.heap)
  <2>1. Len(d.heap) \in Nat /\ Len(e.heap) \in Nat
    BY <1>3, Addresses
  <2>2. Len(d.heap) <= Len(e.heap)
    BY DEF Adds
  <2>. QED
    BY SMTT(40), <1>1, <2>1, <2>2
<1>8. Contents(e, o) = Pairs(e, o) /\ Contents(d, o) = Pairs(d, o)
  BY <1>5 DEF Contents
<1>. QED
  BY <1>4, <1>5, <1>6, <1>7, <1>8, TreeIsSub

LEMMA ExtendsKeyed ==
  ASSUME NEW d, NEW e, IsDom(d), IsHeap(d.heap), Keyed(d), IsDom(e), Extends(d, e)
  PROVE  Keyed(e)
<1>. SUFFICES ASSUME NEW n \in 1 .. Len(e.heap), e.heap[n].kind = "object"
              PROVE  /\ Distinct(e, e.heap[n].items)
                     /\ \A i \in DOMAIN e.heap[n].items : KeyOf(e, e.heap[n].items, i) \in Names \ {Empty}
  BY DEF Keyed
<1>. DEFINE items == e.heap[n].items
<1>1. Len(items) \in Nat /\ DOMAIN items = 1 .. Len(items) /\ Len(<<>>) = 0
  BY EmptyIsSeq, SeqFacts DEF IsDom, IsNode
<1>2. CASE n \notin 1 .. Len(d.heap)
  <2>1. items = <<>>
    BY <1>2 DEF Extends
  <2>2. DOMAIN items = {}
    BY <1>1, <2>1
  <2>. QED
    BY <2>2 DEF Distinct
<1>3. CASE n \in 1 .. Len(d.heap)
  <2>1. d.heap[n].kind = "object" /\ d.heap[n].items = items
    BY <1>3 DEF Extends
  <2>2. \A i \in 1 .. Len(items) : Target(d.heap, items[i][1])
    BY <1>3, <2>1 DEF IsHeap
  <2>3. \A i \in 1 .. Len(items) : KeyOf(e, items, i) = KeyOf(d, items, i)
    BY <2>2, ExtendsText DEF KeyOf
  <2>4. /\ Distinct(d, items)
        /\ \A i \in DOMAIN items : KeyOf(d, items, i) \in Names \ {Empty}
    BY <1>3, <2>1 DEF Keyed
  <2>. HIDE DEF items
  <2>. QED
    BY <1>1, <2>3, <2>4 DEF Distinct, items
<1>. QED
  BY <1>2, <1>3

(* A container that gets no item, in which nothing is open *)
LEMMA ExtendsContents ==
  ASSUME NEW d, NEW L \in Nat, L >= 1, Base(d, L), NEW o, o = d.ctx[L],
         NEW e, Extends(d, e), IsDom(e), IsHeap(e.heap)
  PROVE  /\ Keyed(e) /\ e.heap[o] = d.heap[o] /\ o \in 1 .. Len(e.heap)
         /\ Contents(e, o) = Contents(d, o)
<1>1. o \in 1 .. Len(d.heap) /\ L \in 1 .. L
  BY InnerShut
<1>2. IsDom(d) /\ IsHeap(d.heap) /\ Keyed(d) /\ Guarded(d, L) /\ Apart(d, L)
  BY DEF Base
<1>3. Keyed(e)
  BY <1>2, ExtendsKeyed
<1>4. e.heap[o] = d.heap[o] /\ o \in 1 .. Len(e.heap)
  BY <1>1, <1>2, Addresses DEF Extends
<1>5. Alike(d, e, Shut(d, L))
  BY ExtendsAlike
<1>. DEFINE items == d.heap[o].items
<1>6. ASSUME NEW i \in 1 .. Len(items)
      PROVE  /\ KeyOf(d, items, i) = KeyOf(e, items, i)
             /\ Sub(d, Trees(d), items[i][2]) = Sub(e, Trees(e), items[i][2])
  <2>1. items = d.heap[d.ctx[L]].items
    OBVIOUS
  <2>. HIDE DEF items
  <2>2. Fenced(d, L) /\ ItemOf(d, L, L, items, i) /\ Alike(d, e, Shut(d, L))
    BY <1>1, <1>2, <1>5, <2>1 DEF Fenced, ItemOf
  <2>. QED
    BY ONLY <2>2, StillInside
<1>7. DOMAIN items = 1 .. Len(items)
  BY <1>1, <1>2, ItemsAre
<1>8. CASE d.heap[o].kind = "object"
  <2>1. Distinct(d, items)
    BY SMTT(40), <1>1, <1>2, <1>8 DEF Keyed
  <2>2. \A i \in DOMAIN items : /\ KeyOf(d, items, i) = KeyOf(e, items, i)
                                /\ Sub(d, Trees(d), items[i][2]) = Sub(e, Trees(e), items[i][2])
    BY <1>6, <1>7
  <2>. HIDE DEF items
  <2>3. Members(d, Trees(d), items) = Members(e, Trees(e), items)
    BY ONLY <2>1, <2>2, SameItems
  <2>4. Pairs(e, o) = Pairs(d, o)
    BY <1>4, <2>3 DEF Pairs, items
  <2>. QED
    BY <1>3, <1>4, <1>8, <2>4 DEF Contents
<1>9. CASE d.heap[o].kind = "array"
  <2>1. Elements(d, Trees(d), items) = Elements(e, Trees(e), items)
    BY <1>6, <1>7 DEF Elements
  <2>2. Elems(e, o) = Elems(d, o)
    BY <1>4, <2>1 DEF Elems
  <2>. QED
    BY SMTT(40), <1>3, <1>4, <1>9, <2>2 DEF Contents
<1>. QED
  BY <1>1, <1>2, <1>8, <1>9 DEF Apart, Kinds

-------------------------------------------------------------------------------
(* The handlers go on, and what they have built is a document in the making:  *)
(* nothing but the containers that are open hold the ones open in them, the   *)
(* keys of an object differ, and an array holds what is open in it last.      *)

Own(d, ns, key) ==
  /\ IsNest(ns) /\ Good(d, ns, key, FALSE)
  /\ Guarded(d, Len(ns)) /\ Keyed(d)
  /\ \A i \in 1 .. Len(ns) - 1 : LastOpen(d, i)
  /\ key => /\ TextAt(d, Here(d)) \in Names
            /\ TextAt(d, Here(d)) = Empty => Here(d) = Empty

(* What the handlers find in the containers ns, the innermost of which is o *)
Found(d, ns, L, o) ==
  /\ L \in Nat /\ L >= 1 /\ L = Len(ns) /\ Len(d.ctx) = L + 1 /\ L \in 1 .. L
  /\ Base(d, L) /\ o = d.ctx[L] /\ o = Parent(d) /\ HasPrev(d)
  /\ o \in 1 .. Len(d.heap) /\ d.heap[o].kind = ns[L] /\ ns[L] \in Kinds
  /\ Target(d.heap, Here(d)) /\ Outside(d, L, Here(d)) /\ Outside(d, L, NULL)
  /\ \A p : p \notin 1 .. Len(d.heap) => Outside(d, L, p)

LEMMA OwnFound ==
  ASSUME NEW d, NEW ns, NEW key, Own(d, ns, key), ns # <<>>
  PROVE  Found(d, ns, Len(ns), Parent(d))
<1>. DEFINE L == Len(ns)
<1>1. /\ IsNest(ns) /\ Placed(d, ns, key, FALSE) /\ Kept(d, ns, FALSE)
      /\ Guarded(d, L) /\ Keyed(d) /\ \A i \in 1 .. L - 1 : LastOpen(d, i)
  BY DEF Own, Good
<1>2. IsDom(d) /\ Mirrors(d, ns, key, FALSE) /\ Chain(d, ns, FALSE) /\ Len(d.ctx) = L + 1
  BY <1>1 DEF Placed, Mirrors
<1>3. L \in Nat /\ L \in 1 .. L /\ HasPrev(d) /\ Parent(d) = d.ctx[L] /\ L >= 1
  <2>1. L \in Nat /\ L \in 1 .. L /\ HasPrev(d) /\ Parent(d) = d.ctx[L]
    BY <1>1, <1>2, ParentFacts
  <2>. HIDE DEF L
  <2>. QED
    BY <2>1
<1>4. IsHeap(d.heap) /\ Tidy(d.heap, d.live, Roots(d), FALSE)
  BY <1>1 DEF Kept, Fit
<1>5. /\ \A y \in 1 .. L : /\ d.ctx[y] \in 1 .. Len(d.heap) /\ d.ctx[y] \in d.live
                           /\ d.heap[d.ctx[y]].kind = ns[y] /\ ns[y] \in Kinds
      /\ \A y, z \in 1 .. L : d.ctx[y] = d.ctx[z] => y = z
  BY <1>1, <1>2 DEF Chain, Kept, IsNest
<1>6. Apart(d, L)
  BY <1>5 DEF Apart
<1>7. ASSUME NEW i \in 1 .. L - 1 PROVE Once(d, i)
  <2>. DEFINE items == d.heap[d.ctx[i]].items
  <2>. SUFFICES ASSUME NEW j \in 1 .. Len(items), NEW l \in 1 .. Len(items),
                       items[j][2] = d.ctx[i + 1], items[l][2] = d.ctx[i + 1]
                PROVE  j = l
    BY DEF Once
  <2>1. i \in 1 .. L /\ i + 1 \in 1 .. L
    BY <1>3
  <2>2. d.ctx[i] \in d.live /\ d.ctx[i + 1] \in 1 .. Len(d.heap)
    BY <1>5, <2>1
  <2>3. Points(d.heap, d.ctx[i], j, 2, d.ctx[i + 1]) /\ Points(d.heap, d.ctx[i], l, 2, d.ctx[i + 1])
    BY <2>2 DEF Points
  <2>. HIDE DEF items
  <2>. QED
    BY SMTT(40), <1>4, <2>2, <2>3 DEF Tidy
<1>8. Base(d, L)
  BY <1>1, <1>2, <1>4, <1>6, <1>7 DEF Base
<1>9. \A p : p \notin 1 .. Len(d.heap) => Outside(d, L, p)
  BY <1>5 DEF Outside
<1>10. Outside(d, L, NULL)
  BY <1>2, <1>9, NoAddress
<1>11. Outside(d, L, Here(d)) /\ Target(d.heap, Here(d))
  <2>1. Target(d.heap, Here(d))
    BY <1>1 DEF Kept
  <2>2. /\ \A y \in 1 .. L : d.ctx[y] <= d.ctx[L]
        /\ Here(d) \in 1 .. Len(d.heap) => Here(d) > d.ctx[L]
    BY <1>1, <1>2, InnerFacts
  <2>3. Len(d.heap) \in Nat
    BY <1>2, Addresses
  <2>. HIDE DEF L
  <2>4. ASSUME Here(d) \in 1 .. Len(d.heap)
        PROVE  Outside(d, L, Here(d))
    <3>. SUFFICES ASSUME NEW y \in 1 .. L, Here(d) = d.ctx[y] PROVE FALSE
      BY DEF Outside
    <3>1. d.ctx[y] <= d.ctx[L] /\ Here(d) > d.ctx[L] /\ d.ctx[y] \in Nat /\ d.ctx[L] \in Nat
      BY <1>3, <1>5, <2>2, <2>3, <2>4
    <3>. QED
      BY <3>1
  <2>. QED
    BY <1>9, <2>1, <2>4
<1>. QED
  BY <1>2, <1>3, <1>5, <1>8, <1>9, <1>10, <1>11 DEF Found

NameIn(d) == IF Here(d) = NULL THEN NULL ELSE TextAt(d, Here(d))

FrameOf(kind, m, name) == [kind |-> kind, members |-> m, name |-> name]

(* The frame of the innermost container *)
LEMMA TopFrameOf ==
  ASSUME NEW e, IsDom(e), IsHeap(e.heap), NEW L \in Nat, Len(e.ctx) = L + 1,
         NEW o, e.ctx[L] = o, o \in 1 .. Len(e.heap), NEW kind \in Kinds, e.heap[o].kind = kind
  PROVE  FrameIn(e, L) = FrameOf(kind, Contents(e, o), NameIn(e))
<1>1. IsOpen(e, L) /\ L + 1 = Len(e.ctx)
  BY DEF IsOpen
<1>. QED
  BY <1>1, InnerFrame DEF NameIn, FrameOf

LEMMA TopFrame ==
  ASSUME NEW d, NEW ns, NEW L, NEW o, Found(d, ns, L, o)
  PROVE  FrameIn(d, L) = FrameOf(ns[L], Contents(d, o), NameIn(d))
<1>1. IsDom(d) /\ IsHeap(d.heap) /\ IsOpen(d, L) /\ L + 1 = Len(d.ctx)
  BY DEF Found, Base, IsOpen
<1>. QED
  BY <1>1, InnerFrame DEF Found, NameIn, FrameOf

(* A frame with another name and other members *)
Renamed(f, n) == [f EXCEPT !.name = n]
Refilled(f, w) == [f EXCEPT !.members = w]
Remade(f, n, w) == [f EXCEPT !.name = n, !.members = w]

LEMMA FrameFields ==
  ASSUME NEW kind, NEW m, NEW name
  PROVE  LET f == FrameOf(kind, m, name)
         IN  f.kind = kind /\ f.members = m /\ f.name = name
BY DEF FrameOf

LEMMA FrameChanged ==
  ASSUME NEW kind, NEW m, NEW name, NEW w, NEW n
  PROVE  /\ Refilled(FrameOf(kind, m, name), w) = FrameOf(kind, w, name)
         /\ Renamed(FrameOf(kind, m, name), n) = FrameOf(kind, m, n)
         /\ Remade(FrameOf(kind, m, name), n, w) = FrameOf(kind, w, n)
<1>. DEFINE f == FrameOf(kind, m, name)
<1>1. [f EXCEPT !.members = w] = [kind |-> kind, members |-> w, name |-> name]
  BY DEF FrameOf
<1>2. [f EXCEPT !.name = n] = [kind |-> kind, members |-> m, name |-> n]
  BY DEF FrameOf
<1>. DEFINE g == [f EXCEPT !.name = n]
<1>3. [f EXCEPT !.name = n, !.members = w] = [g EXCEPT !.members = w]
  BY DEF FrameOf
<1>4. [g EXCEPT !.members = w] = [kind |-> kind, members |-> w, name |-> n]
  <2>. HIDE DEF g
  <2>1. g = [kind |-> kind, members |-> m, name |-> n]
    BY <1>2 DEF g
  <2>. QED
    BY <2>1
<1>. QED
  BY <1>1, <1>2, <1>3, <1>4 DEF FrameOf, Refilled, Renamed, Remade

(* A value placed in a frame *)
Holding(kind, name, m, v) ==
  IF kind = "array" THEN Longer(m, v) ELSE IF name = Empty THEN m ELSE PutAt(name, v, m)

LEMMA PlacedIs ==
  ASSUME NEW kind, NEW m, NEW name, NEW v
  PROVE  Document!Placed(FrameOf(kind, m, name), v) = FrameOf(kind, Holding(kind, name, m, v), NULL)
<1>. DEFINE f == FrameOf(kind, m, name)
<1>1. f.kind = kind /\ f.members = m /\ f.name = name
  BY FrameFields
<1>. HIDE DEF f
<1>. DEFINE w == IF f.kind = "array" THEN Longer(f.members, v)
                 ELSE IF f.name = Empty THEN f.members ELSE PutAt(f.name, v, f.members)
<1>2. Document!Placed(f, v) = [f EXCEPT !.name = NULL, !.members = w]
  BY DEF Document!Placed, PutAt, Longer
<1>3. w = Holding(kind, name, m, v)
  BY <1>1 DEF Holding
<1>. HIDE DEF w
<1>4. Remade(f, NULL, w) = FrameOf(kind, w, NULL)
  BY FrameChanged DEF f
<1>. QED
  BY <1>2, <1>3, <1>4 DEF f, Remade

LEMMA GoodIs ==
  ASSUME NEW e, NEW ns, NEW key, Good(e, ns, key, FALSE)
  PROVE  /\ IsDom(e) /\ IsHeap(e.heap) /\ Len(e.ctx) = Len(ns) + 1
         /\ ns # <<>> => IF key THEN HasKey(e) ELSE Here(e) = NULL
BY DEF Good, Placed, Mirrors, Kept, Fit

(* The innermost container o holds m in e, and all else is as it was in d. *)
Gets(d, e, L, o, m) ==
  /\ Guarded(e, L) /\ Keyed(e) /\ SameFrames(d, e, L)
  /\ \A i \in 1 .. L - 1 : LastOpen(e, i)
  /\ o \in 1 .. Len(e.heap) /\ e.heap[o].kind = d.heap[o].kind
  /\ Holds(e, o, m)

(* e has the contexts of d up to L, and one or two more. *)
Onward(d, e, L) == IsDom(e) /\ IsHeap(e.heap) /\ SameCtx(d, e, L) /\ Len(e.ctx) > L

LEMMA ArrayGets ==
  ASSUME NEW d, NEW ns, NEW L, NEW o, Found(d, ns, L, o), ns[L] = "array",
         NEW e, Onward(d, e, L), NEW x \in Nat, NEW v,
         Adds(d, e, o, x, NULL, v), FirstFree(d, o, x), Outside(d, L, v)
  PROVE  Gets(d, e, L, o, Longer(Contents(d, o), Tree(e, v)))
<1>1. /\ L \in Nat /\ L >= 1 /\ Base(d, L) /\ o = d.ctx[L] /\ Len(d.ctx) > L
      /\ d.heap[o].kind = "array" /\ Outside(d, L, NULL)
  BY DEF Found
<1>2. IsDom(e) /\ IsHeap(e.heap) /\ SameCtx(d, e, L) /\ Len(e.ctx) > L
  BY DEF Onward
<1>3. Guarded(e, L)
  BY <1>1, <1>2, AddsGuarded
<1>4. SameFrames(d, e, L) /\ \A i \in 1 .. L - 1 : LastOpen(e, i)
  BY <1>1, <1>2, AddsOuter
<1>5. /\ Keyed(e) /\ e.heap[o].kind = "array" /\ o \in 1 .. Len(e.heap)
      /\ Holds(e, o, Longer(Contents(d, o), Tree(e, v)))
  BY <1>1, <1>2, ArrayAdds
<1>. QED
  BY <1>1, <1>3, <1>4, <1>5 DEF Gets, Holds

LEMMA ObjectGets ==
  ASSUME NEW d, NEW ns, NEW L, NEW o, Found(d, ns, L, o), ns[L] = "object",
         NEW e, Onward(d, e, L), NEW x \in Nat, NEW k, NEW v,
         Adds(d, e, o, x, k, v), Slot(d, e, o, x, k), Outside(d, L, k), Outside(d, L, v),
         NEW t, t = TextAt(e, k), t \in Names \ {Empty}
  PROVE  Gets(d, e, L, o, PutAt(t, Tree(e, v), Contents(d, o)))
<1>1. /\ L \in Nat /\ L >= 1 /\ Base(d, L) /\ o = d.ctx[L] /\ Len(d.ctx) > L
      /\ d.heap[o].kind = "object"
  BY DEF Found
<1>2. IsDom(e) /\ IsHeap(e.heap) /\ SameCtx(d, e, L) /\ Len(e.ctx) > L
  BY DEF Onward
<1>3. Guarded(e, L)
  BY <1>1, <1>2, AddsGuarded
<1>4. SameFrames(d, e, L) /\ \A i \in 1 .. L - 1 : LastOpen(e, i)
  BY <1>1, <1>2, AddsOuter
<1>5. /\ Keyed(e) /\ e.heap[o].kind = "object" /\ o \in 1 .. Len(e.heap)
      /\ Contents(e, o) = PutAt(t, Tree(e, v), Contents(d, o))
  BY SMTT(40), <1>1, <1>2, ObjectAdds
<1>. QED
  BY <1>1, <1>3, <1>4, <1>5 DEF Gets, Holds

LEMMA NothingGets ==
  ASSUME NEW d, NEW ns, NEW L, NEW o, Found(d, ns, L, o),
         NEW e, Onward(d, e, L), Extends(d, e)
  PROVE  Gets(d, e, L, o, Contents(d, o)) /\ e.heap[o] = d.heap[o]
<1>1. /\ L \in Nat /\ L >= 1 /\ Base(d, L) /\ o = d.ctx[L] /\ Len(d.ctx) > L
  BY DEF Found
<1>2. IsDom(e) /\ IsHeap(e.heap) /\ SameCtx(d, e, L) /\ Len(e.ctx) > L
  BY DEF Onward
<1>3. Guarded(e, L)
  BY <1>1, <1>2, ExtendsGuarded
<1>4. SameFrames(d, e, L) /\ \A i \in 1 .. L - 1 : LastOpen(e, i)
  BY <1>1, <1>2, ExtendsOuter
<1>5. /\ Keyed(e) /\ e.heap[o] = d.heap[o] /\ o \in 1 .. Len(e.heap)
      /\ Contents(e, o) = Contents(d, o)
  BY <1>1, <1>2, ExtendsContents
<1>. QED
  BY <1>1, <1>3, <1>4, <1>5 DEF Gets, Holds

(* Only o is another in p. *)
OnlyIn(c, p, o) == \A n \in 1 .. Len(c.heap) : n # o => p.heap[n] = c.heap[n]

(* jobject_put of the key that waits and of a value, after the creation of
   values that hold nothing *)
Putting(d, p, o, x, k, v) ==
  Adds(d, p, o, x, k, v) /\ Slot(d, p, o, x, k) /\ TextAt(p, k) = TextAt(d, k)

LEMMA PutInto ==
  ASSUME NEW d, IsDom(d), IsHeap(d.heap), Keyed(d), NEW o \in 1 .. Len(d.heap),
         d.heap[o].kind = "object",
         NEW c, IsDom(c), Extends(d, c), NEW k, k # Empty, Target(d.heap, k), NEW v,
         NEW p, p = ObjectPut(c, o, k, v)
  PROVE  /\ \E x \in Nat : Putting(d, p, o, x, k, v)
         /\ p.ctx = c.ctx /\ Len(p.heap) = Len(c.heap) /\ IsDom(p) /\ OnlyIn(c, p, o)
<1>. DEFINE items == d.heap[o].items
<1>1. Keyed(c)
  BY ExtendsKeyed
<1>2. c.heap[o] = d.heap[o] /\ o \in 1 .. Len(c.heap)
  <2>1. Len(d.heap) \in Nat /\ Len(c.heap) \in Nat /\ Len(d.heap) <= Len(c.heap)
    BY Addresses DEF Extends
  <2>. QED
    BY <2>1 DEF Extends
<1>3. Distinct(c, c.heap[o].items)
  BY <1>1, <1>2 DEF Keyed
<1>4. PICK x \in Nat :
        /\ Adds(c, p, o, x, k, v) /\ p.ctx = c.ctx /\ Len(p.heap) = Len(c.heap) /\ IsDom(p)
        /\ Slot(c, c, o, x, k)
  BY <1>2, <1>3, PutAdds
<1>5. Adds(d, p, o, x, k, v)
  BY <1>4, ExtendsAdds
<1>6. TextAt(p, k) = TextAt(d, k) /\ TextAt(c, k) = TextAt(d, k)
  <2>1. TextAt(c, k) = TextAt(d, k)
    BY ExtendsText
  <2>2. IsDom(p) /\ Adds(d, p, o, x, k, v)
    BY <1>4, <1>5
  <2>3. TextAt(p, k) = TextAt(d, k)
    BY <2>2, AddsText
  <2>. QED
    BY <2>1, <2>3
<1>7. \A i \in 1 .. Len(items) : KeyOf(c, items, i) = KeyOf(d, items, i)
  <2>1. \A i \in 1 .. Len(items) : Target(d.heap, items[i][1])
    BY DEF IsHeap
  <2>. HIDE DEF items
  <2>. QED
    BY <2>1, ExtendsText DEF KeyOf
<1>8. Slot(d, p, o, x, k)
  BY <1>2, <1>4, <1>6, <1>7 DEF Slot
<1>9. OnlyIn(c, p, o)
  BY <1>4 DEF Adds, OnlyIn
<1>. QED
  BY <1>4, <1>5, <1>6, <1>8, <1>9 DEF Putting

-------------------------------------------------------------------------------
(* Each handler does to the frames what the document does.                    *)

(* The innermost frame becomes f. *)
Turned(d, e, L, f) == Len(e.ctx) = L + 1 /\ SameFrames(d, e, L) /\ FrameIn(e, L) = f

LEMMA OwnFrom ==
  ASSUME NEW d, NEW ns, NEW L, NEW o, Found(d, ns, L, o), IsNest(ns),
         NEW e, Good(e, ns, FALSE, FALSE), NEW m, Gets(d, e, L, o, m)
  PROVE  Own(e, ns, FALSE)
BY DEF Own, Found, Gets

LEMMA PlacedTurned ==
  ASSUME NEW d, NEW ns, NEW L, NEW o, Found(d, ns, L, o), NEW s,
         NEW e, Onward(d, e, L), Len(e.ctx) = L + 1, Here(e) = NULL,
         Gets(d, e, L, o, Holding(ns[L], NameIn(d), Contents(d, o), s))
  PROVE  Turned(d, e, L, Document!Placed(FrameIn(d, L), s))
<1>. DEFINE m == Holding(ns[L], NameIn(d), Contents(d, o), s)
<1>1. /\ L \in Nat /\ L \in 1 .. L /\ o = d.ctx[L] /\ d.heap[o].kind = ns[L] /\ ns[L] \in Kinds
  BY DEF Found
<1>2. FrameIn(d, L) = FrameOf(ns[L], Contents(d, o), NameIn(d))
  BY TopFrame
<1>3. IsDom(e) /\ IsHeap(e.heap) /\ e.ctx[L] = o
  BY <1>1 DEF Onward, SameCtx
<1>4. o \in 1 .. Len(e.heap) /\ e.heap[o].kind = ns[L] /\ Contents(e, o) = m /\ SameFrames(d, e, L)
  BY <1>1 DEF Gets, Holds
<1>5. FrameIn(e, L) = FrameOf(ns[L], Contents(e, o), NameIn(e))
  BY <1>1, <1>3, <1>4, TopFrameOf
<1>6. NameIn(e) = NULL
  BY DEF NameIn
<1>7. Document!Placed(FrameIn(d, L), s) = FrameOf(ns[L], m, NULL)
  BY <1>2, PlacedIs
<1>. HIDE DEF m
<1>. QED
  BY <1>4, <1>5, <1>6, <1>7 DEF Turned

(* A scalar that was created is no older value, and has its text. *)
LEMMA ScalarTree ==
  ASSUME NEW d, IsDom(d), NEW s, NEW c, c = CreateScalar(d, s), NEW v, v = ScalarAt(d, s),
         NEW o \in 1 .. Len(d.heap),
         NEW e, IsDom(e), IsHeap(e.heap), Len(e.heap) = Len(c.heap), OnlyIn(c, e, o)
  PROVE  Tree(e, v) = s /\ v \notin 1 .. Len(d.heap)
<1>1. /\ Extends(d, c) /\ IsDom(c)
      /\ v \in 1 .. Len(c.heap) => v = Len(d.heap) + 1 /\ c.heap[v].kind \notin Kinds /\ c.heap[v].text = s
      /\ v \notin 1 .. Len(c.heap) => v = s
  BY ScalarCreated
<1>2. Len(d.heap) \in Nat /\ Len(c.heap) \in Nat /\ Len(d.heap) <= Len(c.heap)
  BY <1>1, Addresses DEF Extends
<1>3. v \notin 1 .. Len(d.heap)
  BY <1>1, <1>2
<1>4. CASE v \in 1 .. Len(c.heap)
  <2>1. v # o /\ v \in 1 .. Len(e.heap)
    BY <1>3, <1>4
  <2>2. e.heap[v] = c.heap[v]
    BY <1>4, <2>1 DEF OnlyIn
  <2>3. e.heap[v].kind # "array" /\ e.heap[v].kind # "object" /\ e.heap[v].text = s
    BY <1>1, <1>4, <2>2 DEF Kinds
  <2>. QED
    BY <1>3, <2>1, <2>3, TreeOf
<1>5. CASE v \notin 1 .. Len(c.heap)
  <2>1. v \notin DOMAIN e.heap
    BY <1>5, Addresses
  <2>. QED
    BY <1>1, <1>3, <1>5, <2>1 DEF Tree
<1>. QED
  BY <1>4, <1>5

(* dom_object_key *)
LEMMA KeyOwn ==
  ASSUME NEW d, NEW ns, Own(d, ns, FALSE), ns # <<>>, ns[Len(ns)] = "object",
         NEW k \in Names, NEW e, e = DomKey(d, k)
  PROVE  Own(e, ns, TRUE) /\ Turned(d, e, Len(ns), Renamed(FrameIn(d, Len(ns)), k))
<1>. DEFINE L == Len(ns)
            o == Parent(d)
            c == CreateScalar(d, k)
            v == ScalarAt(d, k)
<1>1. Found(d, ns, L, o) /\ IsNest(ns) /\ Good(d, ns, FALSE, FALSE)
  BY OwnFound DEF Own
<1>. HIDE DEF L, o
<1>2. /\ L \in Nat /\ L \in 1 .. L /\ o = d.ctx[L] /\ d.heap[o].kind = "object" /\ ns[L] \in Kinds
      /\ HasPrev(d) /\ Parent(d) = o /\ o \in 1 .. Len(d.heap) /\ IsDom(d) /\ Len(d.ctx) = L + 1
  BY <1>1 DEF Found, L, Base, o
<1>3. Good(e, ns, TRUE, FALSE)
  BY <1>1, KeyGood
<1>4. IsDom(e) /\ IsHeap(e.heap) /\ Len(e.ctx) = L + 1 /\ Here(d) = NULL
  BY <1>1, <1>3, GoodIs DEF L
<1>5. ParentIs(d, "object")
  BY <1>2, Addresses DEF ParentIs, KindAt
<1>6. e = SetHere(c, v)
  BY <1>2, <1>4, <1>5 DEF DomKey
<1>7. /\ Extends(d, c) /\ c.ctx = d.ctx /\ IsDom(c) /\ TextAt(c, v) = k
  BY <1>2, ScalarCreated
<1>8. /\ e.heap = c.heap /\ Here(e) = v /\ \A j \in 1 .. Len(d.ctx) - 1 : e.ctx[j] = d.ctx[j]
  BY <1>6, <1>7, SetHereFacts
<1>9. Extends(d, e) /\ Onward(d, e, L)
  BY <1>2, <1>4, <1>7, <1>8 DEF Extends, Onward, SameCtx
<1>10. Gets(d, e, L, o, Contents(d, o))
  BY <1>1, <1>9, NothingGets
<1>11. TextAt(e, v) = k /\ v # NULL
  BY <1>2, <1>7, <1>8, KeyCreated DEF TextAt
<1>12. k = Empty => v = Empty
  BY DEF ScalarAt, Statics
<1>13. Own(e, ns, TRUE)
  <2>1. Guarded(e, L) /\ Keyed(e) /\ \A i \in 1 .. L - 1 : LastOpen(e, i)
    BY <1>10 DEF Gets
  <2>. QED
    BY <1>1, <1>3, <1>8, <1>11, <1>12, <2>1 DEF Own, L
<1>14. FrameIn(d, L) = FrameOf(ns[L], Contents(d, o), NameIn(d))
  BY <1>1, TopFrame
<1>15. o \in 1 .. Len(e.heap) /\ e.heap[o].kind = ns[L] /\ Contents(e, o) = Contents(d, o) /\ SameFrames(d, e, L)
  BY <1>1, <1>10 DEF Gets, Holds, Found
<1>16. FrameIn(e, L) = FrameOf(ns[L], Contents(e, o), NameIn(e))
  <2>1. e.ctx[L] = o
    BY <1>2, <1>8
  <2>. QED
    BY <1>2, <1>4, <1>15, <2>1, TopFrameOf
<1>17. NameIn(e) = k
  BY <1>8, <1>11 DEF NameIn
<1>18. Renamed(FrameIn(d, L), k) = FrameOf(ns[L], Contents(d, o), k)
  BY <1>14, FrameChanged
<1>19. Turned(d, e, L, Renamed(FrameIn(d, L), k))
  BY <1>4, <1>15, <1>16, <1>17, <1>18 DEF Turned
<1>. QED
  BY <1>13, <1>19 DEF L

(* A value is appended to the innermost container, an array. *)
LEMMA JoinArray ==
  ASSUME NEW d, NEW ns, NEW L, NEW o, Found(d, ns, L, o), ns[L] = "array",
         NEW c, IsDom(c), Extends(d, c), NEW v, Outside(d, L, v),
         NEW p, p = ArrayAppend(c, o, v),
         NEW e, e.heap = p.heap, Onward(d, e, L)
  PROVE  /\ \E x \in Nat : Adds(d, e, o, x, NULL, v) /\ FirstFree(d, o, x)
         /\ Gets(d, e, L, o, Longer(Contents(d, o), Tree(e, v)))
         /\ Len(e.heap) = Len(c.heap) /\ OnlyIn(c, e, o)
<1>1. IsDom(d) /\ o \in 1 .. Len(d.heap)
  BY DEF Found, Base
<1>2. c.heap[o] = d.heap[o] /\ o \in 1 .. Len(c.heap)
  <2>1. Len(d.heap) \in Nat /\ Len(c.heap) \in Nat /\ Len(d.heap) <= Len(c.heap)
    BY <1>1, Addresses DEF Extends
  <2>. QED
    BY <1>1, <2>1 DEF Extends
<1>. DEFINE x == Len(c.heap[o].items) + 1
<1>3. Adds(c, p, o, x, NULL, v) /\ Len(p.heap) = Len(c.heap) /\ IsDom(p) /\ x \in Nat
  BY ZenonT(60), <1>2, AppendAdds
<1>4. x = Len(d.heap[o].items) + 1
  BY <1>2
<1>. HIDE DEF x
<1>5. Adds(d, p, o, x, NULL, v)
  BY <1>1, <1>3, ExtendsAdds
<1>6. Adds(d, e, o, x, NULL, v) /\ FirstFree(d, o, x)
  BY <1>4, <1>5 DEF Adds, FirstFree
<1>7. Gets(d, e, L, o, Longer(Contents(d, o), Tree(e, v)))
  BY <1>3, <1>6, ArrayGets
<1>8. OnlyIn(c, e, o) /\ Len(e.heap) = Len(c.heap)
  BY <1>3 DEF Adds, OnlyIn
<1>. QED
  BY <1>3, <1>6, <1>7, <1>8

(* A value is put into the innermost container, an object. *)
LEMMA JoinObject ==
  ASSUME NEW d, NEW ns, NEW L, NEW o, Found(d, ns, L, o), ns[L] = "object",
         NEW c, IsDom(c), Extends(d, c), NEW v, Outside(d, L, v),
         NEW k, k = Here(d), k # Empty, TextAt(d, k) \in Names \ {Empty},
         NEW p, p = ObjectPut(c, o, k, v),
         NEW e, e.heap = p.heap, Onward(d, e, L)
  PROVE  /\ \E x \in Nat : Putting(d, e, o, x, k, v)
         /\ Gets(d, e, L, o, PutAt(TextAt(d, k), Tree(e, v), Contents(d, o)))
         /\ Len(e.heap) = Len(c.heap) /\ OnlyIn(c, e, o)
<1>1. /\ IsDom(d) /\ IsHeap(d.heap) /\ Keyed(d) /\ o \in 1 .. Len(d.heap)
      /\ d.heap[o].kind = "object" /\ Target(d.heap, k) /\ Outside(d, L, k)
  BY DEF Found, Base
<1>2. /\ \E x \in Nat : Putting(d, p, o, x, k, v)
      /\ Len(p.heap) = Len(c.heap) /\ IsDom(p) /\ OnlyIn(c, p, o)
  BY <1>1, PutInto
<1>3. PICK x \in Nat : Putting(d, p, o, x, k, v)
  BY <1>2
<1>4. TextAt(e, k) = TextAt(p, k)
  BY DEF TextAt
<1>5. Adds(d, e, o, x, k, v)
  BY <1>3 DEF Putting, Adds
<1>6. Slot(d, e, o, x, k) /\ TextAt(e, k) = TextAt(d, k)
  BY <1>3, <1>4 DEF Putting, Slot
<1>7. Gets(d, e, L, o, PutAt(TextAt(d, k), Tree(e, v), Contents(d, o)))
  <2>. DEFINE t == TextAt(d, k)
  <2>1. t = TextAt(e, k) /\ t \in Names \ {Empty}
    BY <1>6
  <2>. HIDE DEF t
  <2>2. Gets(d, e, L, o, PutAt(t, Tree(e, v), Contents(d, o)))
    BY <1>1, <1>5, <1>6, <2>1, ObjectGets
  <2>. QED
    BY <2>2 DEF t
<1>8. OnlyIn(c, e, o) /\ Len(e.heap) = Len(c.heap)
  BY <1>2 DEF OnlyIn
<1>. QED
  BY <1>5, <1>6, <1>7, <1>8 DEF Putting

(* dom_null, dom_boolean, dom_number and dom_string *)
LEMMA ScalarOwn ==
  ASSUME NEW d, NEW ns, NEW key, Own(d, ns, key), Ready(ns, key),
         NEW s, NEW e, e = DomScalar(d, s)
  PROVE  Own(e, ns, FALSE) /\ Turned(d, e, Len(ns), Document!Placed(FrameIn(d, Len(ns)), s))
<1>. DEFINE L == Len(ns)
            o == Parent(d)
            c == CreateScalar(d, s)
            v == ScalarAt(d, s)
<1>1. Found(d, ns, L, o) /\ IsNest(ns) /\ Good(d, ns, key, FALSE) /\ ns # <<>>
  BY OwnFound DEF Own, Ready
<1>. HIDE DEF L, o
<1>2. /\ L \in Nat /\ L \in 1 .. L /\ o = d.ctx[L] /\ d.heap[o].kind = ns[L] /\ ns[L] \in Kinds
      /\ HasPrev(d) /\ Parent(d) = o /\ o \in 1 .. Len(d.heap) /\ IsDom(d) /\ Len(d.ctx) = L + 1
      /\ L = Len(ns) /\ IsHeap(d.heap)
  BY <1>1 DEF Found, L, Base, o
<1>3. Good(e, ns, FALSE, FALSE)
  BY <1>1, ScalarGood
<1>4. IsDom(e) /\ IsHeap(e.heap) /\ Len(e.ctx) = L + 1 /\ Here(e) = NULL
  BY <1>1, <1>2, <1>3, GoodIs
<1>5. \A kind : ParentIs(d, kind) <=> ns[L] = kind
  BY <1>2, Addresses DEF ParentIs, KindAt
<1>6. /\ Extends(d, c) /\ c.ctx = d.ctx /\ IsDom(c)
  BY <1>2, ScalarCreated
<1>7. v \notin 1 .. Len(d.heap)
  <2>1. v \in 1 .. Len(c.heap) => v = Len(d.heap) + 1
    BY <1>2, ScalarCreated
  <2>2. Len(d.heap) \in Nat /\ Len(c.heap) \in Nat /\ Len(d.heap) <= Len(c.heap)
    BY <1>2, <1>6, Addresses DEF Extends
  <2>. QED
    BY <2>1, <2>2
<1>8. Outside(d, L, v)
  BY <1>1, <1>7 DEF Found
<1>. HIDE DEF c, v
<1>11. ns[L] = IF key THEN "object" ELSE "array"
  BY <1>2 DEF Ready
<1>12. IF key THEN HasKey(d) ELSE Here(d) = NULL
  BY <1>1 DEF Good, Placed, Mirrors
<1>9. CASE ~key
  <2>1. ns[L] = "array" /\ Here(d) = NULL
    BY <1>9, <1>11, <1>12
  <2>2. e = ArrayAppend(c, o, v)
    BY <1>2, <1>5, <2>1 DEF DomScalar, c, v
  <2>3. e.ctx = c.ctx
    <3>1. o \in 1 .. Len(c.heap)
      BY <1>2, <1>6, Addresses DEF Extends
    <3>. QED
      BY <1>6, <2>2, <3>1, ArrayAppendFacts DEF Around
  <2>4. Onward(d, e, L)
    BY <1>2, <1>4, <1>6, <2>3 DEF Onward, SameCtx
  <2>5. /\ Gets(d, e, L, o, Longer(Contents(d, o), Tree(e, v)))
        /\ Len(e.heap) = Len(c.heap) /\ OnlyIn(c, e, o)
    BY <1>1, <1>6, <1>8, <2>1, <2>2, <2>4, JoinArray
  <2>6. Tree(e, v) = s
    BY <1>2, <1>4, <2>5, ScalarTree DEF c, v
  <2>7. Gets(d, e, L, o, Holding(ns[L], NameIn(d), Contents(d, o), s))
    BY <2>1, <2>5, <2>6 DEF Holding
  <2>8. Turned(d, e, L, Document!Placed(FrameIn(d, L), s))
    BY <1>1, <1>4, <2>4, <2>7, PlacedTurned
  <2>9. Own(e, ns, FALSE)
    BY <1>1, <1>3, <2>5, OwnFrom
  <2>. QED
    BY <1>2, <2>8, <2>9
<1>10. CASE key
  <2>. DEFINE k == Here(d)
              p == ObjectPut(c, o, k, v)
  <2>1. ns[L] = "object" /\ HasKey(d) /\ k # NULL
    BY <1>10, <1>11, <1>12 DEF HasKey
  <2>2. e = SetHere(p, NULL)
    BY <1>2, <1>5, <2>1 DEF DomScalar, c, v
  <2>3. TextAt(d, k) \in Names /\ (TextAt(d, k) = Empty => k = Empty)
    BY <1>10 DEF Own
  <2>4. NameIn(d) = TextAt(d, k)
    BY <2>1 DEF NameIn
  <2>5. o \in 1 .. Len(c.heap)
    BY <1>2, <1>6, Addresses DEF Extends
  <2>6. IsDom(p) /\ p.ctx = d.ctx
    BY <1>6, <2>5, ObjectPutFacts DEF Around
  <2>7. e.heap = p.heap /\ \A j \in 1 .. Len(d.ctx) - 1 : e.ctx[j] = d.ctx[j]
    BY <2>2, <2>6, SetHereFacts
  <2>8. Onward(d, e, L)
    BY <1>2, <1>4, <2>7 DEF Onward, SameCtx
  <2>. DEFINE m == Holding(ns[L], NameIn(d), Contents(d, o), s)
  <2>9. Gets(d, e, L, o, m)
    <3>1. CASE k = Empty
      <4>1. e.heap = c.heap
        BY <2>7, <3>1 DEF ObjectPut
      <4>2. Extends(d, e)
        BY <1>6, <4>1 DEF Extends
      <4>3. Gets(d, e, L, o, Contents(d, o))
        BY <1>1, <2>8, <4>2, NothingGets
      <4>4. TextAt(d, k) = Empty
        BY <1>2, <3>1, NoAddress, Addresses DEF TextAt
      <4>. QED
        BY <2>1, <2>4, <4>3, <4>4 DEF Holding
    <3>2. CASE k # Empty
      <4>. HIDE DEF k, p, m
      <4>1. TextAt(d, k) \in Names \ {Empty}
        BY <2>3, <3>2
      <4>2. /\ Gets(d, e, L, o, PutAt(TextAt(d, k), Tree(e, v), Contents(d, o)))
            /\ Len(e.heap) = Len(c.heap) /\ OnlyIn(c, e, o)
        BY <1>1, <1>6, <1>8, <2>1, <2>7, <2>8, <3>2, <4>1, JoinObject DEF k, p
      <4>3. Tree(e, v) = s
        BY <1>2, <1>4, <4>2, ScalarTree DEF c, v
      <4>. QED
        BY <2>1, <2>4, <4>1, <4>2, <4>3 DEF Holding, m
    <3>. QED
      BY <3>1, <3>2
  <2>10. Turned(d, e, L, Document!Placed(FrameIn(d, L), s))
    BY <1>1, <1>4, <2>8, <2>9, PlacedTurned
  <2>. HIDE DEF m
  <2>11. Own(e, ns, FALSE)
    BY <1>1, <1>3, <2>9, OwnFrom
  <2>. QED
    BY <1>2, <2>10, <2>11
<1>. QED
  BY <1>9, <1>10

(* The sequence without its last element *)
Shorter(q) == SubSeq(q, 1, Len(q) - 1)

LEMMA ShorterIs ==
  ASSUME NEW q, IsSeq(q), q # <<>>
  PROVE  /\ IsSeq(Shorter(q)) /\ Len(Shorter(q)) = Len(q) - 1
         /\ \A i \in 1 .. Len(q) - 1 : Shorter(q)[i] = q[i]
<1>1. PICK S : q \in Seq(S)
  BY DEF IsSeq
<1>2. Len(q) \in Nat /\ Len(q) # 0
  BY SeqFacts
<1>. DEFINE n == Len(q) - 1
            r == [i \in 1 .. n |-> q[i]]
<1>3. SubSeq(q, 1, n) = r
  BY <1>1, <1>2
<1>4. IsSeq(r) /\ Len(r) = n
  <2>1. n \in Nat /\ r = [i \in 1 .. n |-> r[i]]
    BY <1>2
  <2>. HIDE DEF r, n
  <2>. QED
    BY <2>1, ListIsSeq
<1>. QED
  BY <1>3, <1>4 DEF Shorter

LEMMA ShorterLonger ==
  ASSUME NEW q, IsSeq(q), NEW v
  PROVE  Shorter(Longer(q, v)) = q
<1>. DEFINE r == Append(q, v)
<1>1. /\ IsSeq(r) /\ Len(r) = Len(q) + 1 /\ \A i \in 1 .. Len(q) : r[i] = q[i]
  BY AppendFacts
<1>2. Len(q) \in Nat
  BY SeqFacts
<1>. HIDE DEF r
<1>3. r # <<>>
  BY <1>1, <1>2, SeqFacts
<1>4. IsSeq(Shorter(r)) /\ Len(Shorter(r)) = Len(r) - 1 /\ \A i \in 1 .. Len(r) - 1 : Shorter(r)[i] = r[i]
  BY <1>1, <1>3, ShorterIs
<1>5. \A i \in 1 .. Len(q) : Shorter(r)[i] = q[i]
  BY <1>1, <1>2, <1>4
<1>6. Shorter(r) = q
  BY <1>1, <1>2, <1>4, <1>5, EqualSeqs
<1>. QED
  BY <1>6 DEF r, Longer

LEMMA LongerShorter ==
  ASSUME NEW q, IsSeq(q), q # <<>>, NEW v, v = q[Len(q)]
  PROVE  Longer(Shorter(q), v) = q
<1>1. IsSeq(Shorter(q)) /\ Len(Shorter(q)) = Len(q) - 1 /\ \A i \in 1 .. Len(q) - 1 : Shorter(q)[i] = q[i]
  BY ShorterIs
<1>. DEFINE p == Shorter(q)
            r == Append(p, v)
<1>2. /\ IsSeq(r) /\ Len(r) = Len(p) + 1 /\ \A i \in 1 .. Len(p) : r[i] = p[i]
      /\ r[Len(p) + 1] = v
  BY <1>1, AppendFacts
<1>3. Len(q) \in Nat /\ Len(q) # 0
  BY SeqFacts
<1>. HIDE DEF r, p
<1>4. Len(r) = Len(q) /\ \A i \in 1 .. Len(r) : r[i] = q[i]
  BY <1>1, <1>2, <1>3 DEF p
<1>5. r = q
  BY <1>2, <1>4, EqualSeqs
<1>. QED
  BY <1>5 DEF r, p, Longer

(* Members without one of them *)
IsFn(f) == f = [m \in DOMAIN f |-> f[m]]

IsPut(p, k, v, m) ==
  /\ IsFn(p) /\ DOMAIN p = {k} \cup DOMAIN m
  /\ p[k] = v /\ \A n \in DOMAIN m : n # k => p[n] = m[n]

LEMMA PutAtIs ==
  ASSUME NEW k, NEW v, NEW m
  PROVE  IsPut(PutAt(k, v, m), k, v, m)
<1>. DEFINE one == [n \in {k} |-> v]
<1>1. DOMAIN one = {k} /\ one[k] = v
  OBVIOUS
<1>. HIDE DEF one
<1>2. Document!Joined(one, m) = [n \in {k} \cup DOMAIN m |-> IF n \in {k} THEN one[n] ELSE m[n]]
  BY <1>1 DEF Document!Joined
<1>3. PutAt(k, v, m) = [n \in {k} \cup DOMAIN m |-> IF n \in {k} THEN v ELSE m[n]]
  BY <1>1, <1>2 DEF PutAt, one
<1>. QED
  BY <1>3 DEF IsFn, IsPut

LEMMA WithoutIs ==
  ASSUME NEW f, NEW k
  PROVE  /\ IsFn(Without(f, k)) /\ DOMAIN Without(f, k) = DOMAIN f \ {k}
         /\ \A n \in DOMAIN f : n # k => Without(f, k)[n] = f[n]
BY DEF Without, IsFn

LEMMA EqualFns ==
  ASSUME NEW f, NEW g, IsFn(f), IsFn(g), DOMAIN f = DOMAIN g, \A n \in DOMAIN f : f[n] = g[n]
  PROVE  f = g
BY DEF IsFn

LEMMA WithoutPut ==
  ASSUME NEW k, NEW v, NEW m
  PROVE  Without(PutAt(k, v, m), k) = Without(m, k)
<1>. DEFINE p == PutAt(k, v, m)
            f == Without(p, k)
            g == Without(m, k)
<1>0. IsPut(p, k, v, m)
  BY PutAtIs
<1>. HIDE DEF p
<1>1. DOMAIN p = {k} \cup DOMAIN m /\ \A n \in DOMAIN m : n # k => p[n] = m[n]
  BY <1>0 DEF IsPut
<1>2. IsFn(f) /\ DOMAIN f = DOMAIN p \ {k} /\ \A n \in DOMAIN p : n # k => f[n] = p[n]
  BY WithoutIs
<1>3. IsFn(g) /\ DOMAIN g = DOMAIN m \ {k} /\ \A n \in DOMAIN m : n # k => g[n] = m[n]
  BY WithoutIs
<1>. HIDE DEF f, g
<1>4. DOMAIN f = DOMAIN g /\ \A n \in DOMAIN f : f[n] = g[n]
  BY <1>1, <1>2, <1>3
<1>5. f = g
  BY <1>2, <1>3, <1>4, EqualFns
<1>. QED
  BY <1>5 DEF f, g, p

LEMMA PutWithout ==
  ASSUME NEW f, IsFn(f), NEW k \in DOMAIN f
  PROVE  PutAt(k, f[k], Without(f, k)) = f
<1>. DEFINE m == Without(f, k)
            p == PutAt(k, f[k], m)
<1>1. DOMAIN m = DOMAIN f \ {k} /\ \A n \in DOMAIN f : n # k => m[n] = f[n]
  BY WithoutIs
<1>. HIDE DEF m
<1>0. IsPut(p, k, f[k], m)
  BY PutAtIs
<1>. HIDE DEF p
<1>2. IsFn(p) /\ DOMAIN p = {k} \cup DOMAIN m /\ p[k] = f[k] /\ \A n \in DOMAIN m : n # k => p[n] = m[n]
  BY <1>0 DEF IsPut
<1>3. DOMAIN p = DOMAIN f /\ \A n \in DOMAIN p : p[n] = f[n]
  BY <1>1, <1>2
<1>4. p = f
  BY <1>2, <1>3, EqualFns
<1>. QED
  BY <1>4 DEF p, m

LEMMA WithoutNone ==
  ASSUME NEW f, IsFn(f), NEW k, k \notin DOMAIN f
  PROVE  Without(f, k) = f
<1>. DEFINE g == Without(f, k)
<1>1. IsFn(g) /\ DOMAIN g = DOMAIN f \ {k} /\ \A n \in DOMAIN f : n # k => g[n] = f[n]
  BY WithoutIs
<1>. HIDE DEF g
<1>2. DOMAIN g = DOMAIN f /\ \A n \in DOMAIN g : g[n] = f[n]
  BY <1>1
<1>3. g = f
  BY <1>1, <1>2, EqualFns
<1>. QED
  BY <1>3 DEF g

(* A frame in which a container opens, and that container *)
LEMMA OpenedIs ==
  ASSUME NEW m, NEW name
  PROVE  /\ Document!Opened(FrameOf("array", m, name)) = FrameOf("array", m, name)
         /\ Document!Opened(FrameOf("object", m, name)) = FrameOf("object", Without(m, name), name)
<1>1. Document!Opened(FrameOf("array", m, name)) = FrameOf("array", m, name)
  BY FrameFields DEF Document!Opened
<1>. DEFINE f == FrameOf("object", m, name)
<1>2. f.kind = "object" /\ f.members = m /\ f.name = name
  BY FrameFields
<1>. HIDE DEF f
<1>. DEFINE w == [n \in DOMAIN f.members \ {f.name} |-> f.members[n]]
<1>3. Document!Opened(f) = [f EXCEPT !.members = w]
  BY <1>2 DEF Document!Opened
<1>4. w = Without(m, name)
  BY <1>2 DEF Without
<1>. HIDE DEF w
<1>5. Refilled(f, w) = FrameOf("object", w, name)
  BY FrameChanged DEF f
<1>. QED
  BY <1>1, <1>3, <1>4, <1>5 DEF f, Refilled

LEMMA FrameIs ==
  ASSUME NEW kind
  PROVE  Document!Frame(kind)
           = FrameOf(kind, IF kind = "array" THEN <<>> ELSE Document!NoMembers, NULL)
BY DEF Document!Frame, FrameOf

(* n is held by nothing, or by o as a value. *)
Unheld(e, n) == \A m \in 1 .. Len(e.heap) : \A i, j : ~Points(e.heap, m, i, j, n)

HeldBy(e, n, o) ==
  \A m \in 1 .. Len(e.heap) : \A i, j : Points(e.heap, m, i, j, n) => m = o /\ j = 2

LEMMA NotTarget ==
  ASSUME NEW d, IsDom(d), NEW n, n = Len(d.heap) + 1
  PROVE  ~Target(d.heap, n) /\ n \notin 1 .. Len(d.heap)
<1>1. n \in Nat /\ n \notin 1 .. Len(d.heap)
  BY Addresses
<1>2. n \notin Statics \cup {NULL}
  BY <1>1, DomConstants DEF Statics
<1>. QED
  BY <1>1, <1>2 DEF Target

LEMMA ExtendsUnheld ==
  ASSUME NEW d, IsDom(d), IsHeap(d.heap), NEW e, IsDom(e), Extends(d, e),
         NEW n, n = Len(d.heap) + 1
  PROVE  Unheld(e, n)
<1>. SUFFICES ASSUME NEW m \in 1 .. Len(e.heap), NEW i, NEW j, Points(e.heap, m, i, j, n)
              PROVE  FALSE
  BY DEF Unheld
<1>1. /\ i \in 1 .. Len(e.heap[m].items) /\ j \in {1, 2} /\ e.heap[m].items[i][j] = n
  BY DEF Points
<1>2. CASE m \in 1 .. Len(d.heap)
  <2>1. e.heap[m] = d.heap[m]
    BY <1>2 DEF Extends
  <2>2. Target(d.heap, n)
    BY <1>1, <1>2, <2>1 DEF IsHeap
  <2>. QED
    BY <2>2, NotTarget
<1>3. CASE m \notin 1 .. Len(d.heap)
  <2>1. e.heap[m].items = <<>>
    BY <1>3 DEF Extends
  <2>. QED
    BY <1>1, <2>1, EmptyIsSeq
<1>. QED
  BY <1>2, <1>3

LEMMA AddsHeldBy ==
  ASSUME NEW d, IsDom(d), IsHeap(d.heap), NEW e, IsDom(e), NEW o \in 1 .. Len(d.heap),
         NEW x \in Nat, NEW k, Adds(d, e, o, x, k, Len(d.heap) + 1),
         NEW n, n = Len(d.heap) + 1, Target(d.heap, k)
  PROVE  HeldBy(e, n, o)
<1>. SUFFICES ASSUME NEW m \in 1 .. Len(e.heap), NEW i, NEW j, Points(e.heap, m, i, j, n)
              PROVE  m = o /\ j = 2
  BY DEF HeldBy
<1>1. ~Target(d.heap, n) /\ n \notin 1 .. Len(d.heap)
  BY NotTarget
<1>2. \/ m \in 1 .. Len(d.heap) /\ Points(d.heap, m, i, j, n)
      \/ NewPlace(o, k, n, m, j, n)
  BY AddsPoints
<1>3. ~Points(d.heap, m, i, j, n)
  BY <1>1 DEF Points
<1>4. n # k
  BY <1>1
<1>. QED
  BY <1>2, <1>3, <1>4 DEF NewPlace

LEMMA GuardedMore ==
  ASSUME NEW e, NEW L \in Nat, Guarded(e, L), NEW n, n = e.ctx[L + 1],
         Unheld(e, n) \/ (L >= 1 /\ HeldBy(e, n, e.ctx[L]))
  PROVE  Guarded(e, L + 1)
<1>. SUFFICES ASSUME NEW m \in 1 .. Len(e.heap), NEW i, NEW j, NEW p, Points(e.heap, m, i, j, p),
                     NEW y \in 1 .. L + 1, p = e.ctx[y]
              PROVE  y > 1 /\ m = e.ctx[y - 1] /\ j = 2
  BY DEF Guarded
<1>1. CASE y \in 1 .. L
  BY <1>1 DEF Guarded
<1>2. CASE y = L + 1
  <2>1. L >= 1 /\ HeldBy(e, n, e.ctx[L])
    BY <1>2 DEF Unheld
  <2>2. m = e.ctx[L] /\ j = 2
    BY <1>2, <2>1 DEF HeldBy
  <2>3. y - 1 = L /\ y > 1
    BY <1>2, <2>1
  <2>. QED
    BY <2>2, <2>3
<1>. QED
  BY <1>1, <1>2

(* The container that was created is empty. *)
LEMMA NewContents ==
  ASSUME NEW e, IsDom(e), NEW n \in 1 .. Len(e.heap), e.heap[n].items = <<>>,
         NEW kind \in Kinds, e.heap[n].kind = kind
  PROVE  Contents(e, n) = IF kind = "array" THEN <<>> ELSE Document!NoMembers
<1>1. Len(e.heap[n].items) = 0
  BY EmptyIsSeq
<1>2. CASE kind = "array"
  <2>1. IsSeq(Elems(e, n)) /\ Len(Elems(e, n)) = 0
    BY <1>1, ItemsAre
  <2>2. Elems(e, n) = <<>>
    BY <2>1, SeqFacts
  <2>. QED
    BY <1>2, <2>2 DEF Contents
<1>3. CASE kind # "array"
  <2>. DEFINE f == Pairs(e, n)
  <2>1. IsFn(f)
    BY DEF Pairs, Members, IsFn
  <2>2. DOMAIN e.heap[n].items = {}
    BY <1>1, ItemsAre
  <2>3. DOMAIN f = {}
    BY <2>2 DEF Pairs, Members, KeysOf
  <2>. HIDE DEF f
  <2>4. f = Document!NoMembers
    BY <2>1, <2>3 DEF IsFn, Document!NoMembers
  <2>. QED
    BY <1>3, <2>4 DEF Contents, f
<1>. QED
  BY <1>2, <1>3

(* What is pushed *)
Pushing(d, kind) == [Create(d, kind, NULL) EXCEPT !.ctx = Append(@, NULL)]

JustPushed(d, c, n, kind) ==
  /\ Extends(d, c) /\ IsDom(c) /\ c.ctx = Append(d.ctx, NULL) /\ n \in 1 .. Len(c.heap)
  /\ n = Len(d.heap) + 1 /\ c.heap[n].kind = kind /\ c.heap[n].items = <<>> /\ c.ok = d.ok

LEMMA Pushed ==
  ASSUME NEW d, IsDom(d), NEW kind, NEW n, n = Fresh(d), NEW c, c = Pushing(d, kind)
  PROVE  JustPushed(d, c, n, kind)
<1>. DEFINE b == Create(d, kind, NULL)
            q == Append(d.ctx, NULL)
<1>1. /\ Extends(d, b) /\ b.ctx = d.ctx /\ IsDom(b) /\ n \in 1 .. Len(b.heap)
      /\ n = Len(d.heap) + 1 /\ b.heap[n].kind = kind /\ b.heap[n].items = <<>>
  BY Created DEF Fresh
<1>2. b.ok = d.ok
  BY CreateFacts DEF Around
<1>. HIDE DEF b
<1>3. c = WithCtx(b, q)
  BY <1>1 DEF WithCtx, b, Pushing
<1>4. IsSeq(q) /\ Len(q) = Len(d.ctx) + 1
  BY AppendFacts DEF IsDom
<1>5. q # <<>>
  <2>1. Len(d.ctx) \in Nat
    BY SeqFacts DEF IsDom
  <2>. HIDE DEF q
  <2>. QED
    BY <1>4, <2>1, EmptyIsSeq
<1>. HIDE DEF q
<1>6. IsDom(c) /\ c.heap = b.heap /\ c.ctx = q /\ c.ok = b.ok
  <2>1. IsDom(b)
    BY <1>1
  <2>2. /\ IsDom(WithCtx(b, q)) /\ WithCtx(b, q).heap = b.heap
        /\ WithCtx(b, q).ok = b.ok /\ WithCtx(b, q).ctx = q
    BY <1>4, <1>5, <2>1, WithCtxFacts
  <2>. QED
    BY <1>3, <2>2
<1>. QED
  BY <1>1, <1>2, <1>6 DEF Extends, q, JustPushed

(* A container n is open in e, in the innermost of ns, and empty. *)
NewIn(e, n, kind) ==
  /\ n \in 1 .. Len(e.heap) /\ e.heap[n].kind = kind /\ e.heap[n].items = <<>>

HeldIn(e, n, L) == Unheld(e, n) \/ (L >= 1 /\ HeldBy(e, n, e.ctx[L]))

Pushes(e, more, L, kind) ==
  /\ Own(e, more, FALSE) /\ FrameIn(e, L + 1) = Document!Frame(kind)
  /\ Len(e.ctx) = L + 2

LEMMA StartFrom ==
  ASSUME NEW ns, IsNest(ns), NEW L, L = Len(ns), NEW kind \in Kinds,
         NEW more, more = Append(ns, kind), NEW e, Good(e, more, FALSE, FALSE),
         NEW n, n = e.ctx[L + 1], NewIn(e, n, kind),
         Guarded(e, L), HeldIn(e, n, L), Keyed(e),
         \A i \in 1 .. L : LastOpen(e, i)
  PROVE  Pushes(e, more, L, kind)
<1>1. L \in Nat
  BY SeqFacts DEF IsNest
<1>2. IsNest(more) /\ more # <<>> /\ Len(more) = L + 1
  BY NestAppended, AppendFacts DEF IsNest
<1>3. IsDom(e) /\ IsHeap(e.heap) /\ Len(e.ctx) = L + 2 /\ Here(e) = NULL
  <2>2. IsDom(e) /\ IsHeap(e.heap) /\ Len(e.ctx) = Len(more) + 1 /\ Here(e) = NULL
    BY <1>2, GoodIs
  <2>. QED
    BY <1>1, <1>2, <2>2
<1>4. Guarded(e, L + 1)
  BY <1>1, GuardedMore DEF HeldIn
<1>5. Own(e, more, FALSE)
  <2>1. \A i \in 1 .. Len(more) - 1 : LastOpen(e, i)
    BY <1>1, <1>2
  <2>. QED
    BY <1>2, <1>4, <2>1 DEF Own
<1>6. Contents(e, n) = IF kind = "array" THEN <<>> ELSE Document!NoMembers
  BY <1>3, NewContents DEF NewIn
<1>7. NameIn(e) = NULL
  BY <1>3 DEF NameIn
<1>8. FrameIn(e, L + 1) = FrameOf(kind, Contents(e, n), NameIn(e))
  <2>. DEFINE M == L + 1
  <2>1. M \in Nat /\ Len(e.ctx) = M + 1 /\ n = e.ctx[M]
    BY <1>1, <1>3
  <2>. HIDE DEF M
  <2>2. FrameIn(e, M) = FrameOf(kind, Contents(e, n), NameIn(e))
    BY <1>3, <2>1, TopFrameOf DEF NewIn
  <2>. QED
    BY <2>2 DEF M
<1>. QED
  BY <1>3, <1>5, <1>6, <1>7, <1>8, FrameIs DEF Pushes

(* The new context is pushed, the container joins its parent, and the context
   it was read in borrows it. *)
Borrowing(p, i, n) == [p EXCEPT !.ctx[i] = n]

Borrowed(d, p, e, n) ==
  /\ e.heap = p.heap /\ e.ctx[Len(d.ctx)] = n
  /\ \A y \in 1 .. Len(d.ctx) - 1 : e.ctx[y] = d.ctx[y]

LEMMA Borrows ==
  ASSUME NEW d, IsDom(d), d.ok = TRUE, NEW c, NEW n, NEW kind, JustPushed(d, c, n, kind),
         NEW p, Around(c, p), NEW e, e = IF p.ok THEN Borrowing(p, Len(d.ctx), n) ELSE p
  PROVE  Borrowed(d, p, e, n)
<1>1. IsDom(p) /\ p.ctx = Append(d.ctx, NULL) /\ p.ok = TRUE
  BY DEF Around, JustPushed
<1>2. Len(d.ctx) \in Nat /\ Len(d.ctx) # 0
  BY SeqFacts DEF IsDom
<1>3. Len(p.ctx) = Len(d.ctx) + 1 /\ \A i \in 1 .. Len(d.ctx) : p.ctx[i] = d.ctx[i]
  BY <1>1, AppendFacts DEF IsDom
<1>4. Len(d.ctx) \in 1 .. Len(p.ctx)
  BY <1>2, <1>3
<1>5. /\ e.heap = p.heap /\ e.ctx[Len(d.ctx)] = n
      /\ \A j \in 1 .. Len(p.ctx) : j # Len(d.ctx) => e.ctx[j] = p.ctx[j]
  <2>. DEFINE x == Len(d.ctx)
  <2>1. x \in 1 .. Len(p.ctx) /\ e = [p EXCEPT !.ctx[x] = n] /\ IsDom(p)
    BY <1>1, <1>4 DEF Borrowing
  <2>. HIDE DEF x
  <2>2. /\ e.heap = p.heap /\ e.ctx[x] = n
        /\ \A j \in 1 .. Len(p.ctx) : j # x => e.ctx[j] = p.ctx[j]
    BY ONLY <2>1, CtxReplaced, SMTT(40)
  <2>. QED
    BY <2>2 DEF x
<1>. QED
  BY SMTT(40), <1>1, <1>2, <1>3, <1>5 DEF Borrowed

(* dom_object_start and dom_array_start *)
Opens(d, e, ns, kind) ==
  /\ Own(e, Append(ns, kind), FALSE) /\ FrameIn(e, Len(ns) + 1) = Document!Frame(kind)
  /\ Len(e.ctx) = Len(ns) + 2
  /\ ns # <<>> => /\ SameFrames(d, e, Len(ns))
                  /\ FrameIn(e, Len(ns)) = Document!Opened(FrameIn(d, Len(ns)))

LEMMA StartOutermost ==
  ASSUME NEW d, NEW key, Own(d, <<>>, key), Here(d) = NULL,
         NEW kind \in Kinds, NEW e, e = DomStart(d, kind)
  PROVE  Opens(d, e, <<>>, kind)
<1>. DEFINE n == Fresh(d)
            c == Pushing(d, kind)
<1>1. /\ Good(d, <<>>, key, FALSE) /\ IsNest(<<>>) /\ Len(<<>>) = 0 /\ Keyed(d)
      /\ IsDom(d) /\ IsHeap(d.heap) /\ Len(d.ctx) = 1 /\ d.ok = TRUE
  <2>1. Good(d, <<>>, key, FALSE) /\ Keyed(d)
    BY DEF Own
  <2>2. Len(<<>>) = 0
    BY EmptyIsSeq
  <2>3. IsDom(d) /\ IsHeap(d.heap) /\ Len(d.ctx) = Len(<<>>) + 1 /\ d.ok = TRUE
    BY <2>1 DEF Good, Placed, Mirrors, Kept, Fit
  <2>. QED
    <3>1. IsNest(<<>>)
      BY <2>2, EmptyIsSeq DEF IsNest
    <3>2. Len(d.ctx) = 1
      BY <2>2, <2>3
    <3>. QED
      BY <2>1, <2>2, <2>3, <3>1, <3>2
<1>2. JustPushed(d, c, n, kind)
  BY <1>1, Pushed
<1>3. Good(e, Append(<<>>, kind), FALSE, FALSE)
  BY <1>1, StartGood
<1>4. ~HasPrev(d)
  BY <1>1 DEF HasPrev
<1>5. e = IF c.ok THEN Borrowing(c, Len(d.ctx), n) ELSE c
  BY <1>4 DEF DomStart, Pushing, Borrowing
<1>. HIDE DEF c, n
<1>6. Borrowed(d, c, e, n)
  <2>1. Around(c, c)
    BY <1>2 DEF Around, JustPushed
  <2>. QED
    BY <1>1, <1>2, <1>5, <2>1, Borrows
<1>7. e.heap = c.heap /\ e.ctx[1] = n
  BY <1>1, <1>6 DEF Borrowed
<1>8. IsDom(e) /\ Extends(d, e)
  BY <1>2, <1>3, <1>7, GoodIs DEF Extends, JustPushed
<1>9. Unheld(e, n) /\ Keyed(e)
  BY <1>1, <1>2, <1>8, ExtendsUnheld, ExtendsKeyed DEF JustPushed
<1>10. NewIn(e, n, kind) /\ n = e.ctx[0 + 1]
  BY <1>1, <1>2, <1>7 DEF NewIn, JustPushed
<1>11. Guarded(e, 0) /\ \A i \in 1 .. 0 : LastOpen(e, i)
  BY DEF Guarded
<1>12. /\ Own(e, Append(<<>>, kind), FALSE) /\ FrameIn(e, 0 + 1) = Document!Frame(kind)
       /\ Len(e.ctx) = 0 + 2
  <2>. DEFINE L == 0
              ns == <<>>
              more == Append(<<>>, kind)
  <2>1. /\ IsNest(ns) /\ L = Len(ns) /\ more = Append(ns, kind) /\ Good(e, more, FALSE, FALSE)
        /\ n = e.ctx[L + 1] /\ NewIn(e, n, kind) /\ Guarded(e, L) /\ HeldIn(e, n, L) /\ Keyed(e)
        /\ \A i \in 1 .. L : LastOpen(e, i)
    BY <1>1, <1>3, <1>9, <1>10, <1>11 DEF HeldIn
  <2>. HIDE DEF L, ns, more
  <2>2. Pushes(e, more, L, kind)
    BY <2>1, StartFrom
  <2>. QED
    BY <2>2 DEF L, ns, more, Pushes
<1>. QED
  BY <1>1, <1>12 DEF Opens

(* The frame in which a container opens *)
LEMMA ArrayOpened ==
  ASSUME NEW d, NEW ns, NEW L, NEW o, Found(d, ns, L, o), ns[L] = "array", Here(d) = NULL,
         NEW e, Onward(d, e, L), Len(e.ctx) = L + 2, NEW t,
         Gets(d, e, L, o, Longer(Contents(d, o), t))
  PROVE  FrameIn(e, L) = Document!Opened(FrameIn(d, L))
<1>1. /\ L \in Nat /\ L \in 1 .. L /\ o = d.ctx[L] /\ d.heap[o].kind = "array"
      /\ IsDom(d) /\ o \in 1 .. Len(d.heap)
  BY DEF Found, Base
<1>2. FrameIn(d, L) = FrameOf("array", Contents(d, o), NULL)
  BY TopFrame DEF NameIn
<1>3. IsDom(e) /\ IsHeap(e.heap) /\ e.ctx[L] = o
  BY <1>1 DEF Onward, SameCtx
<1>4. /\ o \in 1 .. Len(e.heap) /\ e.heap[o].kind = "array"
      /\ Contents(e, o) = Longer(Contents(d, o), t)
  BY <1>1 DEF Gets, Holds
<1>5. Elems(e, o) = Longer(Elems(d, o), t)
  BY <1>1, <1>4 DEF Contents
<1>6. IsSeq(Elems(d, o)) /\ Len(Elems(e, o)) = Len(e.heap[o].items)
  BY <1>1, <1>3, <1>4, ItemsAre
<1>7. IsOpen(e, L) /\ L + 1 # Len(e.ctx)
  BY <1>1, <1>3, <1>4 DEF IsOpen, Kinds
<1>8. FrameIn(e, L) = [kind |-> "array", name |-> NULL,
                       members |-> SubSeq(Elems(e, o), 1, Len(e.heap[o].items) - 1)]
  BY <1>3, <1>4, <1>7, OuterArray
<1>9. Shorter(Elems(e, o)) = Elems(d, o)
  BY <1>5, <1>6, ShorterLonger
<1>10. SubSeq(Elems(e, o), 1, Len(e.heap[o].items) - 1) = Elems(d, o)
  BY <1>6, <1>9 DEF Shorter
<1>11. FrameIn(e, L) = FrameOf("array", Contents(d, o), NULL)
  BY <1>1, <1>8, <1>10 DEF FrameOf, Contents
<1>. QED
  BY <1>2, <1>11, OpenedIs

LEMMA ObjectOpened ==
  ASSUME NEW d, NEW ns, NEW L, NEW o, Found(d, ns, L, o), ns[L] = "object", Here(d) # NULL,
         NEW e, Onward(d, e, L), Len(e.ctx) = L + 2, NEW n, n = Len(d.heap) + 1, n = e.ctx[L + 1],
         NEW x \in Nat, Putting(d, e, o, x, Here(d), n), NEW t,
         Gets(d, e, L, o, PutAt(TextAt(d, Here(d)), t, Contents(d, o)))
  PROVE  FrameIn(e, L) = Document!Opened(FrameIn(d, L))
<1>. DEFINE k    == Here(d)
            name == TextAt(d, k)
            old   == d.heap[o].items
            items == e.heap[o].items
<1>0. items = e.heap[o].items
  OBVIOUS
<1>1. /\ L \in Nat /\ L \in 1 .. L /\ o = d.ctx[L] /\ d.heap[o].kind = "object"
      /\ IsDom(d) /\ IsHeap(d.heap) /\ o \in 1 .. Len(d.heap)
  BY DEF Found, Base
<1>2. FrameIn(d, L) = FrameOf("object", Contents(d, o), name)
  BY TopFrame DEF NameIn
<1>3. IsDom(e) /\ IsHeap(e.heap) /\ e.ctx[L] = o
  BY <1>1 DEF Onward, SameCtx
<1>4. /\ o \in 1 .. Len(e.heap) /\ e.heap[o].kind = "object"
      /\ Contents(e, o) = PutAt(name, t, Contents(d, o))
  BY <1>1 DEF Gets, Holds
<1>5. IsOpen(e, L) /\ L + 1 # Len(e.ctx)
  BY <1>1, <1>3, <1>4 DEF IsOpen, Kinds
<1>6. /\ \A i : i \in 1 .. Len(items) <=> i \in 1 .. Len(old) \/ i = x
      /\ \A i \in 1 .. Len(old) : i # x => items[i] = old[i]
      /\ items[x] = <<k, n>> /\ TextAt(e, k) = name
  BY DEF Putting, Adds
<1>7. items[x][1] = k /\ items[x][2] = n
  BY <1>6
<1>8. \A i \in 1 .. Len(old) : old[i][2] # n
  <2>1. \A i \in 1 .. Len(old) : Target(d.heap, old[i][2])
    BY <1>1 DEF IsHeap
  <2>. QED
    BY <1>1, <2>1, NotTarget
<1>. HIDE DEF items, old, k
<1>9. OnlyAt(items, x, e.ctx[L + 1])
  BY <1>6, <1>7, <1>8 DEF OnlyAt
<1>10. KeyOf(e, items, x) = name
  BY <1>6, <1>7 DEF KeyOf
<1>11. FrameIn(e, L) = [kind |-> "object", name |-> KeyOf(e, items, x),
                        members |-> Without(Pairs(e, o), KeyOf(e, items, x))]
  <2>1. OpenItem(e, L, o, items, x)
    BY <1>0, <1>1, <1>3, <1>4, <1>5, <1>9 DEF OpenItem
  <2>. QED
    BY ONLY <2>1, OuterNamed
<1>. HIDE DEF name
<1>12. Pairs(e, o) = PutAt(name, t, Contents(d, o))
  BY <1>4 DEF Contents
<1>13. Without(Pairs(e, o), name) = Without(Contents(d, o), name)
  BY <1>12, WithoutPut
<1>14. FrameIn(e, L) = FrameOf("object", Without(Contents(d, o), name), name)
  BY <1>10, <1>11, <1>13 DEF FrameOf
<1>. QED
  BY <1>2, <1>14, OpenedIs

LEMMA NamelessOpened ==
  ASSUME NEW d, NEW ns, NEW L, NEW o, Found(d, ns, L, o), ns[L] = "object", NameIn(d) = Empty,
         NEW e, Onward(d, e, L), Len(e.ctx) = L + 2, NEW n, n = Len(d.heap) + 1, n = e.ctx[L + 1],
         Extends(d, e), Gets(d, e, L, o, Contents(d, o)), e.heap[o] = d.heap[o]
  PROVE  FrameIn(e, L) = Document!Opened(FrameIn(d, L))
<1>. DEFINE items == e.heap[o].items
<1>1. /\ L \in Nat /\ L \in 1 .. L /\ o = d.ctx[L] /\ d.heap[o].kind = "object"
      /\ IsDom(d) /\ IsHeap(d.heap) /\ o \in 1 .. Len(d.heap) /\ Keyed(d)
  BY DEF Found, Base
<1>2. FrameIn(d, L) = FrameOf("object", Contents(d, o), Empty)
  BY TopFrame
<1>3. IsDom(e) /\ IsHeap(e.heap) /\ e.ctx[L] = o
  BY <1>1 DEF Onward, SameCtx
<1>4. /\ o \in 1 .. Len(e.heap) /\ e.heap[o].kind = "object"
      /\ Contents(e, o) = Contents(d, o)
  BY <1>1 DEF Gets, Holds
<1>5. IsOpen(e, L) /\ L + 1 # Len(e.ctx)
  BY <1>1, <1>3, <1>4 DEF IsOpen, Kinds
<1>6. \A i \in 1 .. Len(items) : items[i][2] # e.ctx[L + 1]
  <2>1. \A i \in 1 .. Len(items) : Target(d.heap, items[i][2])
    BY <1>1 DEF IsHeap
  <2>. HIDE DEF items
  <2>. QED
    BY <1>1, <2>1, NotTarget
<1>. HIDE DEF items
<1>7. FrameIn(e, L) = [kind |-> "object", name |-> Empty, members |-> Pairs(e, o)]
  BY ZenonT(60), <1>1, <1>3, <1>4, <1>5, <1>6, OuterNameless DEF items
<1>. DEFINE m == Contents(d, o)
<1>8. Pairs(e, o) = m
  BY <1>4 DEF Contents
<1>9. Empty \notin DOMAIN m /\ IsFn(m)
  <2>1. m = Pairs(d, o)
    BY <1>1 DEF Contents
  <2>2. Empty \notin KeysOf(d, d.heap[o].items)
    BY SMTT(40), <1>1 DEF KeysOf, Keyed
  <2>. QED
    BY <2>1, <2>2 DEF Pairs, Members, IsFn
<1>. HIDE DEF m
<1>10. Without(m, Empty) = m
  BY <1>9, WithoutNone
<1>11. FrameIn(e, L) = FrameOf("object", m, Empty)
  BY <1>7, <1>8 DEF FrameOf
<1>. QED
  BY <1>2, <1>10, <1>11, OpenedIs DEF m

(* The item that was added to an array is its last one. *)
LEMMA LastAdded ==
  ASSUME NEW d, IsDom(d), NEW e, IsDom(e), NEW o \in 1 .. Len(d.heap), o \in 1 .. Len(e.heap),
         NEW x \in Nat, NEW n, Adds(d, e, o, x, NULL, n), FirstFree(d, o, x),
         NEW L \in Nat, o = e.ctx[L], n = e.ctx[L + 1]
  PROVE  LastOpen(e, L)
<1>. DEFINE old == d.heap[o].items
            new == e.heap[o].items
<1>1. Len(old) \in Nat /\ Len(new) \in Nat
  BY ItemsAre
<1>2. /\ \A i : i \in 1 .. Len(new) <=> i \in 1 .. Len(old) \/ i = x
      /\ new[x] = <<NULL, n>>
  BY DEF Adds
<1>3. x = Len(old) + 1
  BY DEF FirstFree
<1>. HIDE DEF old, new
<1>4. x \in 1 .. Len(new) /\ Len(new) \in 1 .. Len(new)
  BY <1>1, <1>2, <1>3
<1>5. Len(new) = x
  BY SMTT(40), <1>1, <1>2, <1>3, <1>4
<1>6. Len(new) >= 1 /\ new[Len(new)][2] = n
  BY <1>1, <1>2, <1>4, <1>5
<1>. QED
  BY <1>6 DEF LastOpen, new

(* A container n is created in d, as c, and opened in the innermost of ns. *)
Starting(d, ns, L, o, kind, n, c, e) ==
  /\ Found(d, ns, L, o) /\ IsNest(ns) /\ kind \in Kinds
  /\ Good(e, Append(ns, kind), FALSE, FALSE)
  /\ Extends(d, c) /\ IsDom(c) /\ NewIn(c, n, kind) /\ n = Len(d.heap) + 1
  /\ Onward(d, e, L) /\ Len(e.ctx) = L + 2 /\ n = e.ctx[L + 1]

LEMMA StartedOpens ==
  ASSUME NEW d, NEW ns, NEW L, NEW o, NEW kind, NEW n, NEW c, NEW e,
         Starting(d, ns, L, o, kind, n, c, e), Len(e.heap) = Len(c.heap), OnlyIn(c, e, o),
         HeldIn(e, n, L), LastOpen(e, L), NEW m, Gets(d, e, L, o, m),
         FrameIn(e, L) = Document!Opened(FrameIn(d, L))
  PROVE  Opens(d, e, ns, kind)
<1>. DEFINE more == Append(ns, kind)
<1>1. /\ IsNest(ns) /\ L = Len(ns) /\ L \in Nat /\ L >= 1 /\ kind \in Kinds
      /\ Good(e, more, FALSE, FALSE) /\ n = e.ctx[L + 1] /\ NewIn(c, n, kind)
      /\ n = Len(d.heap) + 1 /\ IsDom(d) /\ o \in 1 .. Len(d.heap) /\ Len(e.ctx) = L + 2
  BY DEF Starting, Found, Base
<1>. HIDE DEF more
<1>2. NewIn(e, n, kind)
  <2>1. Len(d.heap) \in Nat
    BY <1>1, Addresses
  <2>2. n # o
    BY <1>1, <2>1
  <2>3. e.heap[n] = c.heap[n]
    BY <1>1, <2>2 DEF OnlyIn, NewIn
  <2>. QED
    BY <1>1, <2>3 DEF NewIn
<1>3. /\ Guarded(e, L) /\ Keyed(e) /\ SameFrames(d, e, L)
      /\ \A i \in 1 .. L - 1 : LastOpen(e, i)
  BY DEF Gets
<1>4. \A i \in 1 .. L : LastOpen(e, i)
  <2>. TAKE i \in 1 .. L
  <2>1. i = L \/ i \in 1 .. L - 1
    BY <1>1
  <2>. QED
    BY <1>3, <2>1
<1>5. more = Append(ns, kind)
  BY DEF more
<1>6. Pushes(e, more, L, kind)
  <2>1. /\ IsNest(ns) /\ L = Len(ns) /\ kind \in Kinds /\ more = Append(ns, kind)
        /\ Good(e, more, FALSE, FALSE) /\ n = e.ctx[L + 1] /\ NewIn(e, n, kind)
        /\ Guarded(e, L) /\ HeldIn(e, n, L) /\ Keyed(e) /\ \A i \in 1 .. L : LastOpen(e, i)
    BY <1>1, <1>2, <1>3, <1>4, <1>5
  <2>. QED
    BY ONLY <2>1, StartFrom
<1>. QED
  BY <1>1, <1>3, <1>5, <1>6 DEF Opens, Pushes

LEMMA StartedInArray ==
  ASSUME NEW d, NEW ns, NEW L, NEW o, NEW kind, NEW n, NEW c, NEW e,
         Starting(d, ns, L, o, kind, n, c, e), ns[L] = "array", Here(d) = NULL,
         NEW p, p = ArrayAppend(c, o, n), e.heap = p.heap
  PROVE  Opens(d, e, ns, kind)
<1>1. /\ Found(d, ns, L, o) /\ IsDom(c) /\ Extends(d, c) /\ Onward(d, e, L)
      /\ n = Len(d.heap) + 1 /\ Len(e.ctx) = L + 2 /\ n = e.ctx[L + 1]
  BY DEF Starting
<1>2. /\ L \in Nat /\ L >= 1 /\ IsDom(d) /\ IsHeap(d.heap) /\ o \in 1 .. Len(d.heap)
      /\ o = d.ctx[L] /\ L \in 1 .. L
  BY <1>1 DEF Found, Base
<1>3. n \notin 1 .. Len(d.heap) /\ Outside(d, L, n)
  BY <1>1, <1>2, NotTarget DEF Found
<1>4. /\ \E x \in Nat : Adds(d, e, o, x, NULL, n) /\ FirstFree(d, o, x)
      /\ Gets(d, e, L, o, Longer(Contents(d, o), Tree(e, n)))
      /\ Len(e.heap) = Len(c.heap) /\ OnlyIn(c, e, o)
  BY <1>1, <1>3, JoinArray
<1>5. PICK x \in Nat : Adds(d, e, o, x, NULL, n) /\ FirstFree(d, o, x)
  BY <1>4
<1>6. IsDom(e) /\ o = e.ctx[L]
  BY <1>1, <1>2 DEF Onward, SameCtx
<1>7. HeldIn(e, n, L)
  <2>1. Target(d.heap, NULL)
    BY DEF Target
  <2>2. HeldBy(e, n, o)
    <3>1. Adds(d, e, o, x, NULL, Len(d.heap) + 1)
      BY <1>1, <1>5
    <3>. QED
      BY <1>1, <1>2, <1>6, <2>1, <3>1, AddsHeldBy
  <2>. QED
    BY <1>2, <1>6, <2>2 DEF HeldIn
<1>8. LastOpen(e, L)
  <2>1. o \in 1 .. Len(e.heap)
    BY <1>4 DEF Gets
  <2>. QED
    BY <1>1, <1>2, <1>5, <1>6, <2>1, LastAdded
<1>. DEFINE t == Tree(e, n)
<1>9. Gets(d, e, L, o, Longer(Contents(d, o), t))
  BY <1>4
<1>. HIDE DEF t
<1>10. FrameIn(e, L) = Document!Opened(FrameIn(d, L))
  BY <1>1, <1>9, ArrayOpened
<1>. QED
  BY <1>4, <1>7, <1>8, <1>9, <1>10, StartedOpens

(* An object is no array. *)
LEMMA LastOpenObject ==
  ASSUME NEW e, NEW L, NEW o, e.ctx[L] = o, e.heap[o].kind # "array"
  PROVE  LastOpen(e, L)
BY DEF LastOpen

LEMMA StartedNamed ==
  ASSUME NEW d, NEW ns, NEW L, NEW o, NEW kind, NEW n, NEW c, NEW e,
         Starting(d, ns, L, o, kind, n, c, e), ns[L] = "object",
         NEW k, k = Here(d), k # NULL, k # Empty, TextAt(d, k) \in Names \ {Empty},
         NEW p, p = ObjectPut(c, o, k, n), e.heap = p.heap
  PROVE  Opens(d, e, ns, kind)
<1>1. /\ Found(d, ns, L, o) /\ IsDom(c) /\ Extends(d, c) /\ Onward(d, e, L)
      /\ n = Len(d.heap) + 1 /\ Len(e.ctx) = L + 2 /\ n = e.ctx[L + 1]
  BY DEF Starting
<1>2. /\ L \in Nat /\ L >= 1 /\ IsDom(d) /\ IsHeap(d.heap) /\ o \in 1 .. Len(d.heap)
      /\ o = d.ctx[L] /\ L \in 1 .. L /\ Target(d.heap, k) /\ d.heap[o].kind = "object"
  BY <1>1 DEF Found, Base
<1>3. n \notin 1 .. Len(d.heap) /\ Outside(d, L, n)
  BY <1>1, <1>2, NotTarget DEF Found
<1>4. /\ \E x \in Nat : Putting(d, e, o, x, k, n)
      /\ Gets(d, e, L, o, PutAt(TextAt(d, k), Tree(e, n), Contents(d, o)))
      /\ Len(e.heap) = Len(c.heap) /\ OnlyIn(c, e, o)
  BY <1>1, <1>3, JoinObject
<1>5. PICK x \in Nat : Putting(d, e, o, x, k, n)
  BY <1>4
<1>6. IsDom(e) /\ o = e.ctx[L]
  BY <1>1, <1>2 DEF Onward, SameCtx
<1>7. HeldIn(e, n, L)
  <2>1. HeldBy(e, n, o)
    <3>1. Adds(d, e, o, x, k, Len(d.heap) + 1)
      BY <1>1, <1>5 DEF Putting
    <3>. QED
      BY <1>1, <1>2, <1>6, <3>1, AddsHeldBy
  <2>. QED
    BY <1>2, <1>6, <2>1 DEF HeldIn
<1>8. LastOpen(e, L)
  <2>1. e.heap[o].kind # "array"
    BY <1>2, <1>4 DEF Gets
  <2>. QED
    BY <1>6, <2>1, LastOpenObject
<1>. DEFINE t == Tree(e, n)
<1>9. Gets(d, e, L, o, PutAt(TextAt(d, Here(d)), t, Contents(d, o)))
  BY <1>4
<1>. HIDE DEF t
<1>10. FrameIn(e, L) = Document!Opened(FrameIn(d, L))
  <2>1. Putting(d, e, o, x, Here(d), n) /\ Here(d) # NULL
    BY <1>5
  <2>. QED
    BY <1>1, <1>9, <2>1, ObjectOpened
<1>. QED
  BY <1>4, <1>7, <1>8, <1>9, <1>10, StartedOpens

LEMMA StartedNameless ==
  ASSUME NEW d, NEW ns, NEW L, NEW o, NEW kind, NEW n, NEW c, NEW e,
         Starting(d, ns, L, o, kind, n, c, e), ns[L] = "object",
         NameIn(d) = Empty, e.heap = c.heap
  PROVE  Opens(d, e, ns, kind)
<1>1. /\ Found(d, ns, L, o) /\ IsDom(c) /\ Extends(d, c) /\ Onward(d, e, L)
      /\ n = Len(d.heap) + 1 /\ Len(e.ctx) = L + 2 /\ n = e.ctx[L + 1]
  BY DEF Starting
<1>2. /\ L \in Nat /\ L >= 1 /\ IsDom(d) /\ IsHeap(d.heap) /\ o \in 1 .. Len(d.heap)
      /\ o = d.ctx[L] /\ L \in 1 .. L /\ d.heap[o].kind = "object"
  BY <1>1 DEF Found, Base
<1>3. Extends(d, e) /\ OnlyIn(c, e, o)
  BY <1>1 DEF Extends, OnlyIn
<1>4. Gets(d, e, L, o, Contents(d, o)) /\ e.heap[o] = d.heap[o]
  BY <1>1, <1>3, NothingGets
<1>5. IsDom(e) /\ o = e.ctx[L]
  BY <1>1, <1>2 DEF Onward, SameCtx
<1>6. HeldIn(e, n, L)
  BY <1>1, <1>2, <1>3, <1>5, ExtendsUnheld DEF HeldIn
<1>7. LastOpen(e, L)
  <2>1. e.heap[o].kind # "array"
    BY <1>2, <1>4
  <2>. QED
    BY <1>5, <2>1, LastOpenObject
<1>8. FrameIn(e, L) = Document!Opened(FrameIn(d, L))
  BY <1>1, <1>3, <1>4, NamelessOpened
<1>. QED
  BY <1>3, <1>4, <1>6, <1>7, <1>8, StartedOpens

LEMMA StartInner ==
  ASSUME NEW d, NEW ns, NEW key, Own(d, ns, key), Ready(ns, key),
         NEW kind \in Kinds, NEW e, e = DomStart(d, kind)
  PROVE  Opens(d, e, ns, kind)
<1>. DEFINE L == Len(ns)
            o == Parent(d)
            n == Fresh(d)
            c == Pushing(d, kind)
            k == Here(d)
<1>1. Found(d, ns, L, o) /\ IsNest(ns) /\ Good(d, ns, key, FALSE) /\ ns # <<>>
  BY OwnFound DEF Own, Ready
<1>2. Good(e, Append(ns, kind), FALSE, FALSE)
  <2>1. ns = <<>> => Here(d) = NULL
    BY <1>1
  <2>. QED
    BY <1>1, <2>1, StartGood
<1>. HIDE DEF L, o, k
<1>3. /\ L \in Nat /\ L \in 1 .. L /\ o = d.ctx[L] /\ d.heap[o].kind = ns[L] /\ ns[L] \in Kinds
      /\ HasPrev(d) /\ Parent(d) = o /\ o \in 1 .. Len(d.heap) /\ IsDom(d) /\ Len(d.ctx) = L + 1
      /\ L = Len(ns) /\ IsHeap(d.heap)
  BY <1>1 DEF Found, L, Base, o
<1>4. /\ d.ok = TRUE /\ ns[L] = (IF key THEN "object" ELSE "array")
      /\ IF key THEN HasKey(d) ELSE k = NULL
  BY <1>1, <1>3 DEF Good, Placed, Mirrors, Ready, k
<1>5. \A any : ParentIs(d, any) <=> ns[L] = any
  BY <1>3, Addresses DEF ParentIs, KindAt
<1>6. JustPushed(d, c, n, kind)
  BY <1>3, Pushed
<1>. DEFINE p == IF key THEN ObjectPut(c, o, k, n) ELSE ArrayAppend(c, o, n)
<1>7. o \in 1 .. Len(c.heap)
  BY SMTT(40), <1>3, <1>6, Addresses DEF Extends, JustPushed
<1>8. e = IF p.ok THEN Borrowing(p, Len(d.ctx), n) ELSE p
  <2>1. CASE key
    BY <1>3, <1>4, <1>5, <2>1 DEF DomStart, k, Pushing, Borrowing
  <2>2. CASE ~key
    BY <1>3, <1>4, <1>5, <2>2 DEF DomStart, k, Pushing, Borrowing
  <2>. QED
    BY <2>1, <2>2
<1>. HIDE DEF c, n
<1>9. Around(c, p)
  <2>1. CASE key
    BY <1>6, <1>7, <2>1, ObjectPutFacts DEF JustPushed
  <2>2. CASE ~key
    BY <1>6, <1>7, <2>2, ArrayAppendFacts DEF JustPushed
  <2>. QED
    BY <2>1, <2>2
<1>10. p = IF key THEN ObjectPut(c, o, k, n) ELSE ArrayAppend(c, o, n)
  OBVIOUS
<1>. HIDE DEF p
<1>11. Borrowed(d, p, e, n)
  <2>1. /\ IsDom(d) /\ d.ok = TRUE /\ JustPushed(d, c, n, kind) /\ Around(c, p)
        /\ e = IF p.ok THEN Borrowing(p, Len(d.ctx), n) ELSE p
    BY <1>3, <1>4, <1>6, <1>8, <1>9
  <2>. QED
    BY ONLY <2>1, Borrows
<1>12. e.heap = p.heap /\ e.ctx[Len(d.ctx)] = n /\ SameCtx(d, e, L)
  BY <1>3, <1>11 DEF SameCtx, Borrowed
<1>13. IsDom(e) /\ IsHeap(e.heap) /\ Len(e.ctx) = L + 2
  <2>. DEFINE more == Append(ns, kind)
  <2>1. Len(more) = L + 1 /\ more = Append(ns, kind)
    BY <1>1, <1>3, AppendFacts DEF IsNest
  <2>. HIDE DEF more
  <2>2. IsDom(e) /\ IsHeap(e.heap) /\ Len(e.ctx) = Len(more) + 1
    BY <1>2, <2>1, GoodIs
  <2>. QED
    BY <1>3, <2>1, <2>2
<1>14. Starting(d, ns, L, o, kind, n, c, e)
  <2>1. NewIn(c, n, kind)
    BY <1>6 DEF NewIn, JustPushed
  <2>2. Onward(d, e, L) /\ n = e.ctx[L + 1]
    BY <1>3, <1>12, <1>13 DEF Onward
  <2>. QED
    BY <1>1, <1>2, <1>3, <1>6, <1>13, <2>1, <2>2 DEF Starting, L, o, JustPushed
<1>15. CASE ~key
  <2>1. ns[L] = "array" /\ Here(d) = NULL /\ p = ArrayAppend(c, o, n) /\ e.heap = p.heap
    BY <1>4, <1>10, <1>12, <1>15 DEF k
  <2>. QED
    BY ONLY <1>14, <2>1, StartedInArray
<1>16. CASE key
  <2>1. /\ ns[L] = "object" /\ k = Here(d) /\ k # NULL /\ p = ObjectPut(c, o, k, n)
        /\ e.heap = p.heap
    BY <1>4, <1>10, <1>12, <1>16 DEF HasKey, k
  <2>2. TextAt(d, k) \in Names /\ (TextAt(d, k) = Empty => k = Empty)
    BY <1>16 DEF Own, k
  <2>3. CASE k = Empty
    <3>1. TextAt(d, k) = Empty
      BY <1>3, <2>3, NoAddress, Addresses DEF TextAt
    <3>2. NameIn(d) = Empty
      BY <2>1, <3>1 DEF NameIn
    <3>3. e.heap = c.heap
      BY <2>1, <2>3 DEF ObjectPut
    <3>. QED
      BY <1>14, <2>1, <3>2, <3>3, StartedNameless
  <2>4. CASE k # Empty
    <3>1. TextAt(d, k) \in Names \ {Empty}
      BY <2>2, <2>4
    <3>. QED
      BY <1>14, <2>1, <2>4, <3>1, StartedNamed
  <2>. QED
    BY <2>3, <2>4
<1>. QED
  BY <1>15, <1>16

LEMMA StartOwn ==
  ASSUME NEW d, NEW ns, NEW key, Own(d, ns, key),
         (ns = <<>> /\ Here(d) = NULL) \/ Ready(ns, key),
         NEW kind \in Kinds, NEW e, e = DomStart(d, kind)
  PROVE  Opens(d, e, ns, kind)
<1>1. CASE Ready(ns, key)
  BY <1>1, StartInner
<1>2. CASE ns = <<>> /\ Here(d) = NULL
  <2>1. Own(d, <<>>, key)
    BY <1>2
  <2>2. Opens(d, e, <<>>, kind)
    BY <1>2, <2>1, StartOutermost
  <2>. QED
    BY <1>2, <2>2
<1>. QED
  BY <1>1, <1>2

(* The values of d are those of e. *)
LEMMA SameHeapAlike ==
  ASSUME NEW d, IsDom(d), IsHeap(d.heap), Keyed(d), NEW e, IsDom(e), e.heap = d.heap
  PROVE  Alike(d, e, 1 .. Len(d.heap)) /\ IsHeap(e.heap) /\ Keyed(e) /\ Extends(d, e)
<1>1. Len(d.heap) \in Nat
  BY Addresses
<1>2. \A n \in 1 .. Len(d.heap) : Pointed(d.heap, n) \subseteq 1 .. Len(d.heap)
  BY PointedLater
<1>3. Alike(d, e, 1 .. Len(d.heap))
  BY <1>1, <1>2, KeyedUnlike DEF Alike
<1>4. Extends(d, e)
  BY <1>1 DEF Extends
<1>. QED
  BY <1>3, <1>4, ExtendsKeyed

LEMMA SameHeap ==
  ASSUME NEW d, IsDom(d), IsHeap(d.heap), Keyed(d), NEW e, IsDom(e), e.heap = d.heap
  PROVE  /\ \A p : Target(d.heap, p) => Tree(e, p) = Tree(d, p)
         /\ \A n \in 1 .. Len(d.heap) : d.heap[n].kind \in Kinds => Contents(e, n) = Contents(d, n)
<1>. DEFINE S == 1 .. Len(d.heap)
<1>1. Alike(d, e, S)
  BY SameHeapAlike
<1>. HIDE DEF S
<1>2. S = 1 .. Len(d.heap)
  BY DEF S
<1>3. ASSUME NEW p, Target(d.heap, p)
      PROVE  Tree(e, p) = Tree(d, p)
  <2>1. Sub(e, Trees(e), p) = Sub(d, Trees(d), p)
    BY <1>1, <1>2, <1>3, SameTree
  <2>. QED
    BY <2>1, TreeIsSub
<1>4. ASSUME NEW n \in 1 .. Len(d.heap), d.heap[n].kind \in Kinds
      PROVE  Contents(e, n) = Contents(d, n)
  <2>1. Tree(e, n) = Tree(d, n)
    BY <1>3 DEF Target
  <2>2. Tree(d, n) = [kind |-> d.heap[n].kind, members |-> Contents(d, n)]
    BY <1>4, TreeOpen
  <2>3. Tree(e, n) = [kind |-> e.heap[n].kind, members |-> Contents(e, n)]
    BY <1>4, TreeOpen
  <2>. QED
    BY <2>1, <2>2, <2>3
<1>. QED
  BY <1>3, <1>4

(* The contexts after the end of a container *)
Popped(d, e, L) ==
  /\ e.heap = d.heap /\ Len(e.ctx) = L
  /\ \A i \in 1 .. L - 1 : e.ctx[i] = d.ctx[i]
  /\ L = 1 => e.ctx[1] = d.ctx[1]
  /\ L # 1 => Here(e) = NULL

LEMMA EndPops ==
  ASSUME NEW d, IsDom(d), NEW L \in Nat, L >= 1, Len(d.ctx) = L + 1, Here(d) = NULL,
         NEW kind, ParentIs(d, kind), NEW e, e = DomEnd(d, kind)
  PROVE  Popped(d, e, L)
<1>. DEFINE q == Front(d.ctx)
            p == [d EXCEPT !.ctx = Front(@)]
<1>1. IsSeq(d.ctx) /\ d.ctx # <<>>
  BY DEF IsDom
<1>2. /\ IsSeq(q) /\ Len(q) = L /\ q # <<>> /\ \A i \in 1 .. L : q[i] = d.ctx[i]
  <2>1. /\ IsSeq(q) /\ Len(q) = Len(d.ctx) - 1
        /\ \A i \in 1 .. Len(d.ctx) - 1 : q[i] = d.ctx[i]
    BY <1>1, FrontFacts
  <2>2. Len(d.ctx) - 1 = L
    OBVIOUS
  <2>. HIDE DEF q
  <2>. QED
    BY <2>1, <2>2, SeqFacts
<1>3. p = WithCtx(d, q)
  BY Zenon DEF WithCtx
<1>4. e = IF HasPrev(p) THEN SetHere(p, NULL) ELSE p
  BY DEF DomEnd
<1>. HIDE DEF q, p
<1>5. IsDom(p) /\ p.heap = d.heap /\ p.ctx = q
  BY ZenonT(60), <1>1, <1>2, <1>3, WithCtxFacts
<1>6. HasPrev(p) <=> L # 1
  BY <1>2, <1>5 DEF HasPrev
<1>7. CASE L = 1
  <2>1. e = p
    BY <1>4, <1>6, <1>7
  <2>2. \A i \in 1 .. L : e.ctx[i] = d.ctx[i]
    BY <1>2, <1>5, <2>1
  <2>. QED
    BY <1>2, <1>5, <1>7, <2>1, <2>2 DEF Popped
<1>8. CASE L # 1
  <2>1. e = SetHere(p, NULL)
    BY <1>4, <1>6, <1>8
  <2>2. /\ e.heap = p.heap /\ Len(e.ctx) = Len(p.ctx)
        /\ \A i \in 1 .. Len(p.ctx) - 1 : e.ctx[i] = p.ctx[i]
        /\ Here(e) = NULL
    BY <1>5, <2>1, SetHereFacts
  <2>3. \A i \in 1 .. L - 1 : e.ctx[i] = d.ctx[i]
    BY SMTT(40), <1>2, <1>5, <2>2
  <2>. QED
    BY <1>2, <1>5, <1>8, <2>2, <2>3 DEF Popped
<1>. QED
  BY <1>7, <1>8

(* The container that ends as a document *)
LEMMA ClosedIs ==
  ASSUME NEW kind, NEW m, NEW name
  PROVE  Document!Closed(FrameOf(kind, m, name)) = [kind |-> kind, members |-> m]
BY DEF Document!Closed, FrameOf

LEMMA ClosedTree ==
  ASSUME NEW d, NEW ns, NEW L, NEW o, Found(d, ns, L, o)
  PROVE  Tree(d, o) = Document!Closed(FrameIn(d, L))
<1>1. /\ IsDom(d) /\ IsHeap(d.heap) /\ o \in 1 .. Len(d.heap) /\ d.heap[o].kind = ns[L]
      /\ ns[L] \in Kinds
  BY DEF Found, Base
<1>2. Tree(d, o) = [kind |-> ns[L], members |-> Contents(d, o)]
  BY <1>1, TreeOpen
<1>3. FrameIn(d, L) = FrameOf(ns[L], Contents(d, o), NameIn(d))
  BY TopFrame
<1>. QED
  BY <1>2, <1>3, ClosedIs

(* The container n is open in c, which is at ctx[M]. *)
Nested(d, M, c, n) ==
  /\ IsDom(d) /\ IsHeap(d.heap) /\ Keyed(d) /\ M \in Nat /\ Len(d.ctx) = M + 2
  /\ c = d.ctx[M] /\ c \in 1 .. Len(d.heap) /\ d.heap[c].kind \in Kinds
  /\ n = d.ctx[M + 1] /\ n \in 1 .. Len(d.heap) /\ Once(d, M) /\ LastOpen(d, M)

LEMMA NestedFacts ==
  ASSUME NEW d, NEW M, NEW c, NEW n, Nested(d, M, c, n)
  PROVE  /\ IsDom(d) /\ IsHeap(d.heap) /\ M \in Nat /\ IsOpen(d, M) /\ M + 1 # Len(d.ctx)
         /\ c = d.ctx[M] /\ c \in 1 .. Len(d.heap) /\ n = d.ctx[M + 1]
         /\ Tree(d, n) = Sub(d, Trees(d), n)
BY TreeIsSub DEF Nested, IsOpen

(* The frame of an array, the value of the container open in it apart *)
LEMMA NestedInArray ==
  ASSUME NEW d, NEW M, NEW c, NEW n, Nested(d, M, c, n), d.heap[c].kind = "array",
         NEW v, v = Tree(d, n)
  PROVE  \E m : FrameIn(d, M) = FrameOf("array", m, NULL) /\ Longer(m, v) = Elems(d, c)
<1>. DEFINE items == d.heap[c].items
            q     == Elems(d, c)
<1>1. /\ IsDom(d) /\ IsHeap(d.heap) /\ M \in Nat /\ IsOpen(d, M) /\ M + 1 # Len(d.ctx)
      /\ c = d.ctx[M] /\ c \in 1 .. Len(d.heap) /\ n = d.ctx[M + 1]
      /\ v = Sub(d, Trees(d), n)
  BY NestedFacts
<1>2. Len(items) >= 1 /\ items[Len(items)][2] = n
  BY <1>1 DEF Nested, LastOpen
<1>3. /\ Len(items) \in Nat /\ IsSeq(q) /\ Len(q) = Len(items)
      /\ \A i \in 1 .. Len(items) : q[i] = Sub(d, Trees(d), items[i][2])
  BY ZenonT(60), <1>1, ItemsAre
<1>4. FrameIn(d, M) = [kind |-> "array", name |-> NULL, members |-> SubSeq(q, 1, Len(items) - 1)]
  BY <1>1, OuterArray
<1>. HIDE DEF q, items
<1>5. FrameIn(d, M) = FrameOf("array", Shorter(q), NULL)
  BY <1>3, <1>4 DEF FrameOf, Shorter
<1>6. q # <<>> /\ v = q[Len(q)]
  <2>1. Len(items) \in 1 .. Len(items) /\ Len(q) # 0
    BY <1>2, <1>3
  <2>2. q[Len(items)] = Sub(d, Trees(d), n)
    BY <1>2, <1>3, <2>1
  <2>. QED
    BY <1>1, <1>3, <2>1, <2>2, SeqFacts
<1>7. Longer(Shorter(q), v) = q
  BY <1>3, <1>6, LongerShorter
<1>. QED
  BY <1>5, <1>7 DEF q

(* ... and of an object *)
LEMMA NestedInObject ==
  ASSUME NEW d, NEW M, NEW c, NEW n, Nested(d, M, c, n), d.heap[c].kind = "object",
         NEW v, v = Tree(d, n)
  PROVE  \E m, k : FrameIn(d, M) = FrameOf("object", m, k)
                   /\ Holding("object", k, m, v) = Pairs(d, c)
<1>. DEFINE items == d.heap[c].items
            f     == Pairs(d, c)
<1>1. /\ IsDom(d) /\ IsHeap(d.heap) /\ M \in Nat /\ IsOpen(d, M) /\ M + 1 # Len(d.ctx)
      /\ c = d.ctx[M] /\ c \in 1 .. Len(d.heap) /\ n = d.ctx[M + 1]
      /\ v = Sub(d, Trees(d), n)
  BY NestedFacts
<1>2. /\ Distinct(d, items) /\ Len(items) \in Nat /\ DOMAIN items = 1 .. Len(items)
      /\ \A i \in DOMAIN items : KeyOf(d, items, i) \in Names \ {Empty}
  BY <1>1, ItemsAre DEF Nested, Keyed
<1>3. CASE \A j \in 1 .. Len(items) : items[j][2] # n
  <2>1. FrameIn(d, M) = [kind |-> "object", name |-> Empty, members |-> f]
    BY <1>1, <1>3, OuterNameless
  <2>2. FrameIn(d, M) = FrameOf("object", f, Empty)
    BY <2>1 DEF FrameOf
  <2>3. Holding("object", Empty, f, v) = f
    BY DEF Holding
  <2>. QED
    BY <2>2, <2>3
<1>4. ASSUME NEW x \in 1 .. Len(items), items[x][2] = n
      PROVE  \E m, k : FrameIn(d, M) = FrameOf("object", m, k) /\ Holding("object", k, m, v) = f
  <2>0. Once(d, M)
    BY DEF Nested
  <2>1. x \in Nat /\ OnlyAt(items, x, n)
    <3>1. \A l \in 1 .. Len(items) : items[l][2] = n => l = x
      BY ZenonT(60), <1>1, <1>4, <2>0 DEF Once
    <3>2. x \in Nat
      BY <1>2, <1>4
    <3>. QED
      BY <1>4, <3>1, <3>2, Zenon DEF OnlyAt
  <2>. DEFINE k == KeyOf(d, items, x)
  <2>2. FrameIn(d, M) = [kind |-> "object", name |-> k, members |-> Without(f, k)]
    <3>1. OpenItem(d, M, c, items, x)
      BY <1>1, <1>4, <2>1 DEF OpenItem
    <3>. QED
      BY <3>1, OuterNamed
  <2>3. f = [m \in DOMAIN f |-> f[m]] /\ k \in DOMAIN f /\ f[k] = v
    <3>1. Distinct(d, d.heap[c].items) /\ IsDom(d) /\ c \in 1 .. Len(d.heap)
      BY <1>1, <1>2
    <3>2. /\ f = [m \in DOMAIN f |-> f[m]]
          /\ \A m : m \in DOMAIN f <=> \E i \in 1 .. Len(items) : m = KeyOf(d, items, i)
          /\ \A i \in 1 .. Len(items) : f[KeyOf(d, items, i)] = Sub(d, Trees(d), items[i][2])
      BY <3>1, PairsAre
    <3>. HIDE DEF f, items
    <3>. QED
      BY <1>1, <1>4, <3>2
  <2>4. k # Empty
    BY <1>2, <1>4
  <2>. HIDE DEF k, f
  <2>5. PutAt(k, f[k], Without(f, k)) = f
    BY <2>3, PutWithout DEF IsFn
  <2>6. Holding("object", k, Without(f, k), v) = f
    BY <2>3, <2>4, <2>5 DEF Holding
  <2>7. FrameIn(d, M) = FrameOf("object", Without(f, k), k)
    BY <2>2 DEF FrameOf
  <2>. QED
    BY <2>6, <2>7
<1>. QED
  BY <1>3, <1>4

(* The container goes to its place when it ends. *)
LEMMA PlacedAround ==
  ASSUME NEW d, NEW M, NEW c, NEW n, Nested(d, M, c, n), NEW v, v = Tree(d, n),
         NEW e, IsDom(e), e.heap = d.heap, Len(e.ctx) = M + 1, e.ctx[M] = c, Here(e) = NULL
  PROVE  FrameIn(e, M) = Document!Placed(FrameIn(d, M), v)
<1>. DEFINE kind == d.heap[c].kind
<1>1. /\ IsDom(d) /\ IsHeap(d.heap) /\ Keyed(d) /\ M \in Nat
      /\ c \in 1 .. Len(d.heap) /\ kind \in Kinds
  BY DEF Nested
<1>2. Contents(e, c) = Contents(d, c)
  BY <1>1, SameHeap
<1>3. NameIn(e) = NULL
  BY DEF NameIn
<1>4. FrameIn(e, M) = FrameOf(kind, Contents(d, c), NULL)
  <2>1. e.ctx[M] = c /\ c \in 1 .. Len(e.heap) /\ e.heap[c].kind = kind /\ IsHeap(e.heap)
    BY <1>1
  <2>. HIDE DEF kind
  <2>2. FrameIn(e, M) = FrameOf(kind, Contents(e, c), NameIn(e))
    BY <1>1, <2>1, TopFrameOf
  <2>. QED
    BY <1>2, <1>3, <2>2
<1>5. CASE kind = "array"
  <2>1. PICK m : FrameIn(d, M) = FrameOf("array", m, NULL) /\ Longer(m, v) = Elems(d, c)
    BY <1>5, NestedInArray
  <2>2. Holding("array", NULL, m, v) = Contents(d, c)
    BY <1>5, <2>1 DEF Holding, Contents
  <2>. QED
    BY <1>4, <1>5, <2>1, <2>2, PlacedIs
<1>6. CASE kind = "object"
  <2>1. PICK m, k : FrameIn(d, M) = FrameOf("object", m, k)
                    /\ Holding("object", k, m, v) = Pairs(d, c)
    BY <1>6, NestedInObject
  <2>2. Holding("object", k, m, v) = Contents(d, c)
    BY <1>6, <2>1 DEF Contents
  <2>. QED
    BY <1>4, <1>6, <2>1, <2>2, PlacedIs
<1>. QED
  BY <1>1, <1>5, <1>6 DEF Kinds

(* What holds of the containers up to L holds of those up to M. *)
LEMMA BaseFewer ==
  ASSUME NEW d, NEW L \in Nat, Base(d, L), NEW M \in Nat, M <= L
  PROVE  Base(d, M)
<1>1. \A y \in 1 .. M : y \in 1 .. L
  OBVIOUS
<1>2. Guarded(d, M)
  BY <1>1 DEF Base, Guarded
<1>3. Apart(d, M)
  BY <1>1 DEF Base, Apart
<1>4. \A i \in 1 .. M - 1 : i \in 1 .. L - 1
  OBVIOUS
<1>. QED
  BY <1>2, <1>3, <1>4 DEF Base

(* dom_object_end and dom_array_end *)
Ends(d, e, ns, L) ==
  /\ Own(e, Front(ns), FALSE) /\ Len(e.ctx) = L
  /\ L = 1 => Tree(e, e.ctx[1]) = Document!Closed(FrameIn(d, 1))
  /\ L # 1 => /\ SameFrames(d, e, L - 1)
              /\ FrameIn(e, L - 1)
                   = Document!Placed(FrameIn(d, L - 1), Document!Closed(FrameIn(d, L)))

LEMMA EndOwn ==
  ASSUME NEW d, NEW ns, Own(d, ns, FALSE), ns # <<>>, NEW kind, ns[Len(ns)] = kind,
         NEW e, e = DomEnd(d, kind)
  PROVE  Ends(d, e, ns, Len(ns))
<1>. DEFINE L == Len(ns)
            o == Parent(d)
            outer == Front(ns)
<1>1. Found(d, ns, L, o) /\ IsNest(ns) /\ Good(d, ns, FALSE, FALSE)
  BY OwnFound DEF Own
<1>2. Good(e, outer, FALSE, FALSE)
  BY <1>1, EndGood
<1>3. IsSeq(outer) /\ Len(outer) = L - 1 /\ \A i \in 1 .. L - 1 : outer[i] = ns[i]
  BY <1>1, FrontFacts DEF IsNest
<1>. HIDE DEF L, o, outer
<1>4. /\ L \in Nat /\ L >= 1 /\ L \in 1 .. L /\ o = d.ctx[L] /\ d.heap[o].kind = ns[L]
      /\ ns[L] \in Kinds /\ o \in 1 .. Len(d.heap) /\ IsDom(d) /\ Len(d.ctx) = L + 1
      /\ L = Len(ns) /\ IsHeap(d.heap) /\ Keyed(d) /\ Base(d, L) /\ Parent(d) = o
  BY <1>1 DEF Found, L, Base, o
<1>5. IsNest(outer)
  BY SMTT(40), <1>1, <1>3, <1>4 DEF IsNest
<1>6. IsDom(e) /\ IsHeap(e.heap)
  BY <1>2, GoodIs
<1>7. Popped(d, e, L)
  <2>1. Here(d) = NULL
    BY <1>1 DEF Good, Placed, Mirrors
  <2>2. ParentIs(d, kind)
    BY <1>4, Addresses DEF ParentIs, KindAt
  <2>. QED
    BY <1>4, <2>1, <2>2, EndPops
<1>8. e.heap = d.heap /\ Len(e.ctx) = L
  BY <1>7 DEF Popped
<1>9. Keyed(e) /\ Extends(d, e)
  BY <1>4, <1>6, <1>8, SameHeapAlike
<1>10. L - 1 \in Nat /\ Base(d, L - 1) /\ SameCtx(d, e, L - 1)
  BY <1>4, <1>7, BaseFewer DEF Popped, SameCtx
<1>11. /\ Guarded(e, L - 1) /\ SameFrames(d, e, L - 1)
       /\ \A i \in 1 .. L - 1 - 1 : LastOpen(e, i)
  <2>. DEFINE M == L - 1
  <2>1. M \in Nat /\ Base(d, M) /\ SameCtx(d, e, M) /\ Len(d.ctx) > M /\ Len(e.ctx) > M
    BY <1>4, <1>8, <1>10
  <2>. HIDE DEF M
  <2>2. Guarded(e, M) /\ SameFrames(d, e, M) /\ \A i \in 1 .. M - 1 : LastOpen(e, i)
    BY <1>6, <1>9, <2>1, ExtendsGuarded, ExtendsOuter
  <2>. QED
    BY <2>2 DEF M
<1>12. Own(e, outer, FALSE)
  <2>1. Guarded(e, Len(outer)) /\ \A i \in 1 .. Len(outer) - 1 : LastOpen(e, i)
    BY <1>3, <1>11
  <2>. QED
    BY <1>2, <1>5, <1>9, <2>1 DEF Own
<1>13. Tree(d, o) = Document!Closed(FrameIn(d, L))
  BY <1>1, ClosedTree
<1>14. ASSUME L = 1
       PROVE  Tree(e, e.ctx[1]) = Document!Closed(FrameIn(d, 1))
  <2>1. e.ctx[1] = o
    BY <1>4, <1>7, <1>14 DEF Popped
  <2>2. Target(d.heap, o)
    BY <1>4 DEF Target
  <2>3. Tree(e, o) = Tree(d, o)
    BY <1>4, <1>6, <1>8, <2>2, SameHeap
  <2>. QED
    BY <1>13, <1>14, <2>1, <2>3
<1>15. ASSUME L # 1
       PROVE  FrameIn(e, L - 1)
                = Document!Placed(FrameIn(d, L - 1), Document!Closed(FrameIn(d, L)))
  <2>. DEFINE M == L - 1
              c == d.ctx[M]
  <2>1. /\ M \in Nat /\ M >= 1 /\ M + 1 = L /\ M \in 1 .. L /\ M \in 1 .. L - 1
        /\ Len(d.ctx) = M + 2 /\ Len(e.ctx) = M + 1
    BY <1>4, <1>8, <1>15
  <2>2. Here(e) = NULL /\ e.ctx[M] = c
    BY <1>7, <1>15, <2>1 DEF Popped
  <2>3. o = d.ctx[M + 1]
    BY <1>4, <2>1
  <2>. HIDE DEF M
  <2>4. c \in 1 .. Len(d.heap) /\ d.heap[c].kind \in Kinds /\ Once(d, M) /\ LastOpen(d, M)
    BY <1>4, <2>1 DEF Base, Apart
  <2>5. Nested(d, M, c, o)
    BY <1>4, <2>1, <2>3, <2>4 DEF Nested
  <2>. DEFINE v == Tree(d, o)
  <2>. HIDE DEF c
  <2>6. FrameIn(e, M) = Document!Placed(FrameIn(d, M), v)
    BY <1>6, <1>8, <2>1, <2>2, <2>5, PlacedAround
  <2>. QED
    BY <1>13, <2>6 DEF M
<1>. QED
  BY <1>8, <1>11, <1>12, <1>14, <1>15 DEF Ends, L, outer

-------------------------------------------------------------------------------
(* From d to x the handlers go on in the containers ns, and the frame of the  *)
(* innermost of them is f in x; the frames around it are as in d.             *)

At(d, x, ns, key, f) == Own(x, ns, key) /\ Turned(d, x, Len(ns), f)

LEMMA AtItself ==
  ASSUME NEW d, NEW ns, NEW key, Own(d, ns, key), ns # <<>>
  PROVE  At(d, d, ns, key, FrameIn(d, Len(ns)))
<1>1. Len(d.ctx) = Len(ns) + 1
  BY OwnFound DEF Found
<1>. QED
  BY <1>1 DEF At, Turned, SameFrames

LEMMA AtThen ==
  ASSUME NEW d, NEW x, NEW ns, NEW key, NEW f, At(d, x, ns, key, f),
         NEW y, NEW then, NEW g, Own(y, ns, then), Turned(x, y, Len(ns), g)
  PROVE  At(d, y, ns, then, g)
BY DEF At, Turned, SameFrames

(* A value and a key, the innermost frame being known *)
LEMMA ValueAt ==
  ASSUME NEW d, NEW x, NEW ns, NEW key, NEW kind, NEW m, NEW name,
         At(d, x, ns, key, FrameOf(kind, m, name)), Ready(ns, key),
         NEW s, NEW y, y = DomScalar(x, s)
  PROVE  At(d, y, ns, FALSE, FrameOf(kind, Holding(kind, name, m, s), NULL))
<1>1. Own(x, ns, key) /\ FrameIn(x, Len(ns)) = FrameOf(kind, m, name)
  BY DEF At, Turned
<1>2. Own(y, ns, FALSE) /\ Turned(x, y, Len(ns), Document!Placed(FrameIn(x, Len(ns)), s))
  BY <1>1, ScalarOwn
<1>3. Turned(x, y, Len(ns), FrameOf(kind, Holding(kind, name, m, s), NULL))
  BY <1>1, <1>2, PlacedIs
<1>. QED
  BY <1>2, <1>3, AtThen

LEMMA KeyAt ==
  ASSUME NEW d, NEW x, NEW ns, NEW m, At(d, x, ns, FALSE, FrameOf("object", m, NULL)),
         ns # <<>>, ns[Len(ns)] = "object", NEW k \in Names, NEW y, y = DomKey(x, k)
  PROVE  At(d, y, ns, TRUE, FrameOf("object", m, k))
<1>1. Own(x, ns, FALSE) /\ FrameIn(x, Len(ns)) = FrameOf("object", m, NULL)
  BY DEF At, Turned
<1>2. Own(y, ns, TRUE) /\ Turned(x, y, Len(ns), Renamed(FrameIn(x, Len(ns)), k))
  BY <1>1, KeyOwn
<1>3. Turned(x, y, Len(ns), FrameOf("object", m, k))
  BY <1>1, <1>2, FrameChanged
<1>. QED
  BY <1>2, <1>3, AtThen

(* A container that opens in d, after a key, and its end *)
LEMMA ContainerEnds ==
  ASSUME NEW d, NEW x, NEW ns, IsNest(ns), NEW m, NEW k,
         At(d, x, ns, TRUE, FrameOf("object", m, k)), Ready(ns, TRUE),
         NEW kind \in Kinds, NEW b, Opens(x, b, ns, kind),
         NEW more, more = Append(ns, kind),
         NEW c, NEW w, At(b, c, more, FALSE, FrameOf(kind, w, NULL)),
         NEW e, e = DomEnd(c, kind), NEW v, v = [kind |-> kind, members |-> w]
  PROVE  At(d, e, ns, FALSE, FrameOf("object", Holding("object", k, Without(m, k), v), NULL))
<1>. DEFINE L == Len(ns)
            M == L + 1
<1>1. L \in Nat /\ L >= 1 /\ ns # <<>>
  BY SeqFacts DEF IsNest, Ready
<1>2. more # <<>> /\ Len(more) = M /\ more[Len(more)] = kind /\ Front(more) = ns
  BY NestAppended, AppendFacts DEF IsNest
<1>3. Own(c, more, FALSE) /\ SameFrames(b, c, M) /\ FrameIn(c, M) = FrameOf(kind, w, NULL)
  BY <1>2 DEF At, Turned
<1>4. Ends(c, e, more, M)
  BY <1>2, <1>3, EndOwn
<1>5. M # 1 /\ M - 1 = L /\ M \in Nat
  BY <1>1
<1>. HIDE DEF M
<1>6. /\ Own(e, ns, FALSE) /\ Len(e.ctx) = M /\ SameFrames(c, e, L)
      /\ FrameIn(e, L) = Document!Placed(FrameIn(c, L), Document!Closed(FrameIn(c, M)))
  BY <1>2, <1>4, <1>5 DEF Ends
<1>7. SameFrames(x, b, L) /\ FrameIn(b, L) = Document!Opened(FrameIn(x, L))
  BY <1>1 DEF Opens
<1>8. FrameIn(c, L) = FrameIn(b, L)
  BY <1>1, <1>3, <1>5 DEF SameFrames
<1>9. SameFrames(x, e, L)
  <2>. SUFFICES ASSUME NEW i \in 1 .. L - 1
                PROVE  FrameIn(e, i) = FrameIn(x, i)
    BY DEF SameFrames
  <2>1. i \in 1 .. M - 1
    BY <1>1, <1>5
  <2>. QED
    BY <1>3, <1>6, <1>7, <2>1 DEF SameFrames
<1>10. FrameIn(x, L) = FrameOf("object", m, k)
  BY DEF At, Turned
<1>11. FrameIn(e, L) = FrameOf("object", Holding("object", k, Without(m, k), v), NULL)
  <2>1. FrameIn(c, L) = FrameOf("object", Without(m, k), k)
    BY <1>7, <1>8, <1>10, OpenedIs
  <2>2. Document!Closed(FrameIn(c, M)) = v
    BY <1>3, ClosedIs
  <2>. QED
    BY <1>6, <2>1, <2>2, PlacedIs
<1>12. Turned(x, e, L, FrameOf("object", Holding("object", k, Without(m, k), v), NULL))
  BY <1>5, <1>6, <1>9, <1>11 DEF Turned, M
<1>. QED
  BY <1>6, <1>12, AtThen

(* The member that replaces another, or the one that has been removed *)
LEMMA PutAgain ==
  ASSUME NEW m, NEW k, NEW v
  PROVE  PutAt(k, v, Without(m, k)) = PutAt(k, v, m)
<1>. DEFINE p == PutAt(k, v, Without(m, k))
            q == PutAt(k, v, m)
            r == Without(m, k)
<1>1. IsPut(p, k, v, r) /\ IsPut(q, k, v, m)
  BY PutAtIs
<1>2. IsFn(r) /\ DOMAIN r = DOMAIN m \ {k} /\ \A n \in DOMAIN m : n # k => r[n] = m[n]
  BY WithoutIs
<1>. HIDE DEF p, q, r
<1>3. DOMAIN p = DOMAIN q /\ \A n \in DOMAIN p : p[n] = q[n]
  BY <1>1, <1>2 DEF IsPut
<1>. QED
  BY <1>1, <1>3, EqualFns DEF IsPut, p, q

-------------------------------------------------------------------------------
(* The injection of defaults, as the document sees it.                        *)

(* Events that each turn the innermost frame of fr into the next *)
LEMMA RunAt ==
  ASSUME NEW d, NEW b, NEW es, Len(es) \in Nat, NEW ns, NEW key, NEW fr,
         At(d, b, ns, key[0], fr[0]),
         \A n \in 1 .. Len(es) : \A x :
           At(d, x, ns, key[n - 1], fr[n - 1]) => At(d, Handle(x, es[n]), ns, key[n], fr[n])
  PROVE  At(d, HandleAll(b, es), ns, key[Len(es)], fr[Len(es)])
<1>1. PICK f : EventSteps(b, es, f, Len(es)) /\ HandleAll(b, es) = f[Len(es)]
  BY EventStepsChosen
<1>2. \A n \in 0 .. Len(es) : f[n] = IF n = 0 THEN b ELSE Handle(f[n - 1], es[n])
  BY <1>1 DEF EventSteps
<1>. DEFINE T == {n \in 0 .. Len(es) : ~At(d, f[n], ns, key[n], fr[n])}
<1>3. CASE T = {}
  BY <1>1, <1>3
<1>4. CASE T # {}
  <2>1. PICK n \in T : \A j \in T : ~(j < n)
    <3>1. T \subseteq Nat
      OBVIOUS
    <3>. HIDE DEF T
    <3>. QED
      BY <1>4, <3>1, LeastOf
  <2>2. n \in 0 .. Len(es) /\ ~At(d, f[n], ns, key[n], fr[n])
    BY <2>1
  <2>3. n # 0
    BY <1>2, <2>2
  <2>4. n \in 1 .. Len(es) /\ n - 1 \in 0 .. Len(es) /\ n - 1 < n
    BY <2>2, <2>3
  <2>5. At(d, f[n - 1], ns, key[n - 1], fr[n - 1])
    BY <2>1, <2>4
  <2>6. f[n] = Handle(f[n - 1], es[n])
    BY <1>2, <2>2, <2>3
  <2>. QED
    BY <2>2, <2>4, <2>5, <2>6
<1>. QED
  BY <1>3, <1>4

(* The first n elements *)
First(q, n) == [i \in 1 .. n |-> q[i]]

LEMMA FirstIs ==
  ASSUME NEW q, IsSeq(q), NEW n \in 0 .. Len(q)
  PROVE  /\ First(q, 0) = <<>>
         /\ n # 0 => Longer(First(q, n - 1), q[n]) = First(q, n)
         /\ First(q, Len(q)) = q
<1>1. Len(q) \in Nat /\ n \in Nat
  BY SeqFacts
<1>2. \A j \in Nat : IsSeq(First(q, j)) /\ Len(First(q, j)) = j
                     /\ \A i \in 1 .. j : First(q, j)[i] = q[i]
  <2>. TAKE j \in Nat
  <2>. DEFINE f == First(q, j)
  <2>1. f = [i \in 1 .. j |-> f[i]] /\ \A i \in 1 .. j : f[i] = q[i]
    BY DEF First
  <2>. HIDE DEF f
  <2>2. IsSeq(f) /\ Len(f) = j
    BY <2>1, ListIsSeq
  <2>. QED
    BY <2>1, <2>2 DEF f
<1>3. First(q, 0) = <<>>
  <2>1. IsSeq(First(q, 0)) /\ Len(First(q, 0)) = 0
    BY <1>2
  <2>. QED
    BY <2>1, SeqFacts
<1>4. First(q, Len(q)) = q
  <2>. DEFINE f == First(q, Len(q))
  <2>1. IsSeq(f) /\ Len(f) = Len(q) /\ \A i \in 1 .. Len(f) : f[i] = q[i]
    BY <1>1, <1>2
  <2>. HIDE DEF f
  <2>2. f = q
    BY <2>1, EqualSeqs
  <2>. QED
    BY <2>2 DEF f
<1>5. ASSUME n # 0
      PROVE  Longer(First(q, n - 1), q[n]) = First(q, n)
  <2>. DEFINE f == First(q, n - 1)
              g == First(q, n)
              l == Longer(f, q[n])
  <2>1. n - 1 \in Nat
    BY <1>1, <1>5
  <2>2. IsSeq(f) /\ Len(f) = n - 1 /\ \A i \in 1 .. n - 1 : f[i] = q[i]
    BY <1>2, <2>1
  <2>3. IsSeq(g) /\ Len(g) = n /\ \A i \in 1 .. n : g[i] = q[i]
    BY <1>1, <1>2
  <2>. HIDE DEF f, g
  <2>4. IsSeq(l) /\ Len(l) = n - 1 + 1 /\ l[n - 1 + 1] = q[n] /\ \A i \in 1 .. n - 1 : l[i] = f[i]
    BY <2>2, AppendFacts DEF Longer
  <2>. HIDE DEF l
  <2>5. n - 1 + 1 = n
    BY <1>1
  <2>6. \A i \in 1 .. Len(l) : l[i] = g[i]
    <3>. TAKE i \in 1 .. Len(l)
    <3>1. i = n \/ i \in 1 .. n - 1
      BY <1>1, <2>4
    <3>. QED
      BY <1>1, <1>5, <2>2, <2>3, <2>4, <2>5, <3>1
  <2>7. l = g
    BY <2>3, <2>4, <2>5, <2>6, EqualSeqs
  <2>. QED
    BY <2>7 DEF l, f, g
<1>. QED
  BY <1>3, <1>4, <1>5

(* The elements of an array *)
LEMMA ElementsAt ==
  ASSUME NEW b, NEW ns, ns # <<>>, ns[Len(ns)] = "array",
         At(b, b, ns, FALSE, FrameOf("array", <<>>, NULL)),
         NEW q, IsSeq(q), NEW es, Len(es) = Len(q),
         \A n \in 1 .. Len(q) : es[n] = Event("value", q[n])
  PROVE  At(b, HandleAll(b, es), ns, FALSE, FrameOf("array", q, NULL))
<1>. DEFINE key == [n \in Nat |-> FALSE]
            fr  == [n \in Nat |-> FrameOf("array", First(q, n), NULL)]
<1>1. Len(q) \in Nat /\ Len(es) \in Nat
  BY SeqFacts
<1>2. Ready(ns, FALSE)
  BY DEF Ready
<1>3. First(q, 0) = <<>> /\ First(q, Len(q)) = q
  <2>1. 0 \in 0 .. Len(q)
    BY <1>1
  <2>. QED
    BY <2>1, FirstIs
<1>4. /\ key[0] = FALSE /\ key[Len(es)] = FALSE
      /\ fr[0] = FrameOf("array", <<>>, NULL) /\ fr[Len(es)] = FrameOf("array", q, NULL)
  BY <1>1, <1>3
<1>5. \A n \in 1 .. Len(es) :
        /\ key[n] = FALSE /\ key[n - 1] = FALSE
        /\ fr[n] = FrameOf("array", First(q, n), NULL)
        /\ fr[n - 1] = FrameOf("array", First(q, n - 1), NULL)
  BY <1>1
<1>. HIDE DEF key, fr
<1>6. ASSUME NEW n \in 1 .. Len(es), NEW x, At(b, x, ns, key[n - 1], fr[n - 1])
      PROVE  At(b, Handle(x, es[n]), ns, key[n], fr[n])
  <2>. DEFINE m == First(q, n - 1)
              y == Handle(x, es[n])
  <2>1. At(b, x, ns, FALSE, FrameOf("array", m, NULL))
    BY <1>5, <1>6
  <2>2. x.ok = TRUE
    BY <2>1 DEF At, Own, Good, Placed
  <2>3. y = DomScalar(x, q[n])
    BY <2>2, HandleIs
  <2>4. Longer(m, q[n]) = First(q, n)
    BY <1>1, FirstIs
  <2>. HIDE DEF m, y
  <2>5. At(b, y, ns, FALSE, FrameOf("array", Holding("array", NULL, m, q[n]), NULL))
    BY <1>2, <2>1, <2>3, ValueAt
  <2>6. Holding("array", NULL, m, q[n]) = First(q, n)
    BY <2>4 DEF Holding
  <2>. QED
    BY <1>5, <2>5, <2>6 DEF y
<1>7. At(b, b, ns, key[0], fr[0])
  BY <1>4
<1>8. At(b, HandleAll(b, es), ns, key[Len(es)], fr[Len(es)])
  BY <1>1, <1>6, <1>7, RunAt
<1>. QED
  BY <1>4, <1>8

(* The members of f whose names come first *)
FirstNames(names, n) == {names[i] : i \in 1 .. n}

Picked(f, names, n) == [m \in FirstNames(names, n) |-> f[m]]

LEMMA PickedIs ==
  ASSUME NEW f, NEW names, NEW n \in Nat, n # 0, NEW k, k = names[n]
  PROVE  PutAt(k, f[k], Picked(f, names, n - 1)) = Picked(f, names, n)
<1>. DEFINE p == PutAt(k, f[k], Picked(f, names, n - 1))
            r == Picked(f, names, n - 1)
            g == Picked(f, names, n)
<1>1. FirstNames(names, n) = {k} \cup FirstNames(names, n - 1)
  <2>1. \A i : i \in 1 .. n <=> i = n \/ i \in 1 .. n - 1
    OBVIOUS
  <2>. QED
    BY <2>1 DEF FirstNames
<1>2. IsPut(p, k, f[k], r)
  BY PutAtIs
<1>3. /\ IsFn(g) /\ DOMAIN g = {k} \cup FirstNames(names, n - 1) /\ g[k] = f[k]
      /\ \A m \in FirstNames(names, n - 1) : g[m] = f[m]
  BY <1>1 DEF Picked, IsFn
<1>4. DOMAIN r = FirstNames(names, n - 1) /\ \A m \in DOMAIN r : r[m] = f[m]
  BY DEF Picked
<1>. HIDE DEF p, r, g
<1>5. IsFn(p) /\ DOMAIN p = DOMAIN g /\ \A m \in DOMAIN p : p[m] = g[m]
  BY <1>2, <1>3, <1>4 DEF IsPut
<1>. QED
  BY <1>3, <1>5, EqualFns DEF p, g

LEMMA PickedEnds ==
  ASSUME NEW f, IsFn(f), NEW names, NEW N \in Nat, DOMAIN f = FirstNames(names, N)
  PROVE  Picked(f, names, 0) = Document!NoMembers /\ Picked(f, names, N) = f
<1>1. FirstNames(names, 0) = {}
  BY DEF FirstNames
<1>2. Picked(f, names, 0) = Document!NoMembers
  BY <1>1 DEF Picked, Document!NoMembers
<1>3. Picked(f, names, N) = f
  BY Zenon DEF Picked, IsFn
<1>. QED
  BY <1>2, <1>3

(* An event is a key or the value for it. *)
LEMMA OddOrEven ==
  ASSUME NEW j \in Nat, j # 0
  PROVE  \/ j % 2 = 1 /\ (j - 1) % 2 = 0 /\ (j - 1) \div 2 = j \div 2
         \/ /\ j % 2 = 0 /\ (j - 1) % 2 = 1 /\ (j - 1) \div 2 = (j \div 2) - 1
            /\ j \div 2 \in Nat /\ j \div 2 # 0
<1>1. \E a \in Nat : j = 2 * a \/ j = 2 * a + 1
  <2>1. j \div 2 \in Nat /\ (j = 2 * (j \div 2) \/ j = 2 * (j \div 2) + 1)
    OBVIOUS
  <2>. QED
    BY <2>1
<1>2. PICK a \in Nat : j = 2 * a \/ j = 2 * a + 1
  BY <1>1
<1>3. CASE j = 2 * a + 1
  BY <1>2, <1>3
<1>4. CASE j = 2 * a
  <2>1. a # 0 /\ j - 1 = 2 * (a - 1) + 1 /\ a - 1 \in Nat
    BY <1>2, <1>4
  <2>2. j % 2 = 0 /\ j \div 2 = a
    BY <1>2, <1>4
  <2>3. (j - 1) % 2 = 1 /\ (j - 1) \div 2 = a - 1
    BY <2>1
  <2>. QED
    BY <2>1, <2>2, <2>3
<1>. QED
  BY <1>2, <1>3, <1>4

(* The members of an object *)
LEMMA MembersAre ==
  ASSUME NEW b, NEW ns, ns # <<>>, ns[Len(ns)] = "object",
         At(b, b, ns, FALSE, FrameOf("object", Document!NoMembers, NULL)),
         NEW f, IsFn(f), NEW names, NEW N \in Nat, DOMAIN f = FirstNames(names, N),
         \A i \in 1 .. N : names[i] \in Names \ {Empty},
         NEW es, Len(es) = 2 * N,
         \A j \in 1 .. 2 * N :
           es[j] = IF j % 2 = 1 THEN Event("key", names[(j + 1) \div 2])
                   ELSE Event("value", f[names[j \div 2]])
  PROVE  At(b, HandleAll(b, es), ns, FALSE, FrameOf("object", f, NULL))
<1>. DEFINE key == [j \in Nat |-> IF j % 2 = 1 THEN TRUE ELSE FALSE]
            fr  == [j \in Nat |->
                      IF j % 2 = 1
                      THEN FrameOf("object", Picked(f, names, j \div 2), names[(j + 1) \div 2])
                      ELSE FrameOf("object", Picked(f, names, j \div 2), NULL)]
<1>1. /\ 2 * N \in Nat /\ (2 * N) % 2 = 0 /\ (2 * N) \div 2 = N
      /\ 0 \in Nat /\ 0 % 2 = 0 /\ 0 \div 2 = 0
  OBVIOUS
<1>2. Picked(f, names, 0) = Document!NoMembers /\ Picked(f, names, N) = f
  BY PickedEnds
<1>3. /\ key[0] = FALSE /\ key[Len(es)] = FALSE
      /\ fr[0] = FrameOf("object", Document!NoMembers, NULL)
      /\ fr[Len(es)] = FrameOf("object", f, NULL)
  BY <1>1, <1>2
<1>4. Ready(ns, TRUE)
  BY DEF Ready
<1>5. ASSUME NEW i \in Nat, i % 2 = 0
      PROVE  key[i] = FALSE /\ fr[i] = FrameOf("object", Picked(f, names, i \div 2), NULL)
  BY <1>5
<1>6. ASSUME NEW i \in Nat, i % 2 = 1
       PROVE  /\ key[i] = TRUE
              /\ fr[i] = FrameOf("object", Picked(f, names, i \div 2), names[(i + 1) \div 2])
  BY <1>6
<1>. HIDE DEF key, fr
<1>7. ASSUME NEW j \in 1 .. Len(es), NEW x, At(b, x, ns, key[j - 1], fr[j - 1])
      PROVE  At(b, Handle(x, es[j]), ns, key[j], fr[j])
  <2>1. j \in Nat /\ j # 0 /\ j - 1 \in Nat /\ j \in 1 .. 2 * N
    BY <1>1
  <2>2. x.ok = TRUE
    BY <1>7 DEF At, Own, Good, Placed
  <2>. DEFINE y == Handle(x, es[j])
  <2>3. CASE j % 2 = 1 /\ (j - 1) % 2 = 0 /\ (j - 1) \div 2 = j \div 2
    <3>. DEFINE k == names[(j + 1) \div 2]
                m == Picked(f, names, j \div 2)
    <3>1. key[j - 1] = FALSE /\ fr[j - 1] = FrameOf("object", m, NULL)
      <4>1. key[j - 1] = FALSE
            /\ fr[j - 1] = FrameOf("object", Picked(f, names, (j - 1) \div 2), NULL)
        BY <1>5, <2>1, <2>3
      <4>. QED
        BY <2>3, <4>1
    <3>2. key[j] = TRUE /\ fr[j] = FrameOf("object", m, k)
      BY <1>6, <2>1, <2>3
    <3>3. es[j] = Event("key", k)
      BY <2>1, <2>3
    <3>4. (j + 1) \div 2 \in 1 .. N
      <4>1. j \in 1 .. 2 * N /\ j % 2 = 1 /\ N \in Nat
        BY <2>1, <2>3
      <4>. QED
        BY ONLY <4>1
    <3>5. k \in Names
      BY <3>4
    <3>. HIDE DEF k, m
    <3>6. y = DomKey(x, k)
      BY <2>2, <3>3, HandleIs
    <3>7. At(b, x, ns, FALSE, FrameOf("object", m, NULL))
      BY <1>7, <3>1
    <3>. HIDE DEF y
    <3>8. At(b, y, ns, TRUE, FrameOf("object", m, k))
      BY <3>5, <3>6, <3>7, KeyAt
    <3>. QED
      BY <3>2, <3>8 DEF y
  <2>4. CASE /\ j % 2 = 0 /\ (j - 1) % 2 = 1 /\ (j - 1) \div 2 = (j \div 2) - 1
             /\ j \div 2 \in Nat /\ j \div 2 # 0
    <3>. DEFINE a == j \div 2
                k == names[a]
                m == Picked(f, names, a - 1)
    <3>1. (j - 1 + 1) \div 2 = a
      BY <2>1
    <3>2. key[j - 1] = TRUE /\ fr[j - 1] = FrameOf("object", m, k)
      <4>1. /\ key[j - 1] = TRUE
            /\ fr[j - 1] = FrameOf("object", Picked(f, names, (j - 1) \div 2), names[(j - 1 + 1) \div 2])
        BY <1>6, <2>1, <2>4
      <4>. QED
        BY <2>4, <3>1, <4>1
    <3>3. key[j] = FALSE /\ fr[j] = FrameOf("object", Picked(f, names, a), NULL)
      BY <1>5, <2>1, <2>4
    <3>4. es[j] = Event("value", f[k])
      BY <2>1, <2>4
    <3>5. a \in 1 .. N /\ a \in Nat /\ a # 0
      BY <2>1, <2>4
    <3>6. k # Empty
      BY <3>5
    <3>. HIDE DEF a
    <3>7. PutAt(k, f[k], m) = Picked(f, names, a)
      BY <3>5, PickedIs
    <3>. HIDE DEF k, m
    <3>8. y = DomScalar(x, f[k])
      BY <2>2, <3>4, HandleIs
    <3>9. At(b, x, ns, TRUE, FrameOf("object", m, k))
      BY <1>7, <3>2
    <3>. HIDE DEF y
    <3>10. At(b, y, ns, FALSE, FrameOf("object", Holding("object", k, m, f[k]), NULL))
      BY <1>4, <3>8, <3>9, ValueAt
    <3>11. Holding("object", k, m, f[k]) = Picked(f, names, a)
      BY <3>6, <3>7 DEF Holding
    <3>. QED
      BY <3>3, <3>10, <3>11 DEF y
  <2>. HIDE DEF y
  <2>. QED
    BY <2>1, <2>3, <2>4, OddOrEven DEF y
<1>8. Len(es) \in Nat
  BY <1>1
<1>9. At(b, b, ns, key[0], fr[0])
  BY <1>3
<1>10. At(b, HandleAll(b, es), ns, key[Len(es)], fr[Len(es)])
  BY <1>7, <1>8, <1>9, RunAt
<1>. QED
  BY <1>3, <1>10

(* SetToSeq lists all the elements. *)
LEMMA ListedAll ==
  ASSUME NEW S, IsFiniteSet(S)
  PROVE  FirstNames(SetToSeq(S), Cardinality(S)) = S
<1>. DEFINE n == Cardinality(S)
            f == SetToSeq(S)
            T == FirstNames(f, n)
<1>1. n \in Nat /\ ExistsBijection(1 .. n, S)
  BY FS_CardinalityType
<1>2. \E g \in [1 .. n -> S] : IsInjective(g)
  BY <1>1 DEF ExistsBijection, Bijection, Injection
<1>3. f \in [1 .. n -> S] /\ IsInjective(f)
  BY <1>1, <1>2 DEF SetToSeq
<1>. HIDE DEF f, n
<1>4. T \subseteq S
  BY <1>3 DEF FirstNames
<1>5. f \in Bijection(1 .. n, T)
  <2>1. f \in [1 .. n -> T]
    BY <1>3 DEF FirstNames
  <2>2. f \in Injection(1 .. n, T)
    BY <1>3, <2>1 DEF Injection, IsInjective
  <2>3. f \in Surjection(1 .. n, T)
    BY <2>1 DEF Surjection, FirstNames
  <2>. QED
    BY <2>2, <2>3 DEF Bijection
<1>6. Cardinality(T) = n
  <2>1. ExistsBijection(1 .. n, T)
    BY <1>5 DEF ExistsBijection
  <2>2. IsFiniteSet(T)
    BY <1>4, FS_Subset
  <2>. HIDE DEF T
  <2>. QED
    BY <1>1, <2>1, <2>2, FS_CountingElements
<1>. HIDE DEF T
<1>. QED
  BY <1>4, <1>6, FS_Subset DEF n, T, f

LEMMA HoldingWithout ==
  ASSUME NEW m, IsFn(m), Empty \notin DOMAIN m, NEW k, NEW v
  PROVE  Holding("object", k, Without(m, k), v) = Holding("object", k, m, v)
<1>1. CASE k = Empty
  BY <1>1, WithoutNone DEF Holding
<1>2. CASE k # Empty
  BY <1>2, PutAgain DEF Holding
<1>. QED
  BY <1>1, <1>2

(* What a default that is a container delivers, and its events *)
LEMMA ArrayDefault ==
  ASSUME NEW v, v \notin Scalars, v \in [kind : {"array"}, members : Seq(Scalars)]
  PROVE  \E q : /\ IsSeq(q) /\ Delivered(v) = [kind |-> "array", members |-> q]
                /\ Len(MemberEvents(v)) = Len(q)
                /\ \A n \in 1 .. Len(q) : MemberEvents(v)[n] = Event("value", q[n])
<1>. DEFINE q  == Reverse(v.members)
            es == [i \in DOMAIN q |-> Event("value", q[i])]
<1>1. /\ v.kind = "array" /\ v.members \in Seq(Scalars)
      /\ v = [kind |-> "array", members |-> v.members]
  OBVIOUS
<1>2. [v EXCEPT !.members = Reverse(@)] = [kind |-> "array", members |-> q]
  BY <1>1
<1>3. Delivered(v) = [kind |-> "array", members |-> q]
  BY <1>1, <1>2 DEF Delivered
<1>4. Delivered(v).members = q
  BY <1>3
<1>5. MemberEvents(v) = es
  BY <1>1, <1>4 DEF MemberEvents, ValueEvents
<1>6. Len(v.members) \in Nat /\ DOMAIN q = 1 .. Len(v.members) /\ q = [i \in 1 .. Len(v.members) |-> q[i]]
  BY <1>1 DEF Reverse
<1>. HIDE DEF q
<1>7. IsSeq(q) /\ Len(q) = Len(v.members)
  BY <1>6, ListIsSeq
<1>8. Len(es) = Len(q) /\ \A n \in 1 .. Len(q) : es[n] = Event("value", q[n])
  BY <1>6, <1>7
<1>. QED
  BY <1>3, <1>5, <1>7, <1>8

LEMMA ObjectDefault ==
  ASSUME NEW v, v \notin Scalars,
         v = [kind |-> "object", members |-> v.members],
         v.members \in [DOMAIN v.members -> Scalars],
         IsFiniteSet(DOMAIN v.members), DOMAIN v.members \subseteq Names \ {Empty}
  PROVE  LET f     == v.members
             N     == Cardinality(DOMAIN f)
             names == SetToSeq(DOMAIN f)
         IN  /\ IsFn(f) /\ N \in Nat /\ DOMAIN f = FirstNames(names, N)
             /\ \A i \in 1 .. N : names[i] \in Names \ {Empty}
             /\ Delivered(v) = [kind |-> "object", members |-> f]
             /\ Len(MemberEvents(v)) = 2 * N
             /\ \A j \in 1 .. 2 * N :
                  MemberEvents(v)[j]
                    = IF j % 2 = 1 THEN Event("key", names[(j + 1) \div 2])
                      ELSE Event("value", f[names[j \div 2]])
<1>. DEFINE f     == v.members
            N     == Cardinality(DOMAIN f)
            names == SetToSeq(DOMAIN f)
            es    == [i \in 1 .. 2 * N |->
                        IF i % 2 = 1 THEN Event("key", names[(i + 1) \div 2])
                        ELSE Event("value", f[names[i \div 2]])]
<1>1. v.kind = "object" /\ v.kind # "array"
  OBVIOUS
<1>2. Delivered(v) = v
  BY <1>1 DEF Delivered
<1>3. MemberEvents(v) = es
  BY <1>1 DEF MemberEvents
<1>4. N \in Nat /\ names \in [1 .. N -> DOMAIN f]
  BY Listed
<1>5. DOMAIN f = FirstNames(names, N)
  BY ListedAll
<1>6. IsFn(f)
  BY DEF IsFn
<1>7. \A i \in 1 .. N : names[i] \in Names \ {Empty}
  BY <1>4
<1>. HIDE DEF N, names
<1>8. 2 * N \in Nat
  BY <1>4
<1>9. /\ Len(es) = 2 * N
      /\ \A j \in 1 .. 2 * N :
           es[j] = IF j % 2 = 1 THEN Event("key", names[(j + 1) \div 2])
                   ELSE Event("value", f[names[j \div 2]])
  BY <1>8
<1>. HIDE DEF es
<1>10. Delivered(v) = [kind |-> "object", members |-> f]
  BY <1>2
<1>. HIDE DEF f
<1>. QED
  BY <1>3, <1>4, <1>5, <1>6, <1>7, <1>9, <1>10 DEF N, names, f

(* A default that is a container goes to the handlers. *)
LEMMA BuiltAt ==
  ASSUME NEW b, NEW ns, ns # <<>>, NEW v, v \notin Scalars, IsDefault(v),
         NEW kind, kind = v.kind, ns[Len(ns)] = kind,
         At(b, b, ns, FALSE, Document!Frame(kind))
  PROVE  \E w : /\ Delivered(v) = [kind |-> kind, members |-> w]
                /\ At(b, HandleAll(b, MemberEvents(v)), ns, FALSE, FrameOf(kind, w, NULL))
<1>. DEFINE es == MemberEvents(v)
<1>1. CASE v \in [kind : {"array"}, members : Seq(Scalars)]
  <2>1. kind = "array"
    BY <1>1
  <2>2. PICK q : /\ IsSeq(q) /\ Delivered(v) = [kind |-> "array", members |-> q]
                 /\ Len(es) = Len(q)
                 /\ \A n \in 1 .. Len(q) : es[n] = Event("value", q[n])
    BY <1>1, ArrayDefault
  <2>. HIDE DEF es
  <2>3. At(b, b, ns, FALSE, FrameOf("array", <<>>, NULL))
    BY <2>1, FrameIs
  <2>4. At(b, HandleAll(b, es), ns, FALSE, FrameOf("array", q, NULL))
    BY <2>1, <2>2, <2>3, ElementsAt
  <2>. QED
    BY <2>1, <2>2, <2>4 DEF es
<1>2. CASE /\ v = [kind |-> "object", members |-> v.members]
           /\ v.members \in [DOMAIN v.members -> Scalars]
           /\ IsFiniteSet(DOMAIN v.members) /\ DOMAIN v.members \subseteq Names \ {Empty}
  <2>. DEFINE f     == v.members
              N     == Cardinality(DOMAIN f)
              names == SetToSeq(DOMAIN f)
  <2>1. kind = "object"
    BY <1>2
  <2>2. /\ IsFn(f) /\ N \in Nat /\ DOMAIN f = FirstNames(names, N)
        /\ \A i \in 1 .. N : names[i] \in Names \ {Empty}
        /\ Delivered(v) = [kind |-> "object", members |-> f]
        /\ Len(es) = 2 * N
        /\ \A j \in 1 .. 2 * N :
             es[j] = IF j % 2 = 1 THEN Event("key", names[(j + 1) \div 2])
                     ELSE Event("value", f[names[j \div 2]])
    BY <1>2, ObjectDefault
  <2>. HIDE DEF es, f, N, names
  <2>3. At(b, b, ns, FALSE, FrameOf("object", Document!NoMembers, NULL))
    BY <2>1, FrameIs
  <2>4. At(b, HandleAll(b, es), ns, FALSE, FrameOf("object", f, NULL))
    BY <2>1, <2>2, <2>3, MembersAre
  <2>. QED
    BY <2>1, <2>2, <2>4 DEF es
<1>. QED
  BY <1>1, <1>2 DEF IsDefault

LEMMA ContainerAt ==
  ASSUME NEW d, NEW x, NEW ns, IsNest(ns), NEW m, IsFn(m), Empty \notin DOMAIN m, NEW k,
         At(d, x, ns, TRUE, FrameOf("object", m, k)), Ready(ns, TRUE),
         NEW v, v \notin Scalars, IsDefault(v), NEW y, y = HandleValue(x, v)
  PROVE  At(d, y, ns, FALSE, FrameOf("object", Holding("object", k, m, Delivered(v)), NULL))
<1>. DEFINE kind == v.kind
            more == Append(ns, kind)
            b    == Handle(x, Event("start", kind))
            c    == HandleAll(b, MemberEvents(v))
<1>1. kind \in Kinds
  BY DEF IsDefault, Kinds
<1>2. y = Handle(c, Event("end", kind))
  BY DEF HandleValue
<1>. HIDE DEF kind
<1>3. Own(x, ns, TRUE) /\ x.ok = TRUE
  BY DEF At, Own, Good, Placed
<1>4. b = DomStart(x, kind)
  BY <1>1, <1>3, HandleIs
<1>5. more # <<>> /\ more[Len(more)] = kind /\ Len(more) = Len(ns) + 1
  BY <1>1, NestAppended, AppendFacts DEF IsNest
<1>. HIDE DEF b
<1>6. Opens(x, b, ns, kind)
  BY <1>1, <1>3, <1>4, StartOwn
<1>7. Own(b, more, FALSE) /\ FrameIn(b, Len(more)) = Document!Frame(kind)
  BY <1>5, <1>6 DEF Opens
<1>8. more = Append(ns, kind)
  OBVIOUS
<1>. HIDE DEF more
<1>9. At(b, b, more, FALSE, Document!Frame(kind))
  BY <1>5, <1>7, AtItself
<1>10. PICK w : /\ Delivered(v) = [kind |-> kind, members |-> w]
                /\ At(b, c, more, FALSE, FrameOf(kind, w, NULL))
  BY <1>5, <1>9, BuiltAt DEF kind
<1>. HIDE DEF c
<1>11. c.ok = TRUE
  BY <1>10 DEF At, Own, Good, Placed
<1>12. y = DomEnd(c, kind)
  BY <1>1, <1>2, <1>11, HandleIs
<1>. DEFINE t == Delivered(v)
<1>13. t = [kind |-> kind, members |-> w]
  BY <1>10
<1>. HIDE DEF t
<1>14. At(d, y, ns, FALSE, FrameOf("object", Holding("object", k, Without(m, k), t), NULL))
  <2>1. /\ IsNest(ns) /\ At(d, x, ns, TRUE, FrameOf("object", m, k)) /\ Ready(ns, TRUE)
        /\ kind \in Kinds /\ Opens(x, b, ns, kind) /\ more = Append(ns, kind)
        /\ At(b, c, more, FALSE, FrameOf(kind, w, NULL)) /\ y = DomEnd(c, kind)
        /\ t = [kind |-> kind, members |-> w]
    BY <1>1, <1>6, <1>8, <1>10, <1>12, <1>13
  <2>. QED
    BY ONLY <2>1, ContainerEnds
<1>. QED
  BY <1>14, HoldingWithout DEF t

(* jsax_parse_inject *)
LEMMA InjectAt ==
  ASSUME NEW d, NEW x, NEW ns, IsNest(ns), ns # <<>>, ns[Len(ns)] = "object",
         NEW m, IsFn(m), Empty \notin DOMAIN m,
         At(d, x, ns, FALSE, FrameOf("object", m, NULL)),
         NEW k \in DOMAIN Defaults, NEW y, y = Inject(x, k)
  PROVE  At(d, y, ns, FALSE,
            FrameOf("object", Holding("object", k, m, Delivered(Defaults[k])), NULL))
<1>. DEFINE c == Handle(x, Event("key", k))
            v == Defaults[k]
<1>1. k \in Names /\ IsDefault(v)
  BY DomConstants
<1>2. y = HandleValue(c, v)
  BY DEF Inject
<1>3. x.ok = TRUE
  BY DEF At, Own, Good, Placed
<1>4. c = DomKey(x, k)
  BY <1>3, HandleIs
<1>. HIDE DEF c, v
<1>5. At(d, c, ns, TRUE, FrameOf("object", m, k))
  BY <1>1, <1>4, KeyAt
<1>6. Ready(ns, TRUE)
  BY DEF Ready
<1>7. CASE v \in Scalars
  <2>1. c.ok = TRUE
    BY <1>5 DEF At, Own, Good, Placed
  <2>2. y = DomScalar(c, v) /\ Delivered(v) = v
    BY <1>2, <1>7, <2>1, HandleIs DEF HandleValue, Delivered
  <2>3. At(d, y, ns, FALSE, FrameOf("object", Holding("object", k, m, v), NULL))
    BY <1>5, <1>6, <2>2, ValueAt
  <2>. QED
    BY <2>2, <2>3 DEF v
<1>8. CASE v \notin Scalars
  <2>1. At(d, y, ns, FALSE, FrameOf("object", Holding("object", k, m, Delivered(v)), NULL))
    BY <1>1, <1>2, <1>5, <1>6, <1>8, ContainerAt
  <2>. QED
    BY <2>1 DEF v
<1>. QED
  BY <1>7, <1>8

(* The members m and the defaults of the names S *)
DefaultsOf(S) == [n \in S |-> Delivered(Defaults[n])]
Completed(S, m) == Document!Joined(DefaultsOf(S), m)

IsCompleted(p, S, m) ==
  /\ IsFn(p) /\ DOMAIN p = S \cup DOMAIN m
  /\ \A n \in S : p[n] = Delivered(Defaults[n])
  /\ \A n \in DOMAIN m : n \notin S => p[n] = m[n]

LEMMA CompletedIs ==
  ASSUME NEW S, NEW m
  PROVE  IsCompleted(Completed(S, m), S, m)
<1>. DEFINE more == DefaultsOf(S)
            p    == Completed(S, m)
<1>1. DOMAIN more = S /\ \A n \in S : more[n] = Delivered(Defaults[n])
  BY DEF DefaultsOf
<1>2. p = [n \in DOMAIN more \cup DOMAIN m |-> IF n \in DOMAIN more THEN more[n] ELSE m[n]]
  BY DEF Completed, Document!Joined
<1>. HIDE DEF more, p
<1>3. DOMAIN p = S \cup DOMAIN m /\ \A n \in DOMAIN p : p[n] = IF n \in S THEN more[n] ELSE m[n]
  BY <1>1, <1>2
<1>4. IsFn(p)
  <2>1. p = [n \in DOMAIN p |-> p[n]]
    BY <1>2
  <2>. QED
    BY <2>1 DEF IsFn
<1>. QED
  BY <1>1, <1>3, <1>4 DEF p, IsCompleted

(* One name more than S *)
OneMore(S, m, k, v) ==
  Holding("object", k, Completed(S \ {Empty}, m), v) = Completed((S \cup {k}) \ {Empty}, m)

LEMMA CompletedMore ==
  ASSUME NEW S, NEW m, IsFn(m), NEW k, NEW v, v = Delivered(Defaults[k])
  PROVE  OneMore(S, m, k, v) /\ Completed({}, m) = m
<1>1. Completed({}, m) = m
  <2>. DEFINE p == Completed({}, m)
  <2>1. IsCompleted(p, {}, m)
    BY CompletedIs
  <2>. HIDE DEF p
  <2>2. IsFn(p) /\ DOMAIN p = DOMAIN m /\ \A n \in DOMAIN p : p[n] = m[n]
    BY <2>1 DEF IsCompleted
  <2>3. p = m
    BY <2>2, EqualFns
  <2>. QED
    BY <2>3 DEF p
<1>2. CASE k = Empty
  <2>1. (S \cup {k}) \ {Empty} = S \ {Empty}
    BY <1>2
  <2>. QED
    BY <1>1, <1>2, <2>1 DEF Holding, OneMore
<1>3. CASE k # Empty
  <2>. DEFINE R == S \ {Empty}
              r == Completed(R, m)
              p == PutAt(k, v, r)
              q == Completed(R \cup {k}, m)
  <2>1. (S \cup {k}) \ {Empty} = R \cup {k}
    BY <1>3
  <2>2. IsPut(p, k, v, r)
    BY PutAtIs
  <2>3. IsCompleted(r, R, m)
    BY CompletedIs
  <2>4. IsCompleted(q, R \cup {k}, m)
    BY CompletedIs
  <2>. HIDE DEF R, r, p, q
  <2>5. IsFn(p) /\ DOMAIN p = DOMAIN q /\ \A n \in DOMAIN p : p[n] = q[n]
    BY <2>2, <2>3, <2>4 DEF IsPut, IsCompleted
  <2>6. p = q
    BY <2>4, <2>5, EqualFns DEF IsCompleted
  <2>. QED
    BY <1>1, <1>3, <2>1, <2>6 DEF Holding, OneMore, p, q, r, R
<1>. QED
  BY <1>2, <1>3

(* The members of the innermost container, an object *)
ObjectTop(d, L, m) ==
  /\ FrameIn(d, L) = FrameOf("object", m, NULL)
  /\ IsFn(m) /\ Empty \notin DOMAIN m /\ Missing(d) \cap DOMAIN m = {}

LEMMA ObjectTopIs ==
  ASSUME NEW d, NEW ns, Own(d, ns, FALSE), ns # <<>>, ns[Len(ns)] = "object"
  PROVE  \E m : ObjectTop(d, Len(ns), m)
<1>. DEFINE L == Len(ns)
            o == Parent(d)
            m == Pairs(d, o)
            items == d.heap[o].items
<1>1. Found(d, ns, L, o)
  BY OwnFound
<1>2. Here(d) = NULL
  BY DEF Own, Good, Placed, Mirrors
<1>. HIDE DEF L, o
<1>3. /\ IsDom(d) /\ o \in 1 .. Len(d.heap) /\ d.heap[o].kind = "object" /\ Keyed(d)
      /\ o = Parent(d) /\ L = Len(ns)
  BY <1>1 DEF Found, Base, L, o
<1>4. FrameIn(d, L) = FrameOf("object", m, NULL)
  <2>1. FrameIn(d, L) = FrameOf(ns[L], Contents(d, o), NameIn(d))
    BY <1>1, TopFrame
  <2>. QED
    BY <1>2, <1>3, <2>1 DEF Contents, NameIn
<1>5. /\ Distinct(d, items) /\ DOMAIN items = 1 .. Len(items)
      /\ \A i \in DOMAIN items : KeyOf(d, items, i) \in Names \ {Empty}
  BY <1>3, ItemsAre DEF Keyed
<1>6. IsFn(m) /\ DOMAIN m = KeysOf(d, items)
  BY DEF Pairs, Members, IsFn
<1>7. Empty \notin DOMAIN m
  BY <1>5, <1>6 DEF KeysOf
<1>8. Missing(d) \cap DOMAIN m = {}
  BY <1>3, <1>6 DEF Missing, KeysOf, KeyOf
<1>. QED
  BY <1>3, <1>4, <1>6, <1>7, <1>8 DEF ObjectTop

LEMMA InjectAllAt ==
  ASSUME NEW d, NEW ns, IsNest(ns), Own(d, ns, FALSE), ns # <<>>, ns[Len(ns)] = "object",
         NEW m, ObjectTop(d, Len(ns), m), NEW ks, Len(ks) \in Nat,
         \A i \in 1 .. Len(ks) : ks[i] \in DOMAIN Defaults
  PROVE  At(d, InjectAll(d, ks), ns, FALSE,
            FrameOf("object", Completed(FirstNames(ks, Len(ks)) \ {Empty}, m), NULL))
<1>. DEFINE mem(n) == Completed(FirstNames(ks, n) \ {Empty}, m)
            fr(n)  == FrameOf("object", mem(n), NULL)
<1>1. PICK f : InjectionSteps(d, ks, f, Len(ks)) /\ InjectAll(d, ks) = f[Len(ks)]
  BY InjectionStepsChosen
<1>2. \A n \in 0 .. Len(ks) : f[n] = IF n = 0 THEN d ELSE Inject(f[n - 1], ks[n])
  BY <1>1 DEF InjectionSteps
<1>3. IsFn(m) /\ Empty \notin DOMAIN m /\ FrameIn(d, Len(ns)) = FrameOf("object", m, NULL)
  BY DEF ObjectTop
<1>4. \A n \in Nat : IsFn(mem(n)) /\ Empty \notin DOMAIN mem(n)
  <2>. TAKE n \in Nat
  <2>. DEFINE S == FirstNames(ks, n) \ {Empty}
              p == Completed(S, m)
  <2>1. IsCompleted(p, S, m)
    BY CompletedIs
  <2>2. Empty \notin S
    OBVIOUS
  <2>. HIDE DEF S, p
  <2>3. IsFn(p) /\ Empty \notin DOMAIN p
    BY <1>3, <2>1, <2>2 DEF IsCompleted
  <2>. QED
    BY <2>3 DEF S, p
<1>5. mem(0) = m
  <2>1. FirstNames(ks, 0) \ {Empty} = {}
    BY DEF FirstNames
  <2>2. Completed({}, m) = m
    BY <1>3, CompletedMore
  <2>. QED
    BY <2>1, <2>2
<1>6. ASSUME NEW n \in 1 .. Len(ks)
      PROVE  Holding("object", ks[n], mem(n - 1), Delivered(Defaults[ks[n]])) = mem(n)
  <2>. DEFINE S == FirstNames(ks, n - 1)
              k == ks[n]
              v == Delivered(Defaults[k])
  <2>1. FirstNames(ks, n) = S \cup {k}
    <3>1. \A i : i \in 1 .. n <=> i = n \/ i \in 1 .. n - 1
      OBVIOUS
    <3>. QED
      BY <3>1 DEF FirstNames
  <2>3. v = Delivered(Defaults[k])
    OBVIOUS
  <2>. HIDE DEF S, k, v
  <2>2. OneMore(S, m, k, v)
    BY <1>3, <2>3, CompletedMore
  <2>. QED
    BY <2>1, <2>2 DEF OneMore, S, k, v
<1>7. At(d, d, ns, FALSE, fr(0))
  BY <1>3, <1>5, AtItself
<1>. HIDE DEF mem
<1>8. ASSUME NEW n \in 1 .. Len(ks), NEW x, At(d, x, ns, FALSE, fr(n - 1))
      PROVE  At(d, Inject(x, ks[n]), ns, FALSE, fr(n))
  <2>. DEFINE k == ks[n]
              w == mem(n - 1)
              y == Inject(x, k)
              v == Delivered(Defaults[k])
  <2>1. IsFn(w) /\ Empty \notin DOMAIN w
    <3>1. n - 1 \in Nat
      OBVIOUS
    <3>. QED
      BY <1>4, <3>1
  <2>2. k \in DOMAIN Defaults
    OBVIOUS
  <2>3. Holding("object", k, w, v) = mem(n)
    BY <1>6
  <2>4. At(d, x, ns, FALSE, FrameOf("object", w, NULL))
    BY <1>8
  <2>. HIDE DEF k, w, y
  <2>5. At(d, y, ns, FALSE, FrameOf("object", Holding("object", k, w, v), NULL))
    BY <2>1, <2>2, <2>4, InjectAt DEF y
  <2>. QED
    BY <2>3, <2>5 DEF y, k
<1>. DEFINE reached(n) == At(d, f[n], ns, FALSE, fr(n))
            T == {n \in 0 .. Len(ks) : ~reached(n)}
<1>. HIDE DEF fr, reached
<1>9. CASE T = {}
  <2>1. reached(Len(ks))
    BY <1>9
  <2>. QED
    BY <1>1, <2>1 DEF reached, fr, mem
<1>10. CASE T # {}
  <2>1. PICK n \in T : \A j \in T : ~(j < n)
    <3>1. T \subseteq Nat
      OBVIOUS
    <3>. HIDE DEF T
    <3>. QED
      BY <1>10, <3>1, LeastOf
  <2>2. n \in 0 .. Len(ks) /\ ~reached(n)
    BY <2>1
  <2>3. n # 0
    BY <1>2, <1>7, <2>2 DEF reached
  <2>4. n \in 1 .. Len(ks) /\ n - 1 \in 0 .. Len(ks) /\ n - 1 < n
    BY <2>2, <2>3
  <2>5. reached(n - 1)
    BY <2>1, <2>4
  <2>6. f[n] = Inject(f[n - 1], ks[n])
    BY <1>2, <2>2, <2>3
  <2>7. reached(n)
    BY <1>8, <2>4, <2>5, <2>6 DEF reached
  <2>. QED
    BY <2>2, <2>7
<1>. QED
  BY <1>9, <1>10

-------------------------------------------------------------------------------
(* What the handlers have built, as the document sees it: the frames of the   *)
(* open containers, and the document when none is open.                       *)

(* Frames depend on the values and the contexts alone. *)
LEMMA SameDocument ==
  ASSUME NEW d, NEW e, e.heap = d.heap, e.ctx = d.ctx
  PROVE  FramesOf(e) = FramesOf(d) /\ DocOf(e) = DocOf(d)
<1>1. Trees(e) = Trees(d)
  BY DEF Trees, TextAt
<1>2. ASSUME NEW i
      PROVE  FrameIn(e, i) = FrameIn(d, i)
  BY <1>1 DEF FrameIn, Tree, TextAt
<1>3. FramesOf(e) = FramesOf(d)
  BY <1>2 DEF FramesOf
<1>4. DocOf(e) = DocOf(d)
  BY <1>1 DEF DocOf, Tree
<1>. QED
  BY <1>3, <1>4

LEMMA FramesAre ==
  ASSUME NEW d, NEW L \in Nat, Len(d.ctx) = L + 1
  PROVE  /\ IsSeq(FramesOf(d)) /\ Len(FramesOf(d)) = L
         /\ \A i \in 1 .. L : FramesOf(d)[i] = FrameIn(d, i)
<1>. DEFINE f == FramesOf(d)
<1>1. f = [i \in 1 .. L |-> FrameIn(d, i)]
  BY DEF FramesOf
<1>. HIDE DEF f
<1>2. f = [i \in 1 .. L |-> f[i]]
  BY <1>1
<1>3. IsSeq(f) /\ Len(f) = L
  BY <1>2, ListIsSeq
<1>4. \A i \in 1 .. L : f[i] = FrameIn(d, i)
  BY <1>1
<1>. QED
  BY <1>3, <1>4 DEF f

LEMMA LongerIs ==
  ASSUME NEW q, IsSeq(q), NEW v, NEW r, r = Longer(q, v)
  PROVE  /\ IsSeq(r) /\ Len(r) = Len(q) + 1 /\ Len(q) \in Nat
         /\ \A i \in 1 .. Len(q) : r[i] = q[i]
         /\ r[Len(q) + 1] = v
BY AppendFacts, SeqFacts DEF Longer

(* The innermost frame turns into another. *)
LEMMA TopTurned ==
  ASSUME NEW d, NEW e, NEW L \in Nat, L >= 1, Len(d.ctx) = L + 1, NEW f, Turned(d, e, L, f),
         NEW fr, fr = FramesOf(d)
  PROVE  /\ FramesOf(e) = Longer(Shorter(fr), f)
         /\ fr # <<>> /\ fr[Len(fr)] = FrameIn(d, L) /\ Len(fr) = L
<1>. DEFINE s == Shorter(fr)
            r == Longer(s, f)
            g == FramesOf(e)
<1>1. /\ IsSeq(fr) /\ Len(fr) = L /\ \A i \in 1 .. L : fr[i] = FrameIn(d, i)
  BY FramesAre
<1>2. /\ IsSeq(g) /\ Len(g) = L /\ \A i \in 1 .. L : g[i] = FrameIn(e, i)
  BY FramesAre DEF Turned
<1>3. FrameIn(e, L) = f /\ \A i \in 1 .. L - 1 : FrameIn(e, i) = FrameIn(d, i)
  BY DEF Turned, SameFrames
<1>4. fr # <<>>
  BY <1>1, SeqFacts
<1>5. IsSeq(s) /\ Len(s) = L - 1 /\ \A i \in 1 .. L - 1 : s[i] = fr[i]
  BY <1>1, <1>4, ShorterIs
<1>. HIDE DEF s
<1>6. /\ IsSeq(r) /\ Len(r) = L - 1 + 1 /\ r[L - 1 + 1] = f
      /\ \A i \in 1 .. L - 1 : r[i] = s[i]
  BY <1>5, LongerIs
<1>. HIDE DEF r, g
<1>7. \A i \in 1 .. Len(g) : g[i] = r[i]
  <2>. SUFFICES ASSUME NEW i \in 1 .. L PROVE g[i] = r[i]
    BY <1>2
  <2>1. CASE i = L
    BY <1>2, <1>3, <1>6, <2>1
  <2>2. CASE i # L
    <3>1. i \in 1 .. L - 1
      BY <2>2
    <3>. QED
      BY <1>1, <1>2, <1>3, <1>5, <1>6, <3>1
  <2>. QED
    BY <2>1, <2>2
<1>8. g = r
  BY <1>2, <1>6, <1>7, EqualSeqs
<1>9. fr[Len(fr)] = FrameIn(d, L)
  BY <1>1
<1>. QED
  BY <1>1, <1>4, <1>8, <1>9 DEF g, r, s

LEMMA OneLonger ==
  ASSUME NEW v, NEW r, r = Longer(<<>>, v)
  PROVE  IsSeq(r) /\ Len(r) = 1 /\ r[1] = v
<1>1. Append(<<>>, v) = <<v>>
  OBVIOUS
<1>2. r = <<v>>
  BY <1>1 DEF Longer
<1>. QED
  BY <1>2, OneIsSeq

(* A container opens: outermost, or in the innermost frame. *)
LEMMA FramesOpened ==
  ASSUME NEW d, NEW ns, IsNest(ns), NEW L, L = Len(ns), Len(d.ctx) = L + 1,
         NEW kind, NEW e, Opens(d, e, ns, kind), NEW fr, fr = FramesOf(d)
  PROVE  /\ ns = <<>> => FramesOf(e) = Longer(<<>>, Document!Frame(kind))
         /\ ns # <<>> => FramesOf(e) = Longer(Longer(Shorter(fr), Document!Opened(FrameIn(d, L))),
                                              Document!Frame(kind))
<1>. DEFINE g == FramesOf(e)
            new == Document!Frame(kind)
            old == Document!Opened(FrameIn(d, L))
<1>1. L \in Nat /\ (ns = <<>> <=> L = 0)
  BY SeqFacts DEF IsNest
<1>2. /\ IsSeq(fr) /\ Len(fr) = L /\ \A i \in 1 .. L : fr[i] = FrameIn(d, i)
  BY <1>1, FramesAre
<1>3. Len(e.ctx) = L + 1 + 1 /\ FrameIn(e, L + 1) = new
  BY <1>1 DEF Opens
<1>4. /\ IsSeq(g) /\ Len(g) = L + 1 /\ \A i \in 1 .. L + 1 : g[i] = FrameIn(e, i)
  <2>1. L + 1 \in Nat /\ Len(e.ctx) = (L + 1) + 1
    BY <1>1, <1>3
  <2>. QED
    BY ONLY <2>1, FramesAre
<1>. HIDE DEF g
<1>5. CASE ns = <<>>
  <2>. DEFINE r == Longer(<<>>, new)
  <2>0. r = Longer(<<>>, new)
    OBVIOUS
  <2>. HIDE DEF r, new
  <2>1. IsSeq(r) /\ Len(r) = 1 /\ r[1] = new
    BY <2>0, OneLonger
  <2>2. \A i \in 1 .. Len(g) : g[i] = r[i]
    BY <1>1, <1>3, <1>4, <1>5, <2>1
  <2>3. g = r
    BY <1>1, <1>4, <1>5, <2>1, <2>2, EqualSeqs
  <2>. QED
    BY <1>5, <2>3 DEF g, r, new
<1>6. CASE ns # <<>>
  <2>. DEFINE s == Shorter(fr)
              t == Longer(s, old)
              r == Longer(t, new)
  <2>1. FrameIn(e, L) = old /\ \A i \in 1 .. L - 1 : FrameIn(e, i) = FrameIn(d, i)
    BY <1>6 DEF Opens, SameFrames
  <2>2. L >= 1 /\ fr # <<>>
    BY <1>1, <1>2, <1>6, SeqFacts
  <2>3. IsSeq(s) /\ Len(s) = L - 1 /\ \A i \in 1 .. L - 1 : s[i] = fr[i]
    BY <1>2, <2>2, ShorterIs
  <2>. HIDE DEF s, old, new
  <2>4. /\ IsSeq(t) /\ Len(t) = L - 1 + 1 /\ t[L - 1 + 1] = old
        /\ \A i \in 1 .. L - 1 : t[i] = s[i]
    BY <2>3, LongerIs
  <2>5. Len(t) = L
    BY <1>1, <2>4
  <2>. HIDE DEF t
  <2>6. /\ IsSeq(r) /\ Len(r) = L + 1 /\ r[L + 1] = new
        /\ \A i \in 1 .. L : r[i] = t[i]
    BY <2>4, <2>5, LongerIs
  <2>. HIDE DEF r
  <2>7. \A i \in 1 .. Len(g) : g[i] = r[i]
    <3>. SUFFICES ASSUME NEW i \in 1 .. L + 1 PROVE g[i] = r[i]
      BY <1>4
    <3>1. CASE i = L + 1
      BY <1>3, <1>4, <2>6, <3>1
    <3>2. CASE i = L
      BY <1>1, <1>4, <2>1, <2>2, <2>4, <2>6, <3>2
    <3>3. CASE i \notin {L, L + 1}
      <4>1. i \in 1 .. L - 1 /\ i \in 1 .. L
        BY <1>1, <3>3
      <4>. QED
        BY <1>2, <1>4, <2>1, <2>3, <2>4, <2>6, <4>1
    <3>. QED
      BY <3>1, <3>2, <3>3
  <2>8. g = r
    BY <1>4, <2>6, <2>7, EqualSeqs
  <2>. QED
    BY <1>6, <2>8 DEF g, r, t, s, old, new
<1>. QED
  BY <1>5, <1>6

(* A container ends: it is the document, or takes its place in its parent. *)
LEMMA FramesEnded ==
  ASSUME NEW d, NEW ns, NEW L \in Nat, L >= 1, Len(d.ctx) = L + 1,
         NEW e, Ends(d, e, ns, L), NEW fr, fr = FramesOf(d), NEW out, out = Shorter(fr),
         NEW v, v = Document!Closed(FrameIn(d, L))
  PROVE  /\ L = 1 => FramesOf(e) = <<>> /\ DocOf(e) = v
         /\ L # 1 => /\ FramesOf(e) = Longer(Shorter(out), Document!Placed(out[Len(out)], v))
                     /\ DocOf(e) = DocOf(d)
<1>. DEFINE g == FramesOf(e)
<1>1. /\ IsSeq(fr) /\ Len(fr) = L /\ \A i \in 1 .. L : fr[i] = FrameIn(d, i)
  BY FramesAre
<1>2. fr # <<>>
  BY <1>1, SeqFacts
<1>3. IsSeq(out) /\ Len(out) = L - 1 /\ \A i \in 1 .. L - 1 : out[i] = fr[i]
  BY <1>1, <1>2, ShorterIs
<1>4. Len(e.ctx) = L - 1 + 1 /\ L - 1 \in Nat
  BY DEF Ends
<1>5. /\ IsSeq(g) /\ Len(g) = L - 1 /\ \A i \in 1 .. L - 1 : g[i] = FrameIn(e, i)
  BY <1>4, FramesAre
<1>. HIDE DEF g
<1>6. CASE L = 1
  <2>1. g = <<>>
    BY <1>5, <1>6, SeqFacts
  <2>2. DocOf(e) = v
    BY <1>4, <1>6 DEF Ends, DocOf
  <2>. QED
    BY <1>6, <2>1, <2>2 DEF g
<1>7. CASE L # 1
  <2>. DEFINE s == Shorter(out)
              f == Document!Placed(FrameIn(d, L - 1), v)
              r == Longer(s, f)
  <2>1. FrameIn(e, L - 1) = f /\ \A i \in 1 .. L - 1 - 1 : FrameIn(e, i) = FrameIn(d, i)
    BY <1>7 DEF Ends, SameFrames
  <2>2. out # <<>>
    BY <1>3, <1>7, SeqFacts
  <2>3. IsSeq(s) /\ Len(s) = L - 1 - 1 /\ \A i \in 1 .. L - 1 - 1 : s[i] = out[i]
    BY <1>3, <2>2, ShorterIs
  <2>. HIDE DEF s, f
  <2>4. /\ IsSeq(r) /\ Len(r) = L - 1 - 1 + 1 /\ r[L - 1 - 1 + 1] = f
        /\ \A i \in 1 .. L - 1 - 1 : r[i] = s[i]
    BY <2>3, LongerIs
  <2>. HIDE DEF r
  <2>5. \A i \in 1 .. Len(g) : g[i] = r[i]
    <3>. SUFFICES ASSUME NEW i \in 1 .. L - 1 PROVE g[i] = r[i]
      BY <1>5
    <3>1. CASE i = L - 1
      BY <1>5, <2>1, <2>4, <3>1
    <3>2. CASE i # L - 1
      <4>1. i \in 1 .. L - 1 - 1 /\ i \in 1 .. L
        BY <3>2
      <4>. QED
        BY <1>1, <1>3, <1>5, <2>1, <2>3, <2>4, <3>2, <4>1
    <3>. QED
      BY <3>1, <3>2
  <2>6. g = r
    BY SMTT(40), <1>4, <1>5, <2>4, <2>5, EqualSeqs
  <2>7. out[Len(out)] = FrameIn(d, L - 1)
    BY <1>1, <1>3, <1>7
  <2>8. DocOf(e) = NULL /\ DocOf(d) = NULL
    <3>1. Len(e.ctx) > 1 /\ Len(d.ctx) > 1
      BY <1>4, <1>7
    <3>. QED
      BY <3>1 DEF DocOf
  <2>. QED
    BY <1>7, <2>6, <2>7, <2>8 DEF g, r, s, f
<1>. QED
  BY <1>6, <1>7

-------------------------------------------------------------------------------
(* The parse and the reader of documents.                                     *)

(* While the text is read, what the handlers have built is a document in the
   making; where the parse stops, it delivers nothing or a whole document. *)
Following ==
  /\ read \in Nat
  /\ phase = "parsing" => Own(dom, nest, keyed) /\ (read = 0 => dom = Blank)
  /\ phase = "stopped" => Unbalanced \/ ParsedOK \/ dom.ctx[1] = NULL

LEMMA OwnIs ==
  ASSUME NEW d, NEW ns, NEW key, Own(d, ns, key)
  PROVE  /\ IsNest(ns) /\ Len(ns) \in Nat /\ (ns = <<>> <=> Len(ns) = 0)
         /\ IsDom(d) /\ d.ok = TRUE /\ Len(d.ctx) = Len(ns) + 1
BY SeqFacts DEF Own, Good, Placed, Mirrors, IsNest

LEMMA BlankOwn == Own(Blank, <<>>, FALSE) /\ Blank.ctx[1] = NULL /\ Here(Blank) = NULL
<1>1. IsNest(<<>>) /\ Good(Blank, <<>>, FALSE, FALSE)
  BY BlankGood
<1>2. Len(<<>>) = 0 /\ Len(<<NULL>>) = 1 /\ <<NULL>>[1] = NULL
  BY EmptyIsSeq, OneIsSeq
<1>3. Blank.heap = <<>> /\ Blank.ctx = <<NULL>>
  BY DEF Blank
<1>4. Guarded(Blank, 0) /\ Keyed(Blank)
  BY <1>2, <1>3 DEF Guarded, Keyed
<1>5. Own(Blank, <<>>, FALSE)
  <2>1. /\ Guarded(Blank, Len(<<>>))
        /\ \A i \in 1 .. Len(<<>>) - 1 : LastOpen(Blank, i)
    BY <1>2, <1>4
  <2>. QED
    BY <1>1, <1>4, <2>1, Zenon DEF Own
<1>. QED
  BY <1>2, <1>3, <1>5 DEF Here

(* The event leaves the handlers where h is, or the parse stops. *)
Leaves(d, h) ==
  /\ phase = "parsing" /\ phase' \in {"parsing", "stopped"}
  /\ result = NULL /\ result' = NULL
  /\ dom' = Refuse(d) \/ dom' = h

LEMMA BounceFollows ==
  ASSUME IInv, Following, NEW op, NEW arg, Reading(op, arg),
         NEW d, NEW passes \in BOOLEAN, Bounce(op, arg, d, passes),
         IsDom(d), Len(d.ctx) = Len(nest) + 1,
         nest = <<>> => d = Blank,
         NEW h, h = Handle(d, Event(op, arg)),
         (nest = <<>> /\ h = Refuse(Blank)) \/ Own(h, nest', keyed')
  PROVE  Following' /\ Leaves(d, h)
<1>1. /\ phase = "parsing" /\ Going /\ result' = result /\ read' = read + 1 /\ read \in Nat
  BY DEF IInv, Reading, Following
<1>2. result = NULL /\ IsNest(nest) /\ status = "none"
  BY <1>1 DEF Going
<1>3. /\ IF dom'.ok THEN phase' = phase /\ status' = status
         ELSE phase' = "stopped" /\ status' = "canceled"
      /\ dom' = IF passes \/ "m_schema" \in handles THEN h ELSE Refuse(d)
  BY DEF Bounce
<1>4. Len(nest) \in Nat /\ (nest = <<>> <=> Len(nest) = 0)
  BY <1>2, SeqFacts DEF IsNest
<1>5. read' \in Nat /\ read' # 0
  BY <1>1
<1>6. dom' = Refuse(d) \/ dom' = h
  BY <1>3
<1>7. phase' \in {"parsing", "stopped"}
  BY <1>1, <1>3
<1>8. Leaves(d, h)
  BY <1>1, <1>2, <1>6, <1>7 DEF Leaves
<1>9. CASE dom' = Refuse(d)
  <2>1. dom'.ok = FALSE /\ dom'.ctx = d.ctx
    BY <1>9, RefuseFacts DEF Refuse
  <2>2. phase' = "stopped"
    BY <1>3, <2>1
  <2>3. nest = <<>> => dom'.ctx[1] = NULL
    BY <2>1, BlankOwn
  <2>4. nest # <<>> => Unbalanced'
    BY <1>4, <2>1 DEF Unbalanced
  <2>. QED
    BY <1>5, <1>8, <2>2, <2>3, <2>4 DEF Following
<1>10. CASE dom' = h /\ nest = <<>> /\ h = Refuse(Blank)
  <2>1. dom'.ok = FALSE /\ dom'.ctx = Blank.ctx
    BY <1>10 DEF Refuse, Blank
  <2>2. phase' = "stopped"
    BY <1>3, <2>1
  <2>3. dom'.ctx[1] = NULL
    BY <2>1, BlankOwn
  <2>. QED
    BY <1>5, <1>8, <2>2, <2>3 DEF Following
<1>11. CASE dom' = h /\ Own(h, nest', keyed')
  <2>1. dom'.ok = TRUE
    BY <1>11, OwnIs
  <2>2. phase' = "parsing"
    BY <1>1, <1>3, <2>1
  <2>. QED
    BY <1>5, <1>8, <1>11, <2>2 DEF Following
<1>. QED
  BY <1>6, <1>9, <1>10, <1>11

LEMMA NullTree ==
  ASSUME NEW d, IsDom(d)
  PROVE  Tree(d, NULL) = NULL
<1>1. DOMAIN d.heap = 1 .. Len(d.heap)
  BY Addresses
<1>. QED
  BY <1>1, NoAddress DEF Tree

(* What the document sees of an event: nothing, or what h shows of it. *)
Shows(d, h) ==
  /\ phase # "done" /\ phase' # "done"
  /\ FramesNow = FramesOf(dom) /\ DocNow = DocOf(dom)
  /\ AnswerNow' = AnswerNow
  /\ \/ FramesNow' = FramesOf(d) /\ DocNow' = DocOf(d)
     \/ FramesNow' = FramesOf(h) /\ DocNow' = DocOf(h)

LEMMA LeavesShows ==
  ASSUME NEW d, IsDom(d), NEW h, Leaves(d, h), IsDom(dom), IsDom(dom')
  PROVE  Shows(d, h)
<1>1. phase # "done" /\ phase' # "done" /\ result = NULL /\ result' = NULL
  BY DEF Leaves
<1>2. FramesNow = FramesOf(dom) /\ DocNow = DocOf(dom)
  BY <1>1 DEF FramesNow, DocNow
<1>3. FramesNow' = FramesOf(dom') /\ DocNow' = DocOf(dom')
  BY <1>1 DEF FramesNow, DocNow
<1>4. AnswerNow = NULL /\ AnswerNow' = NULL
  BY <1>1, NullTree DEF AnswerNow
<1>5. CASE dom' = h
  BY <1>1, <1>2, <1>3, <1>4, <1>5 DEF Shows
<1>6. CASE dom' = Refuse(d)
  <2>. DEFINE e == Refuse(d)
  <2>1. e.heap = d.heap /\ e.ctx = d.ctx
    BY RefuseFacts DEF Refuse
  <2>. HIDE DEF e
  <2>2. FramesOf(e) = FramesOf(d) /\ DocOf(e) = DocOf(d)
    BY <2>1, SameDocument
  <2>3. FramesNow' = FramesOf(d) /\ DocNow' = DocOf(d)
    BY <1>3, <1>6, <2>2 DEF e
  <2>. QED
    BY <1>1, <1>2, <1>3, <1>4, <2>3 DEF Shows
<1>. QED
  BY <1>5, <1>6 DEF Leaves

LEMMA InvariantDom ==
  ASSUME IInv
  PROVE  IsDom(dom)
BY DEF IInv, Handed, Settled, Fit

(* The innermost frame, and the name that waits in it *)
LEMMA TopIs ==
  ASSUME NEW d, NEW ns, NEW key \in BOOLEAN, Own(d, ns, key), ns # <<>>,
         NEW L, L = Len(ns), NEW fr, fr = FramesOf(d)
  PROVE  /\ L \in Nat /\ L >= 1 /\ Len(d.ctx) = L + 1 /\ Len(fr) = L /\ fr # <<>>
         /\ fr[L] = FrameIn(d, L) /\ fr[L].kind = ns[L] /\ ns[L] \in Kinds
         /\ IF key THEN fr[L].name \in Names /\ fr[L].name # NULL ELSE fr[L].name = NULL
<1>. DEFINE o == Parent(d)
            f == FrameIn(d, L)
<1>1. /\ L \in Nat /\ L >= 1 /\ Len(d.ctx) = L + 1
  <2>1. Own(d, ns, key)
    OBVIOUS
  <2>2. Len(ns) \in Nat /\ (ns = <<>> <=> Len(ns) = 0) /\ Len(d.ctx) = Len(ns) + 1
    BY ONLY <2>1, OwnIs
  <2>. QED
    BY <2>2
<1>2. IsSeq(fr) /\ Len(fr) = L /\ \A i \in 1 .. L : fr[i] = FrameIn(d, i)
  BY <1>1, FramesAre
<1>3. fr # <<>> /\ fr[L] = f
  BY <1>1, <1>2, SeqFacts
<1>4. Found(d, ns, L, o)
  BY OwnFound
<1>. HIDE DEF o
<1>5. f = FrameOf(ns[L], Contents(d, o), NameIn(d))
  BY <1>4, TopFrame
<1>6. f.kind = ns[L] /\ f.name = NameIn(d)
  BY <1>5, FrameFields
<1>7. ns[L] \in Kinds
  BY <1>4 DEF Found
<1>. HIDE DEF f
<1>8. CASE key = TRUE
  <2>1. HasKey(d) /\ TextAt(d, Here(d)) \in Names
    BY <1>8 DEF Own, Good, Placed, Mirrors
  <2>2. NameIn(d) \in Names /\ NameIn(d) # NULL
    BY <2>1, DomConstants DEF HasKey, NameIn
  <2>. QED
    BY <1>1, <1>2, <1>3, <1>6, <1>7, <1>8, <2>2 DEF f
<1>9. CASE key = FALSE
  <2>1. Here(d) = NULL
    BY <1>9 DEF Own, Good, Placed, Mirrors
  <2>2. NameIn(d) = NULL
    BY <2>1 DEF NameIn
  <2>. QED
    BY <1>1, <1>2, <1>3, <1>6, <1>7, <1>9, <2>2 DEF f
<1>. QED
  BY <1>8, <1>9

(* The document sees nothing of a step, or its frames become fr. *)
Still == /\ phase # "done" /\ phase' # "done"
         /\ FramesNow' = FramesNow /\ DocNow' = DocNow /\ AnswerNow' = AnswerNow

Becomes(fr) ==
  /\ phase # "done" /\ phase' # "done"
  /\ FramesNow' = fr /\ DocNow' = DocNow /\ AnswerNow' = AnswerNow

InnerNow == FramesNow[Len(FramesNow)]

LEMMA ShownStill ==
  ASSUME NEW h, Shows(dom, h)
  PROVE  \/ Still
         \/ Shows(dom, h) /\ FramesNow' = FramesOf(h) /\ DocNow' = DocOf(h)
BY DEF Shows, Still

LEMMA AskFailedStill ==
  ASSUME Following, NEW op, NEW arg, Reading(op, arg), AskFailed
  PROVE  Following' /\ Still
<1>1. /\ phase = "parsing" /\ phase' = "undefined" /\ dom' = dom /\ result' = result
      /\ read \in Nat /\ read' = read + 1
  BY DEF Reading, AskFailed, Following
<1>2. Following'
  BY <1>1 DEF Following
<1>3. Still
  BY <1>1 DEF Still, FramesNow, DocNow, AnswerNow
<1>. QED
  BY <1>2, <1>3

(* The innermost frame, in the containers of the text *)
LEMMA InnerIs ==
  ASSUME FramesNow = FramesOf(dom), Own(dom, nest, keyed), keyed \in BOOLEAN, nest # <<>>,
         NEW L, L = Len(nest)
  PROVE  /\ L \in Nat /\ L >= 1 /\ Len(dom.ctx) = L + 1
         /\ FramesNow # <<>> /\ Len(FramesNow) = L
         /\ InnerNow = FrameIn(dom, L) /\ InnerNow.kind = nest[L] /\ nest[L] \in Kinds
         /\ IF keyed THEN InnerNow.name # NULL ELSE InnerNow.name = NULL
<1>. DEFINE fr == FramesOf(dom)
<1>1. fr = FramesOf(dom) /\ FramesNow = fr
  OBVIOUS
<1>. HIDE DEF fr
<1>2. /\ L \in Nat /\ L >= 1 /\ Len(dom.ctx) = L + 1 /\ Len(fr) = L /\ fr # <<>>
      /\ fr[L] = FrameIn(dom, L) /\ fr[L].kind = nest[L] /\ nest[L] \in Kinds
      /\ IF keyed THEN fr[L].name \in Names /\ fr[L].name # NULL ELSE fr[L].name = NULL
  BY <1>1, TopIs
<1>. QED
  BY <1>1, <1>2 DEF InnerNow

LEMMA TurnedBecomes ==
  ASSUME Own(dom, nest, keyed), keyed \in BOOLEAN, nest # <<>>,
         NEW h, Shows(dom, h), NEW g, Turned(dom, h, Len(nest), g)
  PROVE  Still \/ Becomes(Longer(Shorter(FramesNow), g))
<1>. DEFINE L  == Len(nest)
            fr == FramesOf(dom)
<1>1. L = Len(nest) /\ fr = FramesOf(dom) /\ FramesNow = fr /\ Turned(dom, h, L, g)
  BY DEF Shows
<1>. HIDE DEF L, fr
<1>2. L \in Nat /\ L >= 1 /\ Len(dom.ctx) = L + 1
  BY <1>1, InnerIs
<1>3. FramesOf(h) = Longer(Shorter(fr), g)
  BY ZenonT(60), <1>1, <1>2, TopTurned
<1>4. Len(h.ctx) > 1 /\ Len(dom.ctx) > 1
  BY <1>1, <1>2 DEF Turned
<1>5. CASE FramesNow' = FramesOf(h) /\ DocNow' = DocOf(h)
  BY <1>1, <1>3, <1>4, <1>5 DEF Shows, Becomes, DocOf
<1>6. CASE FramesNow' = FramesOf(dom) /\ DocNow' = DocOf(dom)
  BY <1>6 DEF Shows, Still
<1>. QED
  BY <1>5, <1>6 DEF Shows

LEMMA ScalarFollows ==
  ASSUME IInv, IInv', Following, NEW s, ReadScalar(s)
  PROVE  /\ Following'
         /\ \/ Still
            \/ /\ Becomes(Longer(Shorter(FramesNow), Document!Placed(InnerNow, s)))
               /\ FramesNow # <<>> /\ (InnerNow.kind = "object" => InnerNow.name # NULL)
<1>1. Reading("value", s)
  BY DEF ReadScalar
<1>2. CASE AskFailed
  BY <1>1, <1>2, AskFailedStill
<1>3. ASSUME NEW passes \in BOOLEAN, Bounce("value", s, dom, passes)
      PROVE  /\ Following'
             /\ \/ Still
                \/ /\ Becomes(Longer(Shorter(FramesNow), Document!Placed(InnerNow, s)))
                   /\ FramesNow # <<>> /\ (InnerNow.kind = "object" => InnerNow.name # NULL)
  <2>. DEFINE h == Handle(dom, Event("value", s))
              L == Len(nest)
  <2>1. Going /\ Legal("value", s) /\ ~whole /\ Own(dom, nest, keyed)
    BY <1>1 DEF Reading, Legal, IInv, Following
  <2>2. nest' = nest /\ keyed' = FALSE /\ keyed \in BOOLEAN /\ (nest = <<>> => dom = Blank)
    BY <1>1, <2>1 DEF Reading, Advance, Going
  <2>3. dom.ok = TRUE /\ IsDom(dom) /\ Len(dom.ctx) = Len(nest) + 1 /\ IsNest(nest)
    BY <2>1, OwnIs
  <2>4. h = DomScalar(dom, s)
    BY <2>3, HandleIs
  <2>5. IsDom(dom')
    BY DEF IInv, Handed, Settled, Fit
  <2>6. CASE nest = <<>>
    <3>1. h = Refuse(Blank) /\ h.heap = dom.heap /\ h.ctx = dom.ctx
      <4>1. dom = Blank /\ ~HasPrev(Blank)
        BY <2>2, <2>6 DEF Blank, HasPrev
      <4>2. h = Refuse(Blank)
        BY <2>4, <4>1 DEF DomScalar
      <4>. QED
        BY <4>1, <4>2 DEF Refuse, Blank
    <3>. HIDE DEF h
    <3>2. Following' /\ Leaves(dom, h)
      BY <1>1, <1>3, <2>2, <2>3, <2>6, <3>1, BounceFollows DEF h
    <3>3. Shows(dom, h)
      BY <2>3, <2>5, <3>2, LeavesShows
    <3>4. FramesOf(h) = FramesOf(dom) /\ DocOf(h) = DocOf(dom)
      BY <3>1, SameDocument
    <3>5. Still
      BY <3>3, <3>4 DEF Shows, Still
    <3>. QED
      BY <3>2, <3>5
  <2>7. CASE nest # <<>>
    <3>1. Ready(nest, keyed)
      BY <2>1, <2>7, ValueReady
    <3>. HIDE DEF h, L
    <3>2. /\ Own(h, nest, FALSE)
          /\ Turned(dom, h, Len(nest), Document!Placed(FrameIn(dom, Len(nest)), s))
      BY <2>1, <2>4, <3>1, ScalarOwn
    <3>3. Own(h, nest', keyed')
      BY <2>2, <3>2
    <3>4. Following' /\ Leaves(dom, h)
      BY <1>1, <1>3, <2>3, <2>7, <3>3, BounceFollows DEF h
    <3>5. Shows(dom, h)
      BY <2>3, <2>5, <3>4, LeavesShows
    <3>6. Still \/ Becomes(Longer(Shorter(FramesNow), Document!Placed(FrameIn(dom, L), s)))
      BY <2>1, <2>2, <2>7, <3>2, <3>5, TurnedBecomes DEF L
    <3>7. L = Len(nest) /\ FramesNow = FramesOf(dom)
      BY <3>5 DEF Shows, L
    <3>8. /\ FramesNow # <<>> /\ InnerNow = FrameIn(dom, L) /\ InnerNow.kind = nest[L]
          /\ IF keyed THEN InnerNow.name # NULL ELSE InnerNow.name = NULL
      BY <2>1, <2>2, <2>7, <3>7, InnerIs
    <3>9. InnerNow.kind = "object" => InnerNow.name # NULL
      <4>1. nest[L] = IF keyed THEN "object" ELSE "array"
        BY <3>1, <3>7 DEF Ready
      <4>. QED
        BY <3>8, <4>1
    <3>. QED
      BY <3>4, <3>6, <3>8, <3>9
  <2>. QED
    BY <2>6, <2>7
<1>. QED
  BY <1>2, <1>3 DEF ReadScalar

LEMMA KeyFollows ==
  ASSUME IInv, IInv', Following, NEW k \in Names, ReadKey(k)
  PROVE  /\ Following'
         /\ \/ Still
            \/ /\ Becomes(Longer(Shorter(FramesNow), Renamed(InnerNow, k)))
               /\ FramesNow # <<>> /\ InnerNow.kind = "object" /\ InnerNow.name = NULL
<1>1. Reading("key", k)
  BY DEF ReadKey
<1>2. CASE AskFailed
  BY <1>1, <1>2, AskFailedStill
<1>3. ASSUME NEW passes \in BOOLEAN, Bounce("key", k, dom, passes)
      PROVE  /\ Following'
             /\ \/ Still
                \/ /\ Becomes(Longer(Shorter(FramesNow), Renamed(InnerNow, k)))
                   /\ FramesNow # <<>> /\ InnerNow.kind = "object" /\ InnerNow.name = NULL
  <2>. DEFINE h == Handle(dom, Event("key", k))
              L == Len(nest)
  <2>1. Going /\ ~keyed /\ nest # <<>> /\ nest[Len(nest)] = "object" /\ Own(dom, nest, keyed)
    BY <1>1 DEF Reading, Legal, IInv, Following
  <2>2. nest' = nest /\ keyed' = TRUE /\ keyed = FALSE
    BY <1>1, <2>1 DEF Reading, Advance, Going
  <2>3. dom.ok = TRUE /\ IsDom(dom) /\ Len(dom.ctx) = Len(nest) + 1 /\ IsNest(nest)
    BY <2>1, OwnIs
  <2>4. h = DomKey(dom, k)
    BY <2>3, HandleIs
  <2>5. IsDom(dom') /\ Own(dom, nest, FALSE)
    BY <2>1, <2>2 DEF IInv, Handed, Settled, Fit
  <2>. HIDE DEF h, L
  <2>6. /\ Own(h, nest, TRUE)
        /\ Turned(dom, h, Len(nest), Renamed(FrameIn(dom, Len(nest)), k))
    BY <2>1, <2>4, <2>5, KeyOwn
  <2>7. Own(h, nest', keyed')
    BY <2>2, <2>6
  <2>8. Following' /\ Leaves(dom, h)
    BY <1>1, <1>3, <2>1, <2>3, <2>7, BounceFollows DEF h
  <2>9. Shows(dom, h)
    BY <2>3, <2>5, <2>8, LeavesShows
  <2>10. Still \/ Becomes(Longer(Shorter(FramesNow), Renamed(FrameIn(dom, L), k)))
    BY <2>1, <2>2, <2>6, <2>9, TurnedBecomes DEF L
  <2>11. L = Len(nest) /\ FramesNow = FramesOf(dom)
    BY <2>9 DEF Shows, L
  <2>12. /\ FramesNow # <<>> /\ InnerNow = FrameIn(dom, L) /\ InnerNow.kind = nest[L]
         /\ InnerNow.name = NULL
    BY <2>1, <2>2, <2>11, InnerIs
  <2>. QED
    BY <2>1, <2>8, <2>10, <2>11, <2>12
<1>. QED
  BY <1>2, <1>3 DEF ReadKey

LEMMA StartShown ==
  ASSUME Own(dom, nest, keyed), keyed \in BOOLEAN, NEW kind, NEW h,
         (nest = <<>> /\ dom = Blank) \/ Ready(nest, keyed),
         Opens(dom, h, nest, kind), Shows(dom, h), FramesNow' = FramesOf(h), DocNow' = DocOf(h)
  PROVE  \/ /\ FramesNow = <<>> /\ DocNow = NULL
            /\ Becomes(Longer(<<>>, Document!Frame(kind)))
         \/ /\ FramesNow # <<>> /\ (InnerNow.kind = "object" => InnerNow.name # NULL)
            /\ Becomes(Longer(Longer(Shorter(FramesNow), Document!Opened(InnerNow)),
                              Document!Frame(kind)))
<1>. DEFINE L  == Len(nest)
            fr == FramesOf(dom)
<1>1. /\ IsNest(nest) /\ L \in Nat /\ (nest = <<>> <=> L = 0) /\ Len(dom.ctx) = L + 1
  BY OwnIs
<1>2. fr = FramesOf(dom) /\ FramesNow = fr /\ DocNow = DocOf(dom) /\ L = Len(nest)
  BY DEF Shows
<1>. HIDE DEF L, fr
<1>3. /\ nest = <<>> => FramesOf(h) = Longer(<<>>, Document!Frame(kind))
      /\ nest # <<>> => FramesOf(h) = Longer(Longer(Shorter(fr), Document!Opened(FrameIn(dom, L))),
                                             Document!Frame(kind))
  BY <1>1, <1>2, FramesOpened
<1>4. DocNow' = NULL
  <2>1. Len(h.ctx) > 1
    BY <1>1, <1>2 DEF Opens
  <2>. QED
    BY <2>1 DEF DocOf
<1>5. CASE nest = <<>>
  <2>1. dom = Blank
    BY <1>5 DEF Ready
  <2>2. DocNow = NULL
    <3>1. dom.ctx[1] = NULL /\ ~(Len(dom.ctx) > 1)
      BY <1>1, <1>2, <1>5, <2>1, BlankOwn
    <3>2. IsDom(dom)
      BY OwnIs
    <3>. QED
      BY <1>2, <3>1, <3>2, NullTree DEF DocOf
  <2>3. FramesNow = <<>>
    <3>1. IsSeq(fr) /\ Len(fr) = L
      BY <1>1, <1>2, FramesAre
    <3>. QED
      BY <1>1, <1>2, <1>5, <3>1, SeqFacts
  <2>. QED
    BY <1>3, <1>4, <1>5, <2>2, <2>3 DEF Shows, Becomes
<1>6. CASE nest # <<>>
  <2>1. /\ FramesNow # <<>> /\ InnerNow = FrameIn(dom, L) /\ InnerNow.kind = nest[L]
        /\ L >= 1 /\ IF keyed THEN InnerNow.name # NULL ELSE InnerNow.name = NULL
    BY <1>2, <1>6, InnerIs
  <2>2. nest[L] = IF keyed THEN "object" ELSE "array"
    BY <1>2, <1>6 DEF Ready
  <2>3. DocNow = NULL
    BY <1>1, <1>2, <2>1 DEF DocOf
  <2>. QED
    BY <1>2, <1>3, <1>4, <1>6, <2>1, <2>2, <2>3 DEF Shows, Becomes
<1>. QED
  BY <1>5, <1>6

LEMMA StartFollows ==
  ASSUME IInv, IInv', Following, NEW kind \in Kinds, ReadStart(kind)
  PROVE  /\ Following'
         /\ \/ Still
            \/ /\ FramesNow = <<>> /\ DocNow = NULL
               /\ Becomes(Longer(<<>>, Document!Frame(kind)))
            \/ /\ FramesNow # <<>> /\ (InnerNow.kind = "object" => InnerNow.name # NULL)
               /\ Becomes(Longer(Longer(Shorter(FramesNow), Document!Opened(InnerNow)),
                                 Document!Frame(kind)))
<1>1. Reading("start", kind)
  BY DEF ReadStart
<1>2. CASE AskFailed
  BY <1>1, <1>2, AskFailedStill
<1>3. ASSUME NEW passes \in BOOLEAN, Bounce("start", kind, dom, passes)
      PROVE  /\ Following'
             /\ \/ Still
                \/ /\ FramesNow = <<>> /\ DocNow = NULL
                   /\ Becomes(Longer(<<>>, Document!Frame(kind)))
                \/ /\ FramesNow # <<>> /\ (InnerNow.kind = "object" => InnerNow.name # NULL)
                   /\ Becomes(Longer(Longer(Shorter(FramesNow), Document!Opened(InnerNow)),
                                     Document!Frame(kind)))
  <2>. DEFINE h == Handle(dom, Event("start", kind))
  <2>1. Going /\ Legal("start", kind) /\ ~whole /\ Own(dom, nest, keyed)
    BY <1>1 DEF Reading, Legal, IInv, Following
  <2>2. /\ nest' = Append(nest, kind) /\ keyed' = FALSE /\ keyed \in BOOLEAN
        /\ (nest = <<>> => dom = Blank)
    BY <1>1, <2>1 DEF Reading, Advance, Going
  <2>3. dom.ok = TRUE /\ IsDom(dom) /\ Len(dom.ctx) = Len(nest) + 1 /\ IsNest(nest)
    BY <2>1, OwnIs
  <2>4. h = DomStart(dom, kind)
    BY <2>3, HandleIs
  <2>5. IsDom(dom')
    BY DEF IInv, Handed, Settled, Fit
  <2>6. (nest = <<>> /\ dom = Blank) \/ Ready(nest, keyed)
    BY <2>1, ValueReady
  <2>7. (nest = <<>> /\ Here(dom) = NULL) \/ Ready(nest, keyed)
    BY <2>6, BlankOwn
  <2>. HIDE DEF h
  <2>8. Opens(dom, h, nest, kind)
    BY <2>1, <2>4, <2>7, StartOwn
  <2>9. Own(h, nest', keyed')
    BY <2>2, <2>8 DEF Opens
  <2>10. Following' /\ Leaves(dom, h)
    BY <1>1, <1>3, <2>2, <2>3, <2>9, BounceFollows DEF h
  <2>11. Shows(dom, h)
    BY <2>3, <2>5, <2>10, LeavesShows
  <2>12. Still \/ (FramesNow' = FramesOf(h) /\ DocNow' = DocOf(h))
    BY <2>11, ShownStill
  <2>. QED
    BY <2>1, <2>2, <2>6, <2>8, <2>10, <2>11, <2>12, StartShown
<1>. QED
  BY <1>2, <1>3 DEF ReadStart

OuterNow == Shorter(FramesNow)

(* The innermost frame, having become f, closes. *)
Closes(f) ==
  /\ phase # "done" /\ phase' # "done" /\ AnswerNow' = AnswerNow
  /\ FramesNow' = IF Len(FramesNow) = 1 THEN <<>>
                  ELSE Longer(Shorter(OuterNow),
                              Document!Placed(OuterNow[Len(OuterNow)], Document!Closed(f)))
  /\ DocNow' = IF Len(FramesNow) = 1 THEN Document!Closed(f) ELSE DocNow

LEMMA EndShown ==
  ASSUME Own(dom, nest, FALSE), nest # <<>>, NEW L, L = Len(nest), NEW f, NEW d,
         Own(d, nest, FALSE), Turned(dom, d, L, f),
         NEW h, Ends(d, h, nest, L), Shows(d, h)
  PROVE  Becomes(Longer(Shorter(FramesNow), f)) \/ Closes(f)
<1>. DEFINE fr  == FramesOf(dom)
            g   == FramesOf(d)
            out == Shorter(g)
            v   == Document!Closed(FrameIn(d, L))
<1>1. /\ IsNest(nest) /\ L \in Nat /\ L >= 1 /\ Len(dom.ctx) = L + 1
  <2>1. Own(dom, nest, FALSE)
    OBVIOUS
  <2>2. /\ IsNest(nest) /\ Len(nest) \in Nat /\ (nest = <<>> <=> Len(nest) = 0)
        /\ Len(dom.ctx) = Len(nest) + 1
    BY ONLY <2>1, OwnIs
  <2>. QED
    BY <2>2
<1>2. Len(d.ctx) = L + 1 /\ FrameIn(d, L) = f
  BY DEF Turned
<1>3. fr = FramesOf(dom) /\ FramesNow = fr /\ DocNow = DocOf(dom)
  BY DEF Shows
<1>4. g = FramesOf(d) /\ out = Shorter(g) /\ v = Document!Closed(FrameIn(d, L))
  OBVIOUS
<1>. HIDE DEF fr, g, out, v
<1>5. g = Longer(Shorter(fr), f) /\ fr # <<>> /\ Len(fr) = L
  <2>1. FramesOf(d) = Longer(Shorter(fr), f)
    BY ZenonT(60), <1>1, <1>3, TopTurned
  <2>2. IsSeq(fr) /\ Len(fr) = L
    BY <1>1, <1>3, FramesAre
  <2>3. fr # <<>>
    BY <1>1, <2>2, SeqFacts
  <2>. QED
    BY <1>4, <2>1, <2>2, <2>3
<1>6. /\ L = 1 => FramesOf(h) = <<>> /\ DocOf(h) = v
      /\ L # 1 => /\ FramesOf(h) = Longer(Shorter(out), Document!Placed(out[Len(out)], v))
                  /\ DocOf(h) = DocOf(d)
  BY <1>1, <1>2, <1>4, FramesEnded
<1>7. out = OuterNow
  <2>1. IsSeq(fr)
    BY <1>1, <1>3, FramesAre
  <2>2. IsSeq(Shorter(fr))
    BY <1>5, <2>1, ShorterIs
  <2>. DEFINE s == Shorter(fr)
  <2>3. Shorter(Longer(s, f)) = s
    BY <2>2, ShorterLonger
  <2>. QED
    BY <1>3, <1>4, <1>5, <2>3 DEF OuterNow
<1>8. DocOf(d) = DocOf(dom)
  BY <1>1, <1>2 DEF DocOf
<1>9. CASE FramesNow' = FramesOf(d) /\ DocNow' = DocOf(d)
  BY <1>3, <1>4, <1>5, <1>8, <1>9 DEF Shows, Becomes
<1>10. CASE FramesNow' = FramesOf(h) /\ DocNow' = DocOf(h)
  <2>1. v = Document!Closed(f)
    BY <1>2, <1>4
  <2>2. CASE L = 1
    BY <1>3, <1>5, <1>6, <1>10, <2>1, <2>2 DEF Shows, Closes
  <2>3. CASE L # 1
    BY <1>3, <1>5, <1>6, <1>7, <1>8, <1>10, <2>1, <2>3 DEF Shows, Closes
  <2>. QED
    BY <2>2, <2>3
<1>. QED
  BY <1>9, <1>10 DEF Shows

LEMMA EndFollows ==
  ASSUME IInv, IInv', Following, NEW kind \in Kinds, Reading("end", kind),
         NEW d, NEW passes \in BOOLEAN, Bounce("end", kind, d, passes),
         Own(d, nest, FALSE), NEW f, Turned(dom, d, Len(nest), f)
  PROVE  /\ Following'
         /\ Becomes(Longer(Shorter(FramesNow), f)) \/ Closes(f)
<1>. DEFINE h == Handle(d, Event("end", kind))
<1>1. /\ nest # <<>> /\ nest[Len(nest)] = kind /\ Own(dom, nest, FALSE)
  <2>1. Going /\ ~keyed /\ nest # <<>> /\ nest[Len(nest)] = kind /\ Own(dom, nest, keyed)
    BY DEF Reading, Legal, IInv, Following, Kinds
  <2>2. keyed = FALSE
    BY <2>1 DEF Going
  <2>. QED
    BY <2>1, <2>2
<1>2. nest' = Front(nest) /\ keyed' = FALSE
  BY DEF Reading, Advance
<1>3. d.ok = TRUE /\ IsDom(d) /\ Len(d.ctx) = Len(nest) + 1
  BY OwnIs
<1>4. h = DomEnd(d, kind)
  BY <1>3, HandleIs
<1>5. IsDom(dom) /\ IsDom(dom')
  BY InvariantDom DEF IInv, Handed, Settled, Fit
<1>. HIDE DEF h
<1>6. Ends(d, h, nest, Len(nest))
  BY <1>1, <1>4, EndOwn
<1>7. Own(h, nest', keyed')
  BY <1>2, <1>6 DEF Ends
<1>8. Following' /\ Leaves(d, h)
  BY <1>1, <1>3, <1>7, BounceFollows DEF h
<1>9. Shows(d, h)
  BY <1>3, <1>5, <1>8, LeavesShows
<1>10. Becomes(Longer(Shorter(FramesNow), f)) \/ Closes(f)
  BY <1>1, <1>6, <1>9, EndShown
<1>. QED
  BY <1>8, <1>10

LEMMA EndArrayFollows ==
  ASSUME IInv, IInv', Following, ReadEndArray
  PROVE  /\ Following'
         /\ \/ Still
            \/ /\ Closes(Refilled(InnerNow, InnerNow.members))
               /\ FramesNow # <<>> /\ InnerNow.name = NULL
<1>1. Reading("end", "array") /\ "array" \in Kinds
  BY DEF ReadEndArray, Kinds
<1>2. CASE AskFailed
  BY <1>1, <1>2, AskFailedStill
<1>3. ASSUME NEW passes \in BOOLEAN, Bounce("end", "array", dom, passes)
      PROVE  /\ Following'
             /\ \/ Still
                \/ /\ Closes(Refilled(InnerNow, InnerNow.members))
                   /\ FramesNow # <<>> /\ InnerNow.name = NULL
  <2>. DEFINE L == Len(nest)
              f == FrameIn(dom, L)
  <2>1. Going /\ ~keyed /\ nest # <<>> /\ Own(dom, nest, keyed) /\ phase = "parsing"
    BY <1>1 DEF Reading, Legal, IInv, Following
  <2>2. keyed = FALSE
    BY <2>1 DEF Going
  <2>3. Own(dom, nest, FALSE)
    BY <2>1, <2>2
  <2>4. Len(dom.ctx) = Len(nest) + 1 /\ L = Len(nest)
    BY <2>3, OwnIs
  <2>5. FramesNow = FramesOf(dom)
    BY <2>1 DEF FramesNow
  <2>. HIDE DEF L
  <2>6. FramesNow # <<>> /\ InnerNow = f /\ InnerNow.name = NULL /\ L \in Nat /\ L >= 1 /\ Len(FramesNow) = L
    BY <2>1, <2>2, <2>4, <2>5, InnerIs
  <2>7. Turned(dom, dom, Len(nest), f)
    BY <2>4 DEF Turned, SameFrames
  <2>. HIDE DEF f
  <2>8. Following' /\ (Becomes(Longer(Shorter(FramesNow), f)) \/ Closes(f))
    BY <1>1, <1>3, <2>3, <2>7, EndFollows
  <2>9. Longer(Shorter(FramesNow), f) = FramesNow
    <3>1. IsSeq(FramesNow)
      BY <2>4, <2>5, <2>6, FramesAre
    <3>2. f = FramesNow[Len(FramesNow)]
      BY <2>6 DEF InnerNow
    <3>. QED
      BY <2>6, <3>1, <3>2, LongerShorter
  <2>10. Becomes(FramesNow) => Still
    BY DEF Becomes, Still
  <2>11. Refilled(f, f.members) = f
    <3>. DEFINE o == Parent(dom)
    <3>1. Found(dom, nest, L, o)
      BY <2>1, <2>3, <2>4, OwnFound
    <3>. HIDE DEF o
    <3>2. f = FrameOf(nest[L], Contents(dom, o), NameIn(dom))
      BY <3>1, TopFrame DEF f
    <3>. QED
      BY <3>2, FrameFields, FrameChanged
  <2>. QED
    BY <2>6, <2>8, <2>9, <2>10, <2>11
<1>. QED
  BY <1>2, <1>3 DEF ReadEndArray

LEMMA InjectedMissing ==
  ASSUME NEW d, NEW ks \in Injections(d)
  PROVE  \A i \in 1 .. Len(ks) : ks[i] \in Missing(d)
<1>1. PICK n \in 0 .. MaxInjected : ks \in [1 .. n -> Missing(d)]
  BY DEF Injections
<1>2. n \in Nat /\ Len(ks) = n
  BY <1>1, DomConstants
<1>. QED
  BY <1>1, <1>2

(* The innermost frame with the defaults of some names it lacks *)
Supplied(names) == Refilled(InnerNow, Completed(names, InnerNow.members))

Supplies(names) ==
  /\ names \subseteq DOMAIN Defaults \ {Empty}
  /\ FramesNow # <<>> /\ InnerNow.kind = "object" /\ InnerNow.name = NULL
  /\ IsFn(InnerNow.members) /\ names \cap DOMAIN InnerNow.members = {}
  /\ Becomes(Longer(Shorter(FramesNow), Supplied(names))) \/ Closes(Supplied(names))

LEMMA EndObjectBounced ==
  ASSUME IInv, IInv', Following, Reading("end", "object"), NEW ks \in Injections(dom),
         NEW passes \in BOOLEAN,
         Bounce("end", "object", [InjectAll(dom, ks) EXCEPT !.ok = TRUE], passes)
  PROVE  Following' /\ \E names : Supplies(names)
<1>. DEFINE L == Len(nest)
            d == InjectAll(dom, ks)
            names == FirstNames(ks, Len(ks)) \ {Empty}
<1>1. /\ Going /\ ~keyed /\ nest # <<>> /\ nest[Len(nest)] = "object" /\ Own(dom, nest, keyed)
      /\ phase = "parsing" /\ "object" \in Kinds
  BY DEF Reading, Legal, IInv, Following, Kinds
<1>2. keyed = FALSE
  BY <1>1 DEF Going
<1>3. Own(dom, nest, FALSE) /\ IsNest(nest) /\ L = Len(nest)
  BY <1>1, <1>2 DEF Going
<1>4. FramesNow = FramesOf(dom)
  BY <1>1 DEF FramesNow
<1>5. /\ Len(ks) \in Nat /\ \A i \in 1 .. Len(ks) : ks[i] \in DOMAIN Defaults
  BY InjectionsFacts
<1>6. \A i \in 1 .. Len(ks) : ks[i] \in Missing(dom)
  BY InjectedMissing
<1>7. PICK m : ObjectTop(dom, Len(nest), m)
  BY <1>1, <1>3, ObjectTopIs
<1>. DEFINE f == FrameOf("object", Completed(names, m), NULL)
<1>8. At(dom, d, nest, FALSE, f)
  BY <1>1, <1>3, <1>5, <1>7, InjectAllAt
<1>. HIDE DEF L, d, f
<1>9. Own(d, nest, FALSE) /\ Turned(dom, d, Len(nest), f)
  BY <1>8 DEF At
<1>10. [d EXCEPT !.ok = TRUE] = d
  <2>1. IsDom(d) /\ d.ok = TRUE
    BY <1>9, OwnIs
  <2>2. /\ d = [heap |-> d.heap, live |-> d.live, ctx |-> d.ctx, ok |-> d.ok]
        /\ [d EXCEPT !.ok = TRUE]
             = [heap |-> d.heap, live |-> d.live, ctx |-> d.ctx, ok |-> TRUE]
    BY <2>1, DomFields, Zenon DEF IsDom
  <2>. QED
    BY <2>1, <2>2
<1>11. Bounce("end", "object", d, passes)
  BY <1>10 DEF d
<1>12. Following' /\ (Becomes(Longer(Shorter(FramesNow), f)) \/ Closes(f))
  BY <1>1, <1>9, <1>11, EndFollows
<1>13. /\ FramesNow # <<>> /\ InnerNow = FrameIn(dom, L) /\ InnerNow.kind = nest[L]
       /\ InnerNow.name = NULL
  BY <1>1, <1>2, <1>3, <1>4, InnerIs
<1>14. InnerNow = FrameOf("object", m, NULL) /\ IsFn(m) /\ Missing(dom) \cap DOMAIN m = {}
  BY <1>3, <1>7, <1>13 DEF ObjectTop
<1>15. InnerNow.members = m
  BY <1>14, FrameFields
<1>. HIDE DEF names
<1>16. f = Supplied(names)
  BY <1>14, <1>15, FrameChanged DEF Supplied, f
<1>17. names \subseteq DOMAIN Defaults \ {Empty} /\ names \subseteq Missing(dom)
  BY <1>5, <1>6 DEF names, FirstNames
<1>18. Supplies(names)
  BY <1>1, <1>3, <1>12, <1>13, <1>14, <1>15, <1>16, <1>17 DEF Supplies
<1>. QED
  BY <1>12, <1>18

LEMMA EndObjectFollows ==
  ASSUME IInv, IInv', Following, ReadEndObject
  PROVE  Following' /\ (Still \/ \E names : Supplies(names))
<1>1. Reading("end", "object")
  BY DEF ReadEndObject
<1>2. CASE AskFailed
  BY <1>1, <1>2, AskFailedStill
<1>3. ASSUME NEW ks \in Injections(dom), NEW passes \in BOOLEAN,
             Bounce("end", "object", [InjectAll(dom, ks) EXCEPT !.ok = TRUE], passes)
      PROVE  Following' /\ \E names : Supplies(names)
  BY <1>1, <1>3, EndObjectBounced
<1>4. ASSUME ~AskFailed
      PROVE  \E ks \in Injections(dom), passes \in BOOLEAN :
               Bounce("end", "object", [InjectAll(dom, ks) EXCEPT !.ok = TRUE], passes)
  BY <1>4 DEF ReadEndObject
<1>. QED
  BY <1>2, <1>3, <1>4

LEMMA StartFailsFollows ==
  ASSUME IInv, IInv', Following, NEW kind, StartFails(kind)
  PROVE  Following' /\ Still
<1>1. /\ Going /\ Own(dom, nest, keyed) /\ ~whole /\ phase = "parsing" /\ phase' = "stopped"
      /\ dom' = Refuse(dom) /\ result' = result /\ read' = read + 1 /\ read \in Nat
  BY DEF StartFails, Reading, Legal, IInv, Following
<1>2. /\ result = NULL /\ (nest = <<>> => dom = Blank)
      /\ Len(nest) \in Nat /\ (nest = <<>> <=> Len(nest) = 0) /\ Len(dom.ctx) = Len(nest) + 1
      /\ IsDom(dom) /\ IsDom(dom')
  BY <1>1, OwnIs DEF Going, IInv, Handed, Settled, Fit
<1>3. dom'.ctx = dom.ctx
  BY <1>1, RefuseFacts DEF Refuse
<1>4. nest = <<>> => Following'
  BY <1>1, <1>2, <1>3, BlankOwn DEF Following
<1>5. nest # <<>> => Following'
  BY <1>1, <1>2, <1>3 DEF Following, Unbalanced
<1>6. Shows(dom, dom)
  <2>1. Leaves(dom, dom)
    BY <1>1, <1>2 DEF Leaves
  <2>. QED
    BY <1>2, <2>1, LeavesShows
<1>7. Still
  BY <1>6 DEF Shows, Still
<1>. QED
  BY <1>4, <1>5, <1>7

LEMMA StoppedFollows ==
  ASSUME IInv, Following, NoValidation \/ TextEnds
  PROVE  Following' /\ Still
<1>1. /\ Going /\ Own(dom, nest, keyed) /\ phase = "parsing" /\ phase' = "stopped"
      /\ dom' = dom /\ result' = result /\ read' = read /\ read \in Nat
  BY DEF NoValidation, TextEnds, IInv, Following
<1>2. /\ (nest = <<>> => whole \/ dom = Blank)
      /\ Len(nest) \in Nat /\ (nest = <<>> <=> Len(nest) = 0) /\ Len(dom.ctx) = Len(nest) + 1
  BY <1>1, OwnIs DEF Going
<1>3. Still
  BY <1>1 DEF Still, FramesNow, DocNow, AnswerNow
<1>4. CASE dom = Blank
  BY <1>1, <1>3, <1>4, BlankOwn DEF Following
<1>5. CASE nest # <<>>
  BY <1>1, <1>2, <1>3, <1>5 DEF Following, Unbalanced
<1>6. CASE whole /\ dom # Blank
  <2>1. TextEnds
    BY <1>6 DEF NoValidation, Following
  <2>2. status' = "ok"
    BY <1>6, <2>1 DEF TextEnds
  <2>. QED
    BY <1>1, <1>3, <2>2 DEF Following, ParsedOK
<1>. QED
  BY <1>2, <1>4, <1>5, <1>6

(* The client gets the document, or null. *)
LEMMA FinishDelivers ==
  ASSUME IInv, IInv', Following, Finish
  PROVE  /\ Following'
         /\ phase # "done" /\ phase' = "done" /\ FramesNow' = <<>>
         /\ DocNow' = DocNow /\ AnswerNow' = DocNow
<1>. DEFINE d == IF Unbalanced THEN Release(dom, Pending) ELSE dom
            r == dom.ctx[1]
<1>1. /\ phase = "stopped" /\ phase' = "done" /\ read' = read
      /\ IsDom(dom) /\ IsDom(dom') /\ (Unbalanced \/ ParsedOK \/ r = NULL)
  BY DEF Finish, IInv, Handed, Settled, Fit, Following
<1>2. Following' /\ FramesNow' = <<>>
  BY <1>1 DEF Following, FramesNow
<1>3. d.heap = dom.heap /\ d.ctx = dom.ctx /\ IsDom(d)
  BY <1>1, ReleaseFacts DEF Around
<1>. HIDE DEF r
<1>4. IF ParsedOK /\ ~Unbalanced THEN result' = r /\ dom' = d
      ELSE result' = NULL /\ dom' = Release(d, {r})
  BY DEF Finish, r
<1>. HIDE DEF d
<1>5. dom'.heap = dom.heap /\ dom'.ctx = dom.ctx
  <2>1. CASE dom' = d
    BY <1>3, <2>1
  <2>2. CASE dom' = Release(d, {r})
    BY <1>3, <2>2, ReleaseFacts DEF Around
  <2>. QED
    BY <1>4, <2>1, <2>2
<1>6. DocOf(dom') = DocOf(dom)
  BY <1>5, SameDocument
<1>7. DocNow' = DocNow
  BY <1>6 DEF DocNow
<1>8. CASE ParsedOK /\ ~Unbalanced
  <2>1. Tree(dom', r) = DocOf(dom')
    BY <1>5, <1>8 DEF DocOf, Unbalanced, r
  <2>2. AnswerNow' = DocNow'
    BY <1>4, <1>8, <2>1 DEF AnswerNow, DocNow
  <2>. QED
    BY <1>1, <1>2, <1>7, <2>2
<1>9. CASE ~(ParsedOK /\ ~Unbalanced)
  <2>1. AnswerNow' = NULL
    BY <1>1, <1>4, <1>9, NullTree DEF AnswerNow
  <2>2. DocNow = NULL
    <3>1. CASE Unbalanced
      BY <3>1 DEF Unbalanced, DocNow, DocOf
    <3>2. CASE ~Unbalanced
      <4>1. dom.ctx[1] = NULL
        BY <1>1, <1>9, <3>2 DEF r
      <4>. QED
        BY <1>1, <3>2, <4>1, NullTree DEF Unbalanced, DocNow, DocOf
    <3>. QED
      BY <3>1, <3>2
  <2>. QED
    BY <1>1, <1>2, <1>7, <2>1, <2>2
<1>. QED
  BY <1>8, <1>9

(* The steps of the reader of documents, over what the handlers have built *)
LEMMA DefaultsAre ==
  ASSUME DefaultsSymmetric, NEW names, names \subseteq DOMAIN Defaults \ {Empty}
  PROVE  LET given == [k \in DOMAIN Defaults \ {Empty} |-> Defaults[k]]
         IN  names \in SUBSET DOMAIN given /\ [n \in names |-> given[n]] = DefaultsOf(names)
BY DEF DefaultsOf, DefaultsSymmetric

LEMMA StillMaps ==
  ASSUME Still
  PROVE  UNCHANGED Document!dvars
BY DEF Still, Document!dvars

LEMMA ValueMaps ==
  ASSUME NEW s \in Scalars,
         Becomes(Longer(Shorter(FramesNow), Document!Placed(InnerNow, s))),
         FramesNow # <<>>, InnerNow.kind = "object" => InnerNow.name # NULL
  PROVE  Document!Next
<1>1. Document!Value(s)
  BY DEF Document!Value, Document!Reading, Document!Ready, Document!Top, Document!OnTop,
         Document!Outer, Becomes, InnerNow, Longer, Shorter
<1>. QED
  BY <1>1 DEF Document!Next

LEMMA NameMaps ==
  ASSUME NEW k \in Names,
         Becomes(Longer(Shorter(FramesNow), Renamed(InnerNow, k))),
         FramesNow # <<>>, InnerNow.kind = "object", InnerNow.name = NULL
  PROVE  Document!Next
<1>1. Document!Name(k)
  BY DEF Document!Name, Document!Reading, Document!Top, Document!OnTop,
         Document!Outer, Becomes, InnerNow, Longer, Shorter, Renamed
<1>. QED
  BY <1>1 DEF Document!Next

LEMMA OpenMaps ==
  ASSUME NEW kind \in Kinds,
         \/ /\ FramesNow = <<>> /\ DocNow = NULL
            /\ Becomes(Longer(<<>>, Document!Frame(kind)))
         \/ /\ FramesNow # <<>> /\ (InnerNow.kind = "object" => InnerNow.name # NULL)
            /\ Becomes(Longer(Longer(Shorter(FramesNow), Document!Opened(InnerNow)),
                              Document!Frame(kind)))
  PROVE  Document!Next
<1>1. Document!Open(kind)
  BY DEF Document!Open, Document!Reading, Document!Ready, Document!Top, Document!OnTop,
         Document!Outer, Becomes, InnerNow, Longer, Shorter
<1>. QED
  BY <1>1 DEF Document!Next, Kinds

(* The frame that closes, as the reader of documents has it *)
Given == [k \in DOMAIN Defaults \ {Empty} |-> Defaults[k]]

Filled(names) ==
  [InnerNow EXCEPT !.members = IF names = {} THEN @
                               ELSE Document!Joined([n \in names |-> Given[n]], @)]

LEMMA CloseMaps ==
  ASSUME FramesNow # <<>>, InnerNow.name = NULL, NEW names,
         names \in SUBSET DOMAIN Given,
         names # {} => InnerNow.kind = "object" /\ names \cap DOMAIN InnerNow.members = {},
         Closes(Filled(names))
  PROVE  Document!Next
<1>1. Document!Close(names)
  BY DEF Document!Close, Document!Reading, Document!Top, Document!Outer, Closes, InnerNow,
         OuterNow, Longer, Shorter, Filled, Given
<1>. QED
  BY <1>1 DEF Document!Next, Given

LEMMA CompleteMaps ==
  ASSUME FramesNow # <<>>, InnerNow.name = NULL, InnerNow.kind = "object", NEW names,
         names \in SUBSET DOMAIN Given, names \cap DOMAIN InnerNow.members = {},
         Becomes(Longer(Shorter(FramesNow),
                        [InnerNow EXCEPT !.members =
                           Document!Joined([n \in names |-> Given[n]], @)]))
  PROVE  Document!Next
<1>1. Document!Complete(names)
  BY DEF Document!Complete, Document!Reading, Document!Top, Document!OnTop, Document!Outer,
         Becomes, InnerNow, OuterNow, Longer, Shorter, Given
<1>. QED
  BY <1>1 DEF Document!Next, Given

LEMMA SuppliesMaps ==
  ASSUME DefaultsSymmetric, NEW names, Supplies(names)
  PROVE  Document!Next
<1>1. /\ names \in SUBSET DOMAIN Given /\ [n \in names |-> Given[n]] = DefaultsOf(names)
      /\ FramesNow # <<>> /\ InnerNow.kind = "object" /\ InnerNow.name = NULL
      /\ names \cap DOMAIN InnerNow.members = {} /\ IsFn(InnerNow.members)
  BY DefaultsAre DEF Supplies, Given
<1>2. Supplied(names) = [InnerNow EXCEPT !.members =
                           Document!Joined([n \in names |-> Given[n]], @)]
  BY <1>1 DEF Supplied, Refilled, Completed
<1>3. Supplied(names) = Filled(names)
  <2>1. CASE names = {}
    <3>1. Completed({}, InnerNow.members) = InnerNow.members
      BY <1>1, CompletedMore
    <3>2. Supplied(names) = [InnerNow EXCEPT !.members = InnerNow.members]
      BY <2>1, <3>1 DEF Supplied, Refilled
    <3>3. Filled(names) = [InnerNow EXCEPT !.members = InnerNow.members]
      BY <2>1 DEF Filled
    <3>. QED
      BY <3>2, <3>3
  <2>2. CASE names # {}
    BY <1>2, <2>2 DEF Filled
  <2>. QED
    BY <2>1, <2>2
<1>4. CASE Becomes(Longer(Shorter(FramesNow), Supplied(names)))
  BY <1>1, <1>2, <1>4, CompleteMaps
<1>5. CASE Closes(Supplied(names))
  BY <1>1, <1>3, <1>5, CloseMaps
<1>. QED
  BY <1>4, <1>5 DEF Supplies

LEMMA EndArrayMaps ==
  ASSUME Closes(Refilled(InnerNow, InnerNow.members)), FramesNow # <<>>, InnerNow.name = NULL
  PROVE  Document!Next
<1>. DEFINE names == {}
<1>1. names \in SUBSET DOMAIN Given /\ names = {}
  OBVIOUS
<1>. HIDE DEF names
<1>2. Filled(names) = Refilled(InnerNow, InnerNow.members)
  BY <1>1 DEF Filled, Refilled
<1>. QED
  BY <1>1, <1>2, CloseMaps

LEMMA DeliverMaps ==
  ASSUME phase # "done", phase' = "done", FramesNow' = <<>>, DocNow' = DocNow, AnswerNow' = DocNow
  PROVE  Document!Next
<1>1. Document!Deliver
  BY DEF Document!Deliver
<1>. QED
  BY <1>1 DEF Document!Next

LEMMA StepFollows ==
  ASSUME DefaultsSymmetric, IInv, IInv', Following, [Next]_vars
  PROVE  Following' /\ (Document!Next \/ UNCHANGED Document!dvars)
<1>1. ASSUME NEW s \in Scalars, ReadScalar(s)
      PROVE  Following' /\ (Document!Next \/ UNCHANGED Document!dvars)
  BY <1>1, ScalarFollows, ValueMaps, StillMaps
<1>2. ASSUME NEW k \in Names, ReadKey(k)
      PROVE  Following' /\ (Document!Next \/ UNCHANGED Document!dvars)
  BY <1>2, KeyFollows, NameMaps, StillMaps
<1>3. ASSUME NEW kind \in Kinds, ReadStart(kind)
      PROVE  Following' /\ (Document!Next \/ UNCHANGED Document!dvars)
  BY <1>3, StartFollows, OpenMaps, StillMaps
<1>4. ASSUME NEW kind \in Kinds, StartFails(kind)
      PROVE  Following' /\ (Document!Next \/ UNCHANGED Document!dvars)
  BY <1>4, StartFailsFollows, StillMaps
<1>5. CASE ReadEndArray
  BY <1>5, EndArrayFollows, EndArrayMaps, StillMaps
<1>6. CASE ReadEndObject
  BY <1>6, EndObjectFollows, SuppliesMaps, StillMaps
<1>7. CASE NoValidation \/ TextEnds
  BY <1>7, StoppedFollows, StillMaps
<1>8. CASE Finish
  BY <1>8, FinishDelivers, DeliverMaps
<1>9. CASE UNCHANGED vars
  <2>1. /\ phase' = phase /\ status' = status /\ handles' = handles /\ nest' = nest
        /\ keyed' = keyed /\ read' = read /\ dom' = dom /\ result' = result
    BY <1>9 DEF vars, yajl, history
  <2>2. Following'
    BY <2>1 DEF Following, Unbalanced, ParsedOK
  <2>3. UNCHANGED Document!dvars
    BY <2>1 DEF Document!dvars, FramesNow, DocNow, AnswerNow
  <2>. QED
    BY <2>2, <2>3
<1>. QED
  BY <1>1, <1>2, <1>3, <1>4, <1>5, <1>6, <1>7, <1>8, <1>9 DEF Next

LEMMA StartFollowing ==
  ASSUME Init
  PROVE  Following /\ Document!Init
<1>1. dom = Blank /\ nest = <<>> /\ keyed = FALSE /\ read = 0 /\ phase = "parsing" /\ result = NULL
  BY DEF Init
<1>2. Following
  BY <1>1, BlankOwn DEF Following
<1>3. IsDom(Blank) /\ Blank.ctx[1] = NULL /\ Len(Blank.ctx) = 0 + 1
  <2>1. IsDom(Blank) /\ Blank.ctx[1] = NULL
    BY BlankOwn, OwnIs
  <2>2. Len(Blank.ctx) = 1
    BY OneIsSeq DEF Blank
  <2>. QED
    BY <2>1, <2>2
<1>4. FramesNow = <<>>
  <2>1. IsSeq(FramesOf(Blank)) /\ Len(FramesOf(Blank)) = 0
    BY <1>3, FramesAre
  <2>. QED
    BY <1>1, <2>1, SeqFacts DEF FramesNow
<1>5. Tree(Blank, NULL) = NULL
  BY <1>3, NullTree
<1>6. DocNow = NULL /\ AnswerNow = NULL
  BY <1>1, <1>3, <1>5 DEF DocNow, DocOf, AnswerNow
<1>7. Document!Init
  BY <1>1, <1>4, <1>6 DEF Document!Init
<1>. QED
  BY <1>2, <1>7

(* The handlers of jparse_stream.c build in place, through borrowed pointers and
   a chain of contexts, what a reader of documents builds of whole values: the
   members an object gets and those replaced in it, the defaults injected where
   it ends, the elements of an array and their order are the same, and the client
   gets the document the text describes, whole, or null.  No array among the
   defaults has two ends that differ, or it would be injected back to front. *)
THEOREM DocumentsAreBuilt ==
  ASSUME DefaultsSymmetric
  PROVE  Spec => DocumentSpec
<1>1. Init => IInv /\ Following /\ Document!Init
  BY StartKeeps, StartFollowing
<1>2. IInv /\ Following /\ [Next]_vars => IInv' /\ Following' /\ [Document!Next]_(Document!dvars)
  <2>. SUFFICES ASSUME IInv, Following, [Next]_vars
                PROVE  IInv' /\ Following' /\ (Document!Next \/ UNCHANGED Document!dvars)
    OBVIOUS
  <2>1. IInv'
    BY StepKeeps
  <2>. QED
    BY <2>1, StepFollows
<1>. QED
  BY <1>1, <1>2, PTL DEF Spec, DocumentSpec, Document!Spec
================================================================================
