---------------------------- MODULE JGenerator_proofs ----------------------------
(***************************************************************************)
(* Proofs about JGenerator: for any depth the printer has room for, any    *)
(* names and strings and any sequence of calls, what a stream has written  *)
(* is the text of its calls, read one by one against the grammar.          *)
(***************************************************************************)
EXTENDS JGenerator, SeqLemmas, FiniteSetTheorems, TLAPS

-------------------------------------------------------------------------------
(* Types. *)

Tokens == Calls \cup {",", ":"}
Places == {"name", "value", "item"}

LEMMA TokensDiffer ==
  ASSUME NEW c \in Strings \cup Others
  PROVE  c \notin {"{", "}", "[", "]", ",", ":"}
BY GeneratorConstants

LEMMA BoundsTyped == MaxDepth \in Nat /\ MaxDepth # 0 /\ MaxCalls \in Nat /\ MaxCalls # 0
<1>1. MaxDepth \in Nat \ {0} /\ MaxCalls \in Nat \ {0}
  BY GeneratorConstants
<1>. QED
  BY ONLY <1>1

LEMMA PrinterTyped == Printer \in Printers
<1>1. [d \in 0 .. (MaxDepth - 1) |-> "start"] \in [0 .. (MaxDepth - 1) -> PrinterStates]
  BY DEF PrinterStates
<1>. QED
  BY <1>1 DEF Printer, Printers

(* An atom leaves a state behind that is a state. *)
LEMMA AfterTyped ==
  ASSUME NEW s \in PrinterStates
  PROVE  After(s) \in PrinterStates
BY DEF After, PrinterStates

(* A printer with one of its parts set. *)
LEMMA PartsTyped ==
  ASSUME NEW p \in Printers
  PROVE  /\ p = [depth |-> p.depth, states |-> p.states, out |-> p.out]
         /\ p.depth \in Int /\ p.states \in [0 .. (MaxDepth - 1) -> PrinterStates]
         /\ p.out \in Seq(Tokens)
BY DEF Printers, Tokens

LEMMA StatesTyped ==
  ASSUME NEW p \in Printers, p.depth >= 0
  PROVE  /\ p.depth < MaxDepth => StateOf(p) \in PrinterStates
         /\ p.depth < MaxDepth => StateOf(p) = p.states[p.depth]
         /\ p.depth >= MaxDepth => StateOf(p) = "outside"
<1>. DEFINE d == p.depth
            ss == p.states
<1>1. d \in Int /\ d >= 0 /\ ss \in [0 .. (MaxDepth - 1) -> PrinterStates]
  BY PartsTyped
<1>2. MaxDepth \in Int
  BY BoundsTyped
<1>3. StateOf(p) = IF d < MaxDepth THEN ss[d] ELSE "outside"
  BY DEF StateOf
<1>. HIDE DEF d, ss
<1>4. d < MaxDepth => d \in 0 .. (MaxDepth - 1)
  BY ONLY <1>1, <1>2
<1>5. d < MaxDepth => ss[d] \in PrinterStates
  BY <1>1, <1>4
<1>6. d >= MaxDepth => ~(d < MaxDepth)
  BY ONLY <1>1, <1>2
<1>. QED
  BY <1>3, <1>5, <1>6 DEF d, ss

LEMMA Built ==
  ASSUME NEW d \in Int, NEW ss \in [0 .. (MaxDepth - 1) -> PrinterStates], NEW o \in Seq(Tokens),
         NEW p, p = [depth |-> d, states |-> ss, out |-> o]
  PROVE  p \in Printers /\ p.depth = d /\ p.states = ss /\ p.out = o
BY DEF Printers, Tokens

LEMMA DepthSet ==
  ASSUME NEW p \in Printers, NEW d \in Int, NEW q, q = [p EXCEPT !.depth = d]
  PROVE  q \in Printers /\ q.depth = d /\ q.states = p.states /\ q.out = p.out
<1>1. q = [depth |-> d, states |-> p.states, out |-> p.out]
  BY PartsTyped
<1>. QED
  BY <1>1, PartsTyped, Built

LEMMA OutSet ==
  ASSUME NEW p \in Printers, NEW c \in Tokens, NEW q, q = [p EXCEPT !.out = Append(p.out, c)]
  PROVE  q \in Printers /\ q.depth = p.depth /\ q.states = p.states /\ q.out = Append(p.out, c)
<1>. DEFINE o == Append(p.out, c)
<1>1. o \in Seq(Tokens)
  BY PartsTyped, AppendProperties
<1>2. q = [p EXCEPT !.out = o]
  OBVIOUS
<1>. HIDE DEF o
<1>. DEFINE d == p.depth
            ss == p.states
<1>3. q = [depth |-> d, states |-> ss, out |-> o]
  BY <1>2, PartsTyped
<1>4. d \in Int /\ ss \in [0 .. (MaxDepth - 1) -> PrinterStates]
  BY PartsTyped
<1>. HIDE DEF d, ss
<1>5. q \in Printers /\ q.depth = d /\ q.states = ss /\ q.out = o
  BY ONLY <1>1, <1>3, <1>4, Built
<1>. QED
  BY <1>5 DEF o, d, ss

LEMMA StateSet ==
  ASSUME NEW p \in Printers, NEW d \in Int, NEW s \in PrinterStates,
         NEW q, q = [p EXCEPT !.states[d] = s]
  PROVE  /\ q \in Printers /\ q.depth = p.depth /\ q.out = p.out
         /\ q.states = [p.states EXCEPT ![d] = s]
<1>. DEFINE ss == [p.states EXCEPT ![d] = s]
<1>1. ss \in [0 .. (MaxDepth - 1) -> PrinterStates]
  BY PartsTyped
<1>2. q = [p EXCEPT !.states = ss]
  OBVIOUS
<1>. HIDE DEF ss
<1>3. q = [depth |-> p.depth, states |-> ss, out |-> p.out]
  BY <1>2, PartsTyped
<1>4. q \in Printers /\ q.depth = p.depth /\ q.states = ss /\ q.out = p.out
  BY <1>1, <1>3, PartsTyped, Built
<1>. QED
  BY <1>4 DEF ss

-------------------------------------------------------------------------------
(* What each call does to the parts of a printer. *)

LEMMA SeparatedIs ==
  ASSUME NEW p \in Printers
  PROVE  /\ Separated(p) \in Printers
         /\ Separated(p).depth = p.depth /\ Separated(p).states = p.states
         /\ Separated(p).out = CASE StateOf(p) \in {"map_key", "in_array"} -> Append(p.out, ",")
                                 [] StateOf(p) = "map_val" -> Append(p.out, ":")
                                 [] OTHER -> p.out
<1>. DEFINE q == Separated(p)
<1>1. CASE StateOf(p) \in {"map_key", "in_array"}
  <2>1. q = [p EXCEPT !.out = Append(p.out, ",")] /\ "," \in Tokens
    BY <1>1 DEF Separated, Tokens
  <2>. HIDE DEF q
  <2>2. q \in Printers /\ q.depth = p.depth /\ q.states = p.states /\ q.out = Append(p.out, ",")
    BY <2>1, OutSet
  <2>. QED
    BY <1>1, <2>2 DEF q
<1>2. CASE StateOf(p) = "map_val"
  <2>1. q = [p EXCEPT !.out = Append(p.out, ":")] /\ ":" \in Tokens
    BY <1>2 DEF Separated, Tokens
  <2>. HIDE DEF q
  <2>2. q \in Printers /\ q.depth = p.depth /\ q.states = p.states /\ q.out = Append(p.out, ":")
    BY <2>1, OutSet
  <2>. QED
    BY <1>2, <2>2 DEF q
<1>3. CASE StateOf(p) \notin {"map_key", "in_array", "map_val"}
  BY <1>3 DEF Separated
<1>. QED
  BY <1>1, <1>2, <1>3

(* The states of a printer at depth d after an atom or a container there. *)
StatesAfter(p, d) ==
  IF d < MaxDepth THEN [p.states EXCEPT ![d] = After(p.states[d])] ELSE p.states

LEMMA AppendedAtomIs ==
  ASSUME NEW p \in Printers, p.depth >= 0, NEW q, q = AppendedAtom(p)
  PROVE  /\ q \in Printers /\ q.depth = p.depth /\ q.out = p.out
         /\ q.states = StatesAfter(p, p.depth)
<1>1. CASE p.depth < MaxDepth
  <2>. DEFINE s == After(p.states[p.depth])
              d == p.depth
  <2>1. StateOf(p) = p.states[d]
    BY <1>1 DEF StateOf
  <2>2. s \in PrinterStates /\ d \in Int
    BY <1>1, <2>1, StatesTyped, AfterTyped, PartsTyped
  <2>3. q = [p EXCEPT !.states[d] = s] /\ StatesAfter(p, d) = [p.states EXCEPT ![d] = s]
    BY <1>1, <2>1 DEF AppendedAtom, StatesAfter
  <2>. HIDE DEF s, d
  <2>4. q \in Printers /\ q.depth = p.depth /\ q.out = p.out
        /\ q.states = [p.states EXCEPT ![d] = s]
    BY <2>2, <2>3, StateSet
  <2>. QED
    BY <2>3, <2>4 DEF d
<1>2. CASE ~(p.depth < MaxDepth)
  BY <1>2 DEF AppendedAtom, StatesAfter
<1>. QED
  BY <1>1, <1>2

LEMMA AtomIs ==
  ASSUME NEW p \in Printers, p.depth >= 0, NEW c \in Calls, NEW q, q = Atom(p, c)
  PROVE  /\ q \in Printers /\ q.depth = p.depth /\ q.out = Append(Separated(p).out, c)
         /\ q.states = StatesAfter(p, p.depth)
<1>. DEFINE s == Separated(p)
            r == [s EXCEPT !.out = Append(@, c)]
<1>1. s \in Printers /\ s.depth = p.depth /\ s.states = p.states
  BY SeparatedIs
<1>2. q = AppendedAtom(r)
  BY DEF Atom
<1>3. r = [s EXCEPT !.out = Append(s.out, c)] /\ c \in Tokens
  BY DEF Tokens
<1>. HIDE DEF s, r
<1>4. r \in Printers /\ r.depth = p.depth /\ r.states = p.states /\ r.out = Append(s.out, c)
  BY <1>1, <1>3, OutSet
<1>5. q \in Printers /\ q.depth = r.depth /\ q.out = r.out /\ q.states = StatesAfter(r, r.depth)
  BY <1>2, <1>4, AppendedAtomIs
<1>6. StatesAfter(r, r.depth) = StatesAfter(p, p.depth)
  BY <1>4 DEF StatesAfter
<1>. QED
  BY <1>4, <1>5, <1>6 DEF s

LEMMA OpenIs ==
  ASSUME NEW p \in Printers, p.depth >= 0, NEW c \in Calls, NEW q, q = Open(p, c)
  PROVE  /\ q \in Printers /\ q.depth = p.depth + 1
         /\ p.depth + 1 < MaxDepth =>
              /\ q.states = [p.states EXCEPT ![p.depth + 1] = Entered(c)]
              /\ q.out = Append(Separated(p).out, c)
         /\ ~(p.depth + 1 < MaxDepth) => q.states = p.states /\ q.out = Separated(p).out
<1>. DEFINE s == Separated(p)
            d == p.depth + 1
            r == [s EXCEPT !.depth = @ + 1]
<1>1. s \in Printers /\ s.depth = p.depth /\ s.states = p.states
  BY SeparatedIs
<1>2. p.depth \in Int /\ MaxDepth \in Int
  <2>1. p.depth \in Int
    BY PartsTyped
  <2>2. MaxDepth \in Int
    BY BoundsTyped
  <2>. QED
    BY <2>1, <2>2
<1>3. d \in Int
  BY <1>2
<1>4. r = [s EXCEPT !.depth = d]
  BY <1>1
<1>5. q = IF r.depth >= MaxDepth THEN r
          ELSE [depth |-> r.depth, out |-> Append(r.out, c),
                states |-> [r.states EXCEPT ![r.depth] = Entered(c)]]
  BY DEF Open
<1>. HIDE DEF s, d, r
<1>6. r \in Printers /\ r.depth = d /\ r.states = p.states /\ r.out = s.out
  BY <1>1, <1>3, <1>4, DepthSet
<1>7. CASE ~(d < MaxDepth)
  <2>1. q = r
    BY <1>2, <1>3, <1>5, <1>6, <1>7
  <2>. QED
    BY <1>6, <1>7, <2>1 DEF d, s
<1>8. CASE d < MaxDepth
  <2>. DEFINE ss == [p.states EXCEPT ![d] = Entered(c)]
              o == Append(s.out, c)
  <2>1. q = [depth |-> d, states |-> ss, out |-> o]
    BY <1>2, <1>3, <1>5, <1>6, <1>8
  <2>2. o \in Seq(Tokens)
    BY <1>1, PartsTyped, AppendProperties DEF Tokens
  <2>3. Entered(c) \in PrinterStates
    BY DEF Entered, PrinterStates
  <2>4. ss \in [0 .. (MaxDepth - 1) -> PrinterStates]
    BY <2>3, PartsTyped
  <2>. HIDE DEF ss, o
  <2>5. q \in Printers /\ q.depth = d /\ q.states = ss /\ q.out = o
    BY <1>3, <2>1, <2>2, <2>4, Built
  <2>. QED
    BY <1>8, <2>5 DEF ss, o, d, s
<1>. QED
  BY <1>7, <1>8

LEMMA CloseIs ==
  ASSUME NEW p \in Printers, p.depth > 0, NEW c \in Calls, NEW q, q = Close(p, c)
  PROVE  /\ q \in Printers /\ q.depth = p.depth - 1 /\ q.out = Append(p.out, c)
         /\ q.states = StatesAfter(p, p.depth - 1)
<1>. DEFINE d == p.depth - 1
            r == [p EXCEPT !.depth = @ - 1]
            s == AppendedAtom(r)
<1>1. d \in Int /\ d >= 0
  BY PartsTyped
<1>2. r = [p EXCEPT !.depth = d]
  OBVIOUS
<1>3. q = [s EXCEPT !.out = Append(s.out, c)] /\ c \in Tokens
  BY DEF Close, Tokens
<1>4. s = AppendedAtom(r)
  OBVIOUS
<1>. HIDE DEF d, r, s
<1>5. r \in Printers /\ r.depth = d /\ r.states = p.states /\ r.out = p.out
  BY <1>1, <1>2, DepthSet
<1>6. s \in Printers /\ s.depth = d /\ s.out = p.out /\ s.states = StatesAfter(r, d)
  BY <1>1, <1>4, <1>5, AppendedAtomIs
<1>7. q \in Printers /\ q.depth = d /\ q.states = s.states /\ q.out = Append(p.out, c)
  BY <1>3, <1>6, OutSet
<1>8. StatesAfter(r, d) = StatesAfter(p, d)
  BY <1>5 DEF StatesAfter
<1>. QED
  BY <1>6, <1>7, <1>8 DEF d

-------------------------------------------------------------------------------
(* Reading calls one by one. *)

Sites == [legal : BOOLEAN, first : BOOLEAN, text : Seq(Tokens), deepest : Nat, places : Seq(Places)]

ReadSteps(s, f) ==
  f = [n \in 0 .. Len(s) |-> IF n = 0 THEN Beginning ELSE Written(f[n - 1], s[n])]

LEMMA ReadStepsExist ==
  ASSUME NEW s, Len(s) \in Nat
  PROVE  \E f : ReadSteps(s, f)
<1>. DEFINE To(f, k) == f = [n \in 0 .. k |-> IF n = 0 THEN Beginning
                                              ELSE Written(f[n - 1], s[n])]
            T == {k \in Nat : ~ \E f : To(f, k)}
<1>1. T = {}
  <2>1. SUFFICES ASSUME T # {} PROVE FALSE
    OBVIOUS
  <2>2. PICK k \in T : \A j \in T : ~(j < k)
    BY <2>1, LeastOf
  <2>3. k \in Nat /\ ~ \E f : To(f, k)
    BY <2>2
  <2>4. CASE k = 0
    <3>. DEFINE f == [n \in 0 .. 0 |-> Beginning]
    <3>1. To(f, 0)
      OBVIOUS
    <3>. QED
      BY <2>3, <2>4, <3>1
  <2>5. CASE k # 0
    <3>1. k - 1 \in Nat /\ k - 1 < k
      BY <2>3, <2>5
    <3>2. PICK f : To(f, k - 1)
      BY <2>2, <3>1
    <3>. DEFINE g == [n \in 0 .. k |-> IF n = k THEN Written(f[k - 1], s[k]) ELSE f[n]]
    <3>3. \A n \in 0 .. k - 1 : f[n] = IF n = 0 THEN Beginning ELSE Written(f[n - 1], s[n])
      BY <3>2
    <3>4. \A n \in 0 .. k : g[n] = IF n = 0 THEN Beginning ELSE Written(g[n - 1], s[n])
      <4>. TAKE n \in 0 .. k
      <4>1. CASE n = k
        BY <2>3, <2>5, <3>1, <4>1
      <4>2. CASE n # k /\ n # 0
        <5>1. n \in 0 .. k - 1 /\ n - 1 \in 0 .. k /\ n - 1 # k
          BY <2>3, <4>2
        <5>. QED
          BY <3>3, <4>2, <5>1
      <4>3. CASE n # k /\ n = 0
        BY <2>3, <3>1, <3>3, <4>3
      <4>. QED
        BY <4>1, <4>2, <4>3
    <3>5. To(g, k)
      BY <3>4
    <3>. QED
      BY <2>3, <3>5
  <2>. QED
    BY <2>4, <2>5
<1>. QED
  BY <1>1 DEF ReadSteps

LEMMA ReadIs ==
  ASSUME NEW s, Len(s) \in Nat
  PROVE  \E f : ReadSteps(s, f) /\ Read(s) = f[Len(s)]
<1>. DEFINE f == CHOOSE g : ReadSteps(s, g)
<1>1. ReadSteps(s, f)
  BY ReadStepsExist
<1>2. Read(s) = f[Len(s)]
  BY DEF Read, ReadSteps
<1>. QED
  BY <1>1, <1>2

LEMMA ReadEmpty == Read(<<>>) = Beginning
<1>1. Len(<<>>) = 0
  BY EmptyIsSeq
<1>2. PICK f : ReadSteps(<<>>, f) /\ Read(<<>>) = f[Len(<<>>)]
  BY <1>1, ReadIs
<1>. QED
  BY <1>1, <1>2 DEF ReadSteps

(* A call more is written where the calls before it have led. *)
LEMMA ReadAppend ==
  ASSUME NEW s, IsSeq(s), NEW c
  PROVE  Read(Append(s, c)) = Written(Read(s), c)
<1>. DEFINE r == Append(s, c)
            m == Len(s)
<1>1. m \in Nat
  BY SeqFacts
<1>2. Len(r) = m + 1 /\ r[m + 1] = c /\ \A i \in 1 .. m : r[i] = s[i]
  BY AppendFacts
<1>. HIDE DEF r
<1>3. PICK f : ReadSteps(s, f) /\ Read(s) = f[m]
  BY <1>1, ReadIs
<1>4. PICK g : ReadSteps(r, g) /\ Read(r) = g[m + 1]
  BY <1>1, <1>2, ReadIs
<1>. HIDE DEF m
<1>5. \A n \in 0 .. m : f[n] = IF n = 0 THEN Beginning ELSE Written(f[n - 1], s[n])
  BY <1>3 DEF ReadSteps, m
<1>6. \A n \in 0 .. m + 1 : g[n] = IF n = 0 THEN Beginning ELSE Written(g[n - 1], r[n])
  BY <1>2, <1>4 DEF ReadSteps
<1>. DEFINE T == {n \in 0 .. m : f[n] # g[n]}
<1>7. T = {}
  <2>1. SUFFICES ASSUME T # {} PROVE FALSE
    OBVIOUS
  <2>2. T \subseteq Nat
    BY <1>1
  <2>3. PICK n \in T : \A j \in T : ~(j < n)
    <3>. HIDE DEF T
    <3>. QED
      BY <2>1, <2>2, LeastOf
  <2>4. n \in 0 .. m /\ n \in 0 .. m + 1 /\ f[n] # g[n]
    BY <1>1, <2>3
  <2>5. n # 0
    BY <1>5, <1>6, <2>4
  <2>6. n - 1 \in 0 .. m /\ n - 1 < n /\ n \in 1 .. m
    BY <1>1, <2>4, <2>5
  <2>7. f[n - 1] = g[n - 1]
    BY <2>3, <2>6
  <2>. QED
    BY <1>2, <1>5, <1>6, <2>4, <2>5, <2>6, <2>7 DEF m
<1>8. m \in 0 .. m /\ m + 1 \in 0 .. m + 1 /\ m + 1 # 0 /\ m + 1 - 1 = m
  BY <1>1
<1>9. f[m] = g[m]
  BY <1>7, <1>8
<1>10. g[m + 1] = Written(g[m], r[m + 1])
  BY <1>6, <1>8
<1>. QED
  BY <1>2, <1>3, <1>4, <1>9, <1>10 DEF r

-------------------------------------------------------------------------------
(* Places in the document. *)

Closing == {"}", "]"}
Opening == {"{", "["}

MovedPlace(place) == CASE place = "name" -> "value" [] place = "value" -> "name" [] OTHER -> place

LEMMA PlaceIs ==
  ASSUME NEW places \in Seq(Places)
  PROVE  /\ Len(places) \in Nat
         /\ places = <<>> <=> Len(places) = 0
         /\ Len(places) = 0 => Place(places) = "top"
         /\ Len(places) # 0 => Place(places) = places[Len(places)] /\ Place(places) \in Places
<1>1. Len(places) \in Nat /\ (places = <<>> <=> Len(places) = 0)
  BY LenProperties, EmptySeq
<1>2. Len(places) # 0 => Len(places) \in 1 .. Len(places)
  BY <1>1
<1>3. Len(places) # 0 => places[Len(places)] \in Places
  BY <1>2, ElementOfSeq
<1>. QED
  BY <1>1, <1>3 DEF Place, Last

LEMMA MovedIs ==
  ASSUME NEW places \in Seq(Places)
  PROVE  /\ Moved(places) \in Seq(Places) /\ Len(Moved(places)) = Len(places)
         /\ \A i \in 1 .. Len(places) - 1 : Moved(places)[i] = places[i]
         /\ Len(places) # 0 => Moved(places)[Len(places)] = MovedPlace(places[Len(places)])
<1>. DEFINE n == Len(places)
<1>1. n \in Nat
  BY SMTT(40), LenProperties
<1>2. CASE Place(places) = "name" \/ Place(places) = "value"
  <2>1. n # 0 /\ Place(places) = places[n]
    BY <1>2, PlaceIs
  <2>2. n \in 1 .. Len(places)
    BY <1>1, <2>1
  <2>. DEFINE x == MovedPlace(places[n])
  <2>3. x \in Places /\ Moved(places) = [places EXCEPT ![n] = x]
    BY <1>2, <2>1 DEF MovedPlace, Moved, Places
  <2>. HIDE DEF x
  <2>4. /\ [places EXCEPT ![n] = x] \in Seq(Places) /\ Len([places EXCEPT ![n] = x]) = Len(places)
        /\ \A j \in 1 .. Len(places) :
             [places EXCEPT ![n] = x][j] = IF j = n THEN x ELSE places[j]
    BY <2>2, <2>3, ExceptSeq
  <2>5. \A i \in 1 .. n - 1 : i \in 1 .. n /\ i # n
    BY <1>1
  <2>. QED
    BY <2>2, <2>3, <2>4, <2>5 DEF x
<1>3. CASE ~(Place(places) = "name" \/ Place(places) = "value")
  <2>1. Moved(places) = places
    BY <1>3 DEF Moved
  <2>2. n # 0 => MovedPlace(places[n]) = places[n]
    BY <1>3, PlaceIs DEF MovedPlace
  <2>. QED
    BY <2>1, <2>2
<1>. QED
  BY <1>2, <1>3

LEMMA FrontIs ==
  ASSUME NEW S, NEW q \in Seq(S), Len(q) # 0
  PROVE  /\ Front(q) \in Seq(S) /\ Len(Front(q)) = Len(q) - 1
         /\ \A i \in 1 .. Len(q) - 1 : Front(q)[i] = q[i]
<1>1. IsSeq(q) /\ q # <<>>
  BY EmptySeq DEF IsSeq
<1>2. /\ IsSeq(Front(q)) /\ Len(Front(q)) = Len(q) - 1
      /\ \A i \in 1 .. Len(q) - 1 : Front(q)[i] = q[i]
  BY <1>1, FrontFacts
<1>. DEFINE f == Front(q)
            m == Len(q) - 1
<1>3. m \in Nat /\ \A i \in 1 .. m : i \in 1 .. Len(q)
  <2>1. Len(q) \in Nat
    BY LenProperties
  <2>. QED
    BY <2>1
<1>4. \A i \in 1 .. m : f[i] \in S
  BY <1>2, <1>3, ElementOfSeq
<1>5. IsSeq(f) /\ Len(f) = m
  BY <1>2
<1>. HIDE DEF f, m
<1>6. PICK T : f \in Seq(T)
  BY <1>5 DEF IsSeq
<1>7. f \in [1 .. m -> S]
  BY <1>4, <1>5, <1>6, LenProperties
<1>8. f \in Seq(S)
  BY <1>3, <1>7, SeqDef
<1>. QED
  BY <1>2, <1>8 DEF f

(* What is appended to a text. *)
LEMMA Lengthened ==
  ASSUME NEW q \in Seq(Tokens), NEW e \in Tokens, NEW s
  PROVE  /\ q \o <<>> \o <<e>> = Append(q, e)
         /\ s \in Tokens => q \o <<s>> \o <<e>> = Append(Append(q, s), e)
         /\ Append(q, e) # <<>> /\ Append(q, e) \in Seq(Tokens)
<1>1. q \o <<>> = q /\ q \o <<e>> = Append(q, e)
  BY ConcatEmptySeq, AppendIsConcat
<1>2. ASSUME s \in Tokens PROVE q \o <<s>> \o <<e>> = Append(Append(q, s), e)
  <2>1. Append(q, s) \in Seq(Tokens) /\ q \o <<s>> = Append(q, s)
    BY <1>2, AppendProperties, AppendIsConcat
  <2>. QED
    BY <2>1, AppendIsConcat
<1>3. Append(q, e) \in Seq(Tokens) /\ Len(Append(q, e)) = Len(q) + 1 /\ Len(q) \in Nat
  BY AppendProperties, LenProperties
<1>4. Append(q, e) # <<>>
  BY <1>3, EmptySeq
<1>. QED
  BY <1>1, <1>2, <1>3, <1>4

LEMMA SeparatorIs ==
  ASSUME NEW at, NEW c
  PROVE  Separator(at, c) \in {<<>>, <<":">>, <<",">>}
BY DEF Separator

LEMMA TextGrows ==
  ASSUME NEW at \in Sites, NEW c \in Calls
  PROVE  at.text \o Separator(at, c) \o <<c>> \in Seq(Tokens)
<1>. DEFINE q == at.text
<1>1. q \in Seq(Tokens) /\ c \in Tokens /\ ":" \in Tokens /\ "," \in Tokens
  BY DEF Sites, Tokens
<1>. HIDE DEF q
<1>2. /\ q \o <<>> \o <<c>> \in Seq(Tokens) /\ q \o <<":">> \o <<c>> \in Seq(Tokens)
      /\ q \o <<",">> \o <<c>> \in Seq(Tokens)
  <2>1. ASSUME NEW s \in Tokens PROVE q \o <<s>> \o <<c>> \in Seq(Tokens)
    <3>1. Append(q, s) \in Seq(Tokens)
      BY <1>1, AppendProperties
    <3>2. Append(Append(q, s), c) \in Seq(Tokens)
      BY <1>1, <3>1, AppendProperties
    <3>. QED
      BY ZenonT(60), <1>1, <3>2, Lengthened
  <2>2. q \o <<>> \o <<c>> \in Seq(Tokens)
    BY <1>1, Lengthened
  <2>. QED
    BY <1>1, <2>1, <2>2
<1>. QED
  BY <1>2, SeparatorIs DEF q

(* Where a call leads. *)
LEMMA WrittenTyped ==
  ASSUME NEW at \in Sites, NEW c \in Calls, NEW to, to = Written(at, c)
  PROVE  /\ to \in Sites
         /\ to.legal = (at.legal /\ Legal(at, c))
         /\ to.first = (c \in Opening)
         /\ to.text = at.text \o Separator(at, c) \o <<c>>
         /\ at.deepest <= to.deepest
         /\ Len(at.places) + (IF c \in Opening THEN 1 ELSE 0) <= to.deepest
         /\ c \in Opening => to.places = Append(Moved(at.places), IF c = "{" THEN "name" ELSE "item")
         /\ c \in Closing => to.places = (IF at.places = <<>> THEN <<>> ELSE Front(at.places))
         /\ c \notin Opening \cup Closing => to.places = Moved(at.places)
<1>. DEFINE legal == at.legal /\ Legal(at, c)
            first == c \in Opening
            text == at.text \o Separator(at, c) \o <<c>>
            deepest == Larger(at.deepest, Len(at.places) + (IF c \in Opening THEN 1 ELSE 0))
            places == CASE c = "{" -> Append(Moved(at.places), "name")
                        [] c = "[" -> Append(Moved(at.places), "item")
                        [] c \in {"}", "]"} -> (IF at.places = <<>> THEN <<>> ELSE Front(at.places))
                        [] OTHER -> Moved(at.places)
<1>1. to = [legal |-> legal, first |-> first, text |-> text, deepest |-> deepest,
            places |-> places]
  BY DEF Written, Opening
<1>2. at.places \in Seq(Places) /\ at.deepest \in Nat /\ at.legal \in BOOLEAN
  BY DEF Sites
<1>3. text \in Seq(Tokens)
  BY TextGrows
<1>4. /\ deepest \in Nat /\ at.deepest <= deepest
      /\ Len(at.places) + (IF c \in Opening THEN 1 ELSE 0) <= deepest
  <2>. DEFINE m == at.deepest
              k == Len(at.places) + (IF c \in Opening THEN 1 ELSE 0)
  <2>1. m \in Nat /\ k \in Nat
    <3>. DEFINE l == Len(at.places)
                j == IF c \in Opening THEN 1 ELSE 0
    <3>1. l \in Nat
      BY <1>2, LenProperties
    <3>2. j \in Nat
      OBVIOUS
    <3>. HIDE DEF l, j
    <3>3. l + j \in Nat
      BY ONLY <3>1, <3>2
    <3>. QED
      BY <1>2, <3>3 DEF l, j
  <2>2. deepest = Larger(m, k)
    OBVIOUS
  <2>. HIDE DEF m, k
  <2>3. Larger(m, k) \in Nat /\ m <= Larger(m, k) /\ k <= Larger(m, k)
    BY <2>1 DEF Larger
  <2>. QED
    BY <2>2, <2>3 DEF m, k
<1>5. places \in Seq(Places)
  <2>1. Moved(at.places) \in Seq(Places)
    BY <1>2, MovedIs
  <2>2. /\ Append(Moved(at.places), "name") \in Seq(Places)
        /\ Append(Moved(at.places), "item") \in Seq(Places)
    BY <2>1, AppendProperties DEF Places
  <2>3. at.places # <<>> => Front(at.places) \in Seq(Places)
    BY <1>2, FrontIs, EmptySeq
  <2>4. <<>> \in Seq(Places)
    BY EmptySeq
  <2>. QED
    BY <2>1, <2>2, <2>3, <2>4
<1>6. legal \in BOOLEAN /\ first \in BOOLEAN
  BY <1>2
<1>7. /\ c \in Opening => places = Append(Moved(at.places), IF c = "{" THEN "name" ELSE "item")
      /\ c \in Closing => places = (IF at.places = <<>> THEN <<>> ELSE Front(at.places))
      /\ c \notin Opening \cup Closing => places = Moved(at.places)
  BY DEF Opening, Closing
<1>. HIDE DEF legal, first, text, deepest, places
<1>8. to \in Sites
  BY <1>1, <1>3, <1>4, <1>5, <1>6 DEF Sites
<1>9. /\ to.legal = legal /\ to.first = first /\ to.text = text /\ to.deepest = deepest
      /\ to.places = places
  BY <1>1
<1>. QED
  BY <1>4, <1>7, <1>8, <1>9 DEF legal, first, text

LEMMA BeginningTyped == Beginning \in Sites
<1>1. <<>> \in Seq(Tokens) /\ <<>> \in Seq(Places)
  BY EmptySeq
<1>. QED
  BY <1>1 DEF Beginning, Sites

-------------------------------------------------------------------------------
(* A printer follows the calls: its text is theirs, and each of its states   *)
(* is that of a place in the document.                                       *)

(* The state of a container that has another one open in it. *)
Under(place) ==
  CASE place = "name" -> {"map_val"} [] place = "item" -> {"array_start", "in_array"} [] OTHER -> {}

(* The state of the innermost container. *)
Inside(place, first) ==
  CASE place = "name" -> (IF first THEN {"map_start"} ELSE {"map_key"})
    [] place = "item" -> (IF first THEN {"array_start"} ELSE {"in_array"})
    [] OTHER -> (IF first THEN {} ELSE {"map_val"})

Level(at, i) ==
  CASE i = 0 -> (IF at.places = <<>> /\ at.text # <<>> THEN {"complete"} ELSE {"start"})
    [] i # 0 /\ i < Len(at.places) -> Under(at.places[i])
    [] OTHER -> Inside(at.places[i], at.first)

Follows(p, at) ==
  /\ p \in Printers /\ at \in Sites
  /\ p.out = at.text /\ p.depth = Len(at.places) /\ p.depth < MaxDepth
  /\ \A i \in 0 .. p.depth : p.states[i] \in Level(at, i)

LEMMA FollowsDepth ==
  ASSUME NEW p, NEW at, Follows(p, at)
  PROVE  /\ p.depth \in Nat /\ p.depth + 1 \in Nat /\ p.depth \in 0 .. p.depth /\ 0 \in 0 .. p.depth
         /\ MaxDepth \in Nat /\ Len(at.places) = p.depth
         /\ at.places \in Seq(Places) /\ at.text \in Seq(Tokens) /\ at.first \in BOOLEAN
         /\ StateOf(p) = p.states[p.depth] /\ StateOf(p) \in Level(at, p.depth)
<1>1. at.places \in Seq(Places) /\ at.text \in Seq(Tokens) /\ at.first \in BOOLEAN
  BY DEF Follows, Sites
<1>2. p.depth \in Nat /\ Len(at.places) = p.depth
  BY <1>1, LenProperties DEF Follows
<1>3. p.depth + 1 \in Nat /\ p.depth \in 0 .. p.depth /\ 0 \in 0 .. p.depth
  BY ONLY <1>2
<1>4. StateOf(p) = p.states[p.depth]
  BY DEF StateOf, Follows
<1>5. p.states[p.depth] \in Level(at, p.depth)
  BY <1>3 DEF Follows
<1>. QED
  BY <1>1, <1>2, <1>3, <1>4, <1>5, BoundsTyped

(* A printer that has printed nothing follows no calls. *)
LEMMA PrinterFollows == Follows(Printer, Beginning)
<1>1. Printer \in Printers /\ Beginning \in Sites
  BY PrinterTyped, BeginningTyped
<1>2. Len(<<>>) = 0
  BY EmptyIsSeq
<1>3. Printer.out = <<>> /\ Printer.depth = 0 /\ Beginning.text = <<>> /\ Beginning.places = <<>>
  BY DEF Printer, Beginning
<1>4. 0 < MaxDepth /\ 0 \in 0 .. (MaxDepth - 1)
  BY BoundsTyped
<1>5. Printer.states[0] = "start"
  BY <1>4 DEF Printer
<1>6. \A i \in 0 .. 0 : Printer.states[i] \in Level(Beginning, i)
  BY <1>3, <1>5 DEF Level
<1>. QED
  BY <1>1, <1>2, <1>3, <1>4, <1>6 DEF Follows

(* The state that a legal call finds. *)
LEMMA StateFound ==
  ASSUME NEW p, NEW at, Follows(p, at), NEW c \in Calls, Legal(at, c)
  PROVE  LET place == Place(at.places)
         IN  /\ place = "top" => /\ p.depth = 0 /\ at.places = <<>> /\ at.text = <<>>
                                 /\ StateOf(p) = "start" /\ c \notin Closing
             /\ place # "top" => /\ p.depth # 0 /\ at.places # <<>> /\ place = at.places[p.depth]
                                 /\ StateOf(p) \in Inside(place, at.first)
             /\ place = "name" => c \in Strings \cup Closing
             /\ c \in Closing => place \in {"name", "item"}
<1>1. c \in Closing => Place(at.places) \in {"name", "item"}
  BY DEF Legal, Closing
<1>2. Place(at.places) = "name" => c \in Strings \cup Closing
  BY DEF Legal, Closing
<1>3. Place(at.places) = "top" => Len(at.places) = 0
  BY FollowsDepth, PlaceIs DEF Places
<1>4. CASE Len(at.places) = 0
  <2>1. at.places = <<>> /\ p.depth = 0 /\ Place(at.places) = "top"
    BY <1>4, FollowsDepth, PlaceIs
  <2>2. c \notin Closing
    BY <1>1, <2>1
  <2>3. at.text = <<>>
    BY <2>1, <2>2 DEF Legal, Closing
  <2>4. StateOf(p) \in Level(at, 0)
    BY <2>1, FollowsDepth
  <2>5. StateOf(p) = "start"
    BY <2>3, <2>4 DEF Level
  <2>. QED
    BY <1>1, <1>2, <2>1, <2>2, <2>3, <2>5
<1>5. CASE Len(at.places) # 0
  <2>1. at.places # <<>> /\ p.depth # 0 /\ Place(at.places) = at.places[p.depth]
        /\ Place(at.places) # "top"
    BY <1>3, <1>5, FollowsDepth, PlaceIs
  <2>2. ~(p.depth < Len(at.places))
    BY FollowsDepth
  <2>3. StateOf(p) \in Inside(at.places[p.depth], at.first)
    BY <2>1, <2>2, FollowsDepth DEF Level
  <2>. QED
    BY <1>1, <1>2, <2>1, <2>3
<1>. QED
  BY <1>4, <1>5

(* A legal call is not refused, and its separator is the one its place has. *)
LEMMA Accepted ==
  ASSUME NEW p, NEW at, Follows(p, at), NEW c \in Calls, Legal(at, c)
  PROVE  /\ ~Refused(p, c)
         /\ c \notin Closing => Append(Separated(p).out, c) = at.text \o Separator(at, c) \o <<c>>
         /\ c \in Closing => /\ p.depth # 0
                              /\ Append(p.out, c) = at.text \o Separator(at, c) \o <<c>>
<1>. DEFINE place == Place(at.places)
            q == at.text
<1>1. /\ place = "top" => /\ p.depth = 0 /\ at.places = <<>> /\ StateOf(p) = "start"
                          /\ c \notin Closing
      /\ place # "top" => /\ p.depth # 0 /\ at.places # <<>>
                          /\ StateOf(p) \in Inside(place, at.first)
      /\ place = "name" => c \in Strings \cup Closing
      /\ c \in Closing => place \in {"name", "item"}
  BY StateFound
<1>2. place \in Places \cup {"top"}
  BY FollowsDepth, PlaceIs
<1>. HIDE DEF place
<1>3. p \in Printers /\ p.out = q /\ q \in Seq(Tokens) /\ c \in Tokens
      /\ ":" \in Tokens /\ "," \in Tokens
  BY FollowsDepth DEF Follows, Tokens
<1>4. ~Refused(p, c)
  BY <1>1, <1>2 DEF Refused, Closing, Places, Inside
<1>5. ASSUME c \in Closing PROVE p.depth # 0 /\ Separator(at, c) = <<>>
  BY <1>1, <1>5 DEF Separator, Closing
<1>6. ASSUME c \notin Closing
      PROVE  \/ StateOf(p) \in {"map_key", "in_array"} /\ Separator(at, c) = <<",">>
             \/ StateOf(p) = "map_val" /\ Separator(at, c) = <<":">>
             \/ StateOf(p) \notin {"map_key", "in_array", "map_val"} /\ Separator(at, c) = <<>>
  <2>1. CASE place = "top"
    <3>1. at.places = <<>> /\ StateOf(p) = "start"
      BY <1>1, <2>1
    <3>2. Separator(at, c) = <<>>
      BY <3>1 DEF Separator, Place
    <3>. QED
      BY <3>1, <3>2
  <2>2. CASE place # "top" /\ at.first
    BY <1>1, <2>2 DEF Separator, Inside
  <2>3. CASE place # "top" /\ ~at.first
    <3>1. StateOf(p) \in Inside(place, FALSE) /\ at.places # <<>>
      BY <1>1, <2>3 DEF Inside
    <3>2. CASE place = "value"
      BY <1>6, <2>3, <3>1, <3>2 DEF Separator, Inside, Closing, place
    <3>3. CASE place # "value"
      <4>1. StateOf(p) \in {"map_key", "in_array"}
        BY <1>2, <2>3, <3>1, <3>3 DEF Inside, Places
      <4>2. Separator(at, c) = <<",">>
        BY <1>6, <2>3, <3>1, <3>3 DEF Separator, Closing, place
      <4>. QED
        BY <4>1, <4>2
    <3>. QED
      BY <3>2, <3>3
  <2>. QED
    BY <2>1, <2>2, <2>3
<1>. HIDE DEF q
<1>7. ASSUME c \in Closing PROVE Append(p.out, c) = q \o Separator(at, c) \o <<c>>
  BY <1>3, <1>5, <1>7, Lengthened
<1>8. ASSUME c \notin Closing PROVE Append(Separated(p).out, c) = q \o Separator(at, c) \o <<c>>
  <2>1. CASE StateOf(p) \in {"map_key", "in_array"} /\ Separator(at, c) = <<",">>
    <3>1. Separated(p).out = Append(q, ",")
      BY <1>3, <2>1, SeparatedIs
    <3>2. q \o <<",">> \o <<c>> = Append(Append(q, ","), c)
      BY ZenonT(60), <1>3, Lengthened
    <3>. QED
      BY <2>1, <3>1, <3>2
  <2>2. CASE StateOf(p) = "map_val" /\ Separator(at, c) = <<":">>
    <3>1. Separated(p).out = Append(q, ":")
      BY <1>3, <2>2, SeparatedIs
    <3>2. q \o <<":">> \o <<c>> = Append(Append(q, ":"), c)
      BY ZenonT(60), <1>3, Lengthened
    <3>. QED
      BY <2>2, <3>1, <3>2
  <2>3. CASE StateOf(p) \notin {"map_key", "in_array", "map_val"} /\ Separator(at, c) = <<>>
    BY <1>3, <2>3, SeparatedIs, Lengthened
  <2>. QED
    BY <1>6, <1>8, <2>1, <2>2, <2>3
<1>. QED
  BY <1>4, <1>5, <1>7, <1>8 DEF q

LEMMA GivenIs ==
  ASSUME NEW p, NEW c
  PROVE  /\ Refused(p, c) => Given(p, c) = p
         /\ ~Refused(p, c) /\ c \in Opening => Given(p, c) = Open(p, c)
         /\ ~Refused(p, c) /\ c \in Closing => Given(p, c) = Close(p, c)
         /\ ~Refused(p, c) /\ c \notin Opening \cup Closing => Given(p, c) = Atom(p, c)
<1>1. Opening = {"{", "["} /\ Closing = {"}", "]"}
  BY DEF Opening, Closing
<1>2. c \in {"{", "["} => c \notin {"}", "]"}
  OBVIOUS
<1>. QED
  BY <1>1, <1>2 DEF Given

(* The levels below the innermost container are as they were. *)
LEMMA LevelsKept ==
  ASSUME NEW at, NEW to, NEW k \in Nat, k < Len(at.places), k < Len(to.places),
         Len(at.places) \in Nat, Len(to.places) \in Nat,
         \A i \in 1 .. k : to.places[i] = at.places[i]
  PROVE  \A i \in 0 .. k : Level(to, i) = Level(at, i)
<1>1. at.places # <<>> /\ to.places # <<>>
  <2>1. Len(at.places) # 0 /\ Len(to.places) # 0
    OBVIOUS
  <2>. QED
    BY <2>1, EmptyIsSeq
<1>. SUFFICES ASSUME NEW i \in 0 .. k PROVE Level(to, i) = Level(at, i)
  OBVIOUS
<1>2. CASE i = 0
  BY <1>1, <1>2 DEF Level
<1>3. CASE i # 0
  <2>1. i \in 1 .. k /\ i < Len(at.places) /\ i < Len(to.places)
    BY <1>3
  <2>. QED
    BY <1>3, <2>1 DEF Level
<1>. QED
  BY <1>2, <1>3

(* An atom in its place. *)
LEMMA FollowsAtom ==
  ASSUME NEW p, NEW at, Follows(p, at), NEW c \in Calls, c \notin Opening \cup Closing,
         Legal(at, c), NEW q, q = Atom(p, c), NEW to, to = Written(at, c)
  PROVE  Follows(q, to)
<1>. DEFINE n == p.depth
            S == p.states
<1>1. /\ n \in Nat /\ MaxDepth \in Nat /\ n < MaxDepth /\ Len(at.places) = n
      /\ at.places \in Seq(Places) /\ p \in Printers /\ at \in Sites /\ StateOf(p) = S[n]
  BY FollowsDepth DEF Follows
<1>2. n >= 0 /\ n \in 0 .. MaxDepth - 1
  BY <1>1
<1>3. /\ q \in Printers /\ q.depth = n /\ q.out = Append(Separated(p).out, c)
      /\ q.states = StatesAfter(p, n)
  BY <1>1, <1>2, AtomIs
<1>4. q.states = [S EXCEPT ![n] = After(S[n])] /\ DOMAIN S = 0 .. MaxDepth - 1
  BY <1>1, <1>3, PartsTyped DEF StatesAfter
<1>5. /\ to \in Sites /\ to.first = FALSE /\ to.places = Moved(at.places)
      /\ to.text = at.text \o Separator(at, c) \o <<c>>
  <2>1. at \in Sites /\ ~(c \in Opening)
    BY <1>1
  <2>2. /\ to \in Sites /\ to.first = (c \in Opening) /\ to.places = Moved(at.places)
        /\ to.text = at.text \o Separator(at, c) \o <<c>>
    BY ONLY ZenonT(60), <2>1, WrittenTyped, c \in Calls, c \notin Opening \cup Closing, to = Written(at, c)
  <2>3. to.first \in BOOLEAN
    BY <2>2 DEF Sites
  <2>4. to.first = FALSE
    BY ONLY <2>1, <2>2, <2>3
  <2>. QED
    BY ONLY <2>2, <2>4
<1>6. q.out = to.text
  BY <1>3, <1>5, Accepted
<1>7. to.text # <<>>
  <2>. DEFINE o == Separated(p).out
  <2>1. o \in Seq(Tokens) /\ c \in Tokens
    BY <1>1, SeparatedIs, PartsTyped DEF Tokens
  <2>. HIDE DEF o
  <2>2. Append(o, c) # <<>>
    BY <2>1, Lengthened
  <2>. QED
    BY <1>3, <1>6, <2>2 DEF o
<1>8. /\ Len(to.places) = n /\ \A i \in 1 .. n - 1 : to.places[i] = at.places[i]
      /\ n # 0 => to.places[n] = MovedPlace(at.places[n])
  BY ZenonT(60), <1>1, <1>5, MovedIs
<1>9. \A i \in 0 .. n : S[i] \in Level(at, i)
  BY DEF Follows
<1>10. /\ Place(at.places) = "top" => n = 0 /\ StateOf(p) = "start"
       /\ Place(at.places) # "top" =>
            n # 0 /\ Place(at.places) = at.places[n] /\ StateOf(p) \in Inside(Place(at.places), at.first)
  BY StateFound
<1>. HIDE DEF n, S
<1>11. After(S[n]) \in Level(to, n)
  <2>1. CASE n = 0
    <3>1. to.places = <<>> /\ After(S[n]) = "complete"
      <4>1. to.places \in Seq(Places)
        BY <1>5 DEF Sites
      <4>. QED
        BY <1>1, <1>8, <1>10, <2>1, <4>1, EmptySeq DEF After
    <3>. QED
      BY <1>7, <2>1, <3>1 DEF Level
  <2>2. CASE n # 0
    <3>. DEFINE place == at.places[n]
    <3>1. S[n] \in Inside(place, at.first) /\ ~(n < Len(to.places))
      BY <1>1, <1>8, <1>10, <2>2
    <3>2. Level(to, n) = Inside(MovedPlace(place), FALSE)
      BY <1>5, <1>8, <2>2, <3>1 DEF Level
    <3>3. place \in Places
      BY <1>1, <1>10, <2>2, PlaceIs DEF Places
    <3>. HIDE DEF place
    <3>4. After(S[n]) \in Inside(MovedPlace(place), FALSE)
      BY <3>1, <3>3 DEF Inside, MovedPlace, After, Places
    <3>. QED
      BY <3>2, <3>4
  <2>. QED
    BY <2>1, <2>2
<1>12. \A i \in 0 .. n : q.states[i] \in Level(to, i)
  <2>. TAKE i \in 0 .. n
  <2>1. i \in 0 .. MaxDepth - 1
    BY <1>1
  <2>2. CASE i = n
    BY <1>4, <1>11, <2>1, <2>2
  <2>3. CASE i # n
    <3>1. n - 1 \in Nat /\ i \in 0 .. n - 1 /\ n - 1 < n
      BY <1>1, <2>3
    <3>2. Level(to, i) = Level(at, i)
      BY ZenonT(60), <1>1, <1>8, <3>1, LevelsKept
    <3>. QED
      BY <1>4, <1>9, <2>1, <2>3, <3>2
  <2>. QED
    BY <2>2, <2>3
<1>. QED
  BY <1>1, <1>3, <1>5, <1>6, <1>8, <1>12 DEF Follows

(* A container opened in its place, with room for it. *)
LEMMA FollowsOpen ==
  ASSUME NEW p, NEW at, Follows(p, at), NEW c \in Calls, c \in Opening,
         Legal(at, c), NEW q, q = Open(p, c), NEW to, to = Written(at, c), to.deepest < MaxDepth
  PROVE  Follows(q, to)
<1>. DEFINE n == p.depth
            S == p.states
            inner == IF c = "{" THEN "name" ELSE "item"
<1>1. /\ n \in Nat /\ MaxDepth \in Nat /\ n < MaxDepth /\ Len(at.places) = n
      /\ at.places \in Seq(Places) /\ p \in Printers /\ at \in Sites /\ StateOf(p) = S[n]
  BY FollowsDepth DEF Follows
<1>2. n >= 0 /\ c \notin Closing
  <2>1. c \notin Closing
    BY DEF Opening, Closing
  <2>2. n >= 0
    BY ONLY <1>1
  <2>. QED
    BY <2>1, <2>2
<1>3. /\ to \in Sites /\ to.first = TRUE /\ to.places = Append(Moved(at.places), inner)
      /\ to.text = at.text \o Separator(at, c) \o <<c>> /\ n + 1 <= to.deepest
  BY <1>1, WrittenTyped
<1>4. n + 1 < MaxDepth
  <2>. DEFINE d == to.deepest
  <2>1. d \in Nat /\ n + 1 <= d /\ d < MaxDepth
    BY <1>3 DEF Sites
  <2>. HIDE DEF d
  <2>2. n \in Nat /\ MaxDepth \in Nat
    BY <1>1
  <2>. QED
    BY ONLY <2>1, <2>2
<1>5. /\ q \in Printers /\ q.depth = n + 1 /\ q.out = Append(Separated(p).out, c)
      /\ q.states = [S EXCEPT ![n + 1] = Entered(c)]
  BY ZenonT(60), <1>1, <1>2, <1>4, OpenIs
<1>6. q.out = to.text
  <2>1. Append(Separated(p).out, c) = at.text \o Separator(at, c) \o <<c>>
    BY <1>2, Accepted
  <2>. QED
    BY <1>3, <1>5, <2>1
<1>7. DOMAIN S = 0 .. MaxDepth - 1
  BY <1>1, PartsTyped
<1>8. /\ Moved(at.places) \in Seq(Places) /\ Len(Moved(at.places)) = n
      /\ \A i \in 1 .. n - 1 : Moved(at.places)[i] = at.places[i]
      /\ n # 0 => Moved(at.places)[n] = MovedPlace(at.places[n])
  BY <1>1, MovedIs
<1>9. inner \in Places
  BY DEF Places
<1>10. \A i \in 0 .. n : S[i] \in Level(at, i)
  BY DEF Follows
<1>11. /\ Place(at.places) = "top" => /\ n = 0 /\ at.places = <<>> /\ at.text = <<>>
                                      /\ StateOf(p) = "start"
       /\ Place(at.places) # "top" =>
            n # 0 /\ Place(at.places) = at.places[n] /\ StateOf(p) \in Inside(Place(at.places), at.first)
       /\ Place(at.places) = "name" => c \in Strings \cup Closing
  BY StateFound
<1>. HIDE DEF n, S, inner
<1>12. /\ Len(to.places) = n + 1 /\ to.places[n + 1] = inner
       /\ \A i \in 1 .. n : to.places[i] = Moved(at.places)[i]
  <2>. DEFINE m == Moved(at.places)
  <2>1. m \in Seq(Places) /\ Len(m) = n /\ to.places = Append(m, inner)
    BY <1>3, <1>8
  <2>. HIDE DEF m
  <2>2. /\ Len(Append(m, inner)) = n + 1 /\ Append(m, inner)[n + 1] = inner
        /\ \A i \in 1 .. n : Append(m, inner)[i] = m[i]
    BY <1>9, <2>1, AppendProperties
  <2>. QED
    BY <2>1, <2>2 DEF m
<1>13. to.places # <<>>
  <2>1. n + 1 # 0
    BY <1>1
  <2>. QED
    BY <1>12, <2>1, EmptyIsSeq
<1>14. S[n] \in Level(to, n)
  <2>1. CASE n = 0
    <3>1. Place(at.places) = "top"
      BY <1>11, <2>1
    <3>. QED
      BY <1>1, <1>11, <1>13, <2>1, <3>1 DEF Level
  <2>2. CASE n # 0
    <3>. DEFINE place == at.places[n]
    <3>1. place \in Places /\ Place(at.places) = place
      BY <1>1, <2>2, PlaceIs
    <3>2. S[n] \in Inside(place, at.first)
      BY <1>1, <1>11, <3>1 DEF Places
    <3>3. place # "name"
      <4>1. c \notin Strings
        BY TokensDiffer DEF Opening
      <4>. QED
        BY <1>2, <1>11, <3>1, <4>1
    <3>4. n \in 1 .. n /\ n < n + 1
      BY <1>1, <2>2
    <3>5. Level(to, n) = Under(MovedPlace(place))
      BY <1>8, <1>12, <2>2, <3>4 DEF Level
    <3>. HIDE DEF place
    <3>6. S[n] \in Under(MovedPlace(place))
      BY <3>1, <3>2, <3>3 DEF Inside, Under, MovedPlace, Places
    <3>. QED
      BY <3>5, <3>6
  <2>. QED
    BY <2>1, <2>2
<1>15. Entered(c) \in Level(to, n + 1)
  <2>1. ~(n + 1 < Len(to.places)) /\ n + 1 # 0
    BY <1>1, <1>12
  <2>2. Level(to, n + 1) = Inside(inner, TRUE)
    BY <1>3, <1>12, <2>1 DEF Level
  <2>. QED
    BY <2>2 DEF Inside, Entered, inner
<1>16. \A i \in 0 .. n + 1 : q.states[i] \in Level(to, i)
  <2>. TAKE i \in 0 .. n + 1
  <2>1. i \in 0 .. MaxDepth - 1
    BY <1>1, <1>4
  <2>2. CASE i = n + 1
    BY <1>5, <1>7, <1>15, <2>1, <2>2
  <2>3. CASE i = n
    <3>1. n # n + 1
      BY <1>1
    <3>. QED
      BY <1>5, <1>7, <1>14, <2>1, <2>3, <3>1
  <2>4. CASE i # n + 1 /\ i # n
    <3>1. n - 1 \in Nat /\ i \in 0 .. n - 1 /\ n - 1 < n /\ n - 1 < n + 1 /\ n + 1 \in Nat
          /\ i \in 0 .. n
      BY <1>1, <2>4
    <3>2. \A j \in 1 .. n - 1 : to.places[j] = at.places[j]
      <4>. TAKE j \in 1 .. n - 1
      <4>1. j \in 1 .. n
        BY <1>1
      <4>. QED
        BY <1>8, <1>12, <4>1
    <3>3. /\ n - 1 < Len(at.places) /\ n - 1 < Len(to.places)
          /\ Len(at.places) \in Nat /\ Len(to.places) \in Nat
      BY ONLY <1>1, <1>12, <3>1
    <3>4. Level(to, i) = Level(at, i)
      BY ONLY <3>1, <3>2, <3>3, LevelsKept
    <3>5. q.states[i] = S[i]
      BY <1>5, <1>7, <2>1, <2>4
    <3>. QED
      BY <1>10, <3>1, <3>4, <3>5
  <2>. QED
    BY <2>2, <2>3, <2>4
<1>. QED
  BY <1>3, <1>4, <1>5, <1>6, <1>12, <1>16 DEF Follows

(* The innermost container closed. *)
LEMMA FollowsClose ==
  ASSUME NEW p, NEW at, Follows(p, at), NEW c \in Calls, c \in Closing,
         Legal(at, c), NEW q, q = Close(p, c), NEW to, to = Written(at, c)
  PROVE  Follows(q, to)
<1>. DEFINE n == p.depth
            S == p.states
<1>1. /\ n \in Nat /\ MaxDepth \in Nat /\ n < MaxDepth /\ Len(at.places) = n
      /\ at.places \in Seq(Places) /\ p \in Printers /\ at \in Sites /\ StateOf(p) = S[n]
  BY FollowsDepth DEF Follows
<1>2. n # 0 /\ Append(p.out, c) = at.text \o Separator(at, c) \o <<c>> /\ at.places # <<>>
  <2>1. n # 0 /\ Append(p.out, c) = at.text \o Separator(at, c) \o <<c>>
    BY Accepted
  <2>. QED
    BY <1>1, <2>1, EmptyIsSeq
<1>3. n > 0 /\ n - 1 \in Nat /\ n - 1 < MaxDepth /\ n - 1 \in 0 .. MaxDepth - 1
  BY ONLY <1>1, <1>2
<1>4. /\ q \in Printers /\ q.depth = n - 1 /\ q.out = Append(p.out, c)
      /\ q.states = StatesAfter(p, n - 1)
  BY <1>1, <1>3, CloseIs
<1>5. q.states = [S EXCEPT ![n - 1] = After(S[n - 1])] /\ DOMAIN S = 0 .. MaxDepth - 1
  BY <1>1, <1>3, <1>4, PartsTyped DEF StatesAfter
<1>6. /\ to \in Sites /\ to.first = FALSE /\ to.places = Front(at.places)
      /\ to.text = at.text \o Separator(at, c) \o <<c>>
  <2>1. at \in Sites /\ ~(c \in Opening)
    BY <1>1 DEF Opening, Closing
  <2>2. /\ to \in Sites /\ to.first = (c \in Opening)
        /\ to.places = (IF at.places = <<>> THEN <<>> ELSE Front(at.places))
        /\ to.text = at.text \o Separator(at, c) \o <<c>>
    BY ONLY ZenonT(60), <2>1, WrittenTyped, c \in Calls, c \in Closing, to = Written(at, c)
  <2>3. to.first \in BOOLEAN
    BY <2>2 DEF Sites
  <2>4. to.first = FALSE
    BY ONLY <2>1, <2>2, <2>3
  <2>. QED
    BY ONLY <1>2, <2>2, <2>4
<1>7. q.out = to.text
  BY <1>2, <1>4, <1>6
<1>8. to.text # <<>>
  <2>1. at.text \in Seq(Tokens) /\ c \in Tokens /\ p.out = at.text
    BY <1>1, FollowsDepth DEF Tokens, Follows
  <2>2. Append(p.out, c) # <<>>
    BY <2>1, Lengthened
  <2>. QED
    BY <1>4, <1>7, <2>2
<1>9. /\ Len(to.places) = n - 1 /\ \A i \in 1 .. n - 1 : to.places[i] = at.places[i]
  <2>. DEFINE places == at.places
  <2>1. places \in Seq(Places) /\ Len(places) = n /\ Len(places) # 0 /\ to.places = Front(places)
    BY <1>1, <1>2, <1>6
  <2>. HIDE DEF places, n
  <2>2. /\ Len(Front(places)) = Len(places) - 1
        /\ \A i \in 1 .. Len(places) - 1 : Front(places)[i] = places[i]
    BY <2>1, FrontIs
  <2>. QED
    BY <2>1, <2>2 DEF places
<1>10. \A i \in 0 .. n : S[i] \in Level(at, i)
  BY DEF Follows
<1>. HIDE DEF n, S
<1>11. After(S[n - 1]) \in Level(to, n - 1)
  <2>1. n - 1 \in 0 .. n /\ n - 1 < n
    BY ONLY <1>1, <1>2
  <2>2. CASE n - 1 = 0
    <3>1. to.places = <<>>
      <4>1. to.places \in Seq(Places)
        BY <1>6 DEF Sites
      <4>. QED
        BY <1>9, <2>2, <4>1, EmptySeq
    <3>2. S[0] \in Level(at, 0)
      BY <1>10, <2>1, <2>2
    <3>3. S[0] = "start"
      BY <1>2, <3>2 DEF Level
    <3>. QED
      BY <1>8, <2>2, <3>1, <3>3 DEF Level, After
  <2>3. CASE n - 1 # 0
    <3>. DEFINE place == at.places[n - 1]
    <3>1. n - 1 \in 1 .. n - 1 /\ n - 1 \in 1 .. Len(at.places) /\ n - 1 < Len(at.places)
          /\ ~(n - 1 < n - 1)
      BY ONLY <1>1, <1>3, <2>3
    <3>2. S[n - 1] \in Level(at, n - 1)
      BY <1>10, <2>1
    <3>3. S[n - 1] \in Under(place)
      BY <2>3, <3>1, <3>2 DEF Level
    <3>4. Level(to, n - 1) = Inside(place, FALSE)
      BY <1>6, <1>9, <2>3, <3>1 DEF Level
    <3>5. place \in Places
      BY <1>1, <3>1, ElementOfSeq
    <3>. HIDE DEF place
    <3>6. After(S[n - 1]) \in Inside(place, FALSE)
      BY <3>3, <3>5 DEF Inside, Under, After, Places
    <3>. QED
      BY <3>4, <3>6
  <2>. QED
    BY <2>2, <2>3
<1>12. \A i \in 0 .. n - 1 : q.states[i] \in Level(to, i)
  <2>. TAKE i \in 0 .. n - 1
  <2>1. i \in 0 .. MaxDepth - 1 /\ i \in 0 .. n
    BY <1>1
  <2>2. CASE i = n - 1
    BY <1>5, <1>11, <2>1, <2>2
  <2>3. CASE i # n - 1
    <3>1. n - 2 \in Nat /\ i \in 0 .. n - 2 /\ n - 2 < n - 1 /\ n - 2 < n
      BY <1>1, <2>3
    <3>2. \A j \in 1 .. n - 2 : to.places[j] = at.places[j]
      <4>. TAKE j \in 1 .. n - 2
      <4>1. j \in 1 .. n - 1
        BY <1>1
      <4>. QED
        BY <1>9, <4>1
    <3>3. Level(to, i) = Level(at, i)
      BY ZenonT(60), <1>1, <1>3, <1>9, <3>1, <3>2, LevelsKept
    <3>. QED
      BY <1>5, <1>10, <2>1, <2>3, <3>3
  <2>. QED
    BY <2>2, <2>3
<1>. QED
  BY <1>3, <1>4, <1>6, <1>7, <1>9, <1>12 DEF Follows

(* A legal call, with room for the container it opens. *)
LEMMA FollowsGiven ==
  ASSUME NEW p, NEW at, Follows(p, at), NEW c \in Calls,
         Written(at, c).legal, Written(at, c).deepest < MaxDepth
  PROVE  Follows(Given(p, c), Written(at, c))
<1>1. Legal(at, c)
  <2>1. at \in Sites
    BY DEF Follows
  <2>. QED
    BY <2>1, WrittenTyped
<1>2. ~Refused(p, c)
  BY <1>1, Accepted
<1>3. CASE c \in Opening
  <2>1. Given(p, c) = Open(p, c)
    BY <1>2, <1>3, GivenIs
  <2>. QED
    BY <1>1, <1>3, <2>1, FollowsOpen
<1>4. CASE c \in Closing
  <2>1. Given(p, c) = Close(p, c)
    BY <1>2, <1>4, GivenIs
  <2>. QED
    BY <1>1, <1>4, <2>1, FollowsClose
<1>5. CASE c \notin Opening \cup Closing
  <2>1. Given(p, c) = Atom(p, c)
    BY <1>2, <1>5, GivenIs
  <2>. QED
    BY <1>1, <1>5, <2>1, FollowsAtom
<1>. QED
  BY <1>3, <1>4, <1>5

-------------------------------------------------------------------------------
(* What calls there are. *)

LEMMA CountAppend ==
  ASSUME NEW S, NEW s, IsSeq(s), NEW c
  PROVE  /\ Count(S, s) \in Nat /\ Count(S, s) <= Len(s)
         /\ Count(S, Append(s, c)) = Count(S, s) + (IF c \in S THEN 1 ELSE 0)
<1>. DEFINE D == {i \in DOMAIN s : s[i] \in S}
            r == Append(s, c)
            E == {i \in DOMAIN r : r[i] \in S}
            m == Len(s)
<1>1. m \in Nat /\ DOMAIN s = 1 .. m
  BY SeqFacts
<1>2. IsSeq(r) /\ Len(r) = m + 1 /\ r[m + 1] = c /\ \A i \in 1 .. m : r[i] = s[i]
  BY AppendFacts
<1>. HIDE DEF r
<1>3. DOMAIN r = 1 .. m + 1
  BY <1>2, SeqFacts
<1>4. 1 .. m + 1 = (1 .. m) \cup {m + 1} /\ m + 1 \notin 1 .. m
  BY <1>1
<1>5. E = IF c \in S THEN D \cup {m + 1} ELSE D
  BY <1>1, <1>2, <1>3, <1>4
<1>6. IsFiniteSet(1 .. m) /\ Cardinality(1 .. m) = m
  <2>. HIDE DEF m
  <2>1. 1 \in Int /\ m \in Int
    BY <1>1
  <2>. QED
    BY <1>1, <2>1, FS_Interval
<1>7. D \subseteq 1 .. m
  BY <1>1
<1>8. IsFiniteSet(D) /\ Cardinality(D) <= m
  BY <1>6, <1>7, FS_Subset
<1>9. Cardinality(D) \in Nat
  BY <1>8, FS_CardinalityType
<1>10. m + 1 \notin D
  BY <1>4, <1>7
<1>11. Count(S, s) = Cardinality(D) /\ Count(S, r) = Cardinality(E)
  BY DEF Count
<1>. HIDE DEF D, E
<1>12. Cardinality(D \cup {m + 1}) = Cardinality(D) + 1
  BY <1>8, <1>10, FS_AddElement
<1>13. Cardinality(E) = Cardinality(D) + (IF c \in S THEN 1 ELSE 0)
  BY <1>5, <1>9, <1>12
<1>. QED
  BY <1>8, <1>9, <1>11, <1>13 DEF m, r

LEMMA CountEmpty ==
  ASSUME NEW S
  PROVE  Count(S, <<>>) = 0
<1>1. {i \in DOMAIN <<>> : <<>>[i] \in S} = {}
  BY EmptyIsSeq, SeqFacts
<1>. QED
  BY <1>1, FS_EmptySet DEF Count

-------------------------------------------------------------------------------
(* A printer that has been given some calls. *)

Printing(p) == p \in Printers /\ p.depth >= 0 /\ p.states[0] \in {"start", "complete"}

Balanced(p) == p.depth = Count(Opening, p.out) - Count(Closing, p.out)

(* A call that closes finds something open, or is refused. *)
Guarded(p, c) == c \in Closing => p.depth > 0 \/ StateOf(p) = "complete"

LEMMA StatesAfterFirst ==
  ASSUME NEW p, Printing(p), NEW d \in Nat
  PROVE  StatesAfter(p, d)[0] \in {"start", "complete"}
<1>. DEFINE S == p.states
<1>1. 0 \in 0 .. MaxDepth - 1
  BY BoundsTyped
<1>2. DOMAIN S = 0 .. MaxDepth - 1 /\ S[0] \in {"start", "complete"}
  BY PartsTyped DEF Printing
<1>3. After(S[0]) = "complete"
  BY <1>2 DEF After
<1>. HIDE DEF S
<1>4. StatesAfter(p, d) = IF d < MaxDepth THEN [S EXCEPT ![d] = After(S[d])] ELSE S
  BY DEF StatesAfter, S
<1>5. CASE d = 0
  BY <1>1, <1>2, <1>3, <1>4, <1>5
<1>6. CASE d # 0
  BY <1>1, <1>2, <1>4, <1>6
<1>. QED
  BY <1>5, <1>6

(* A token more, and what it opens and closes. *)
LEMMA TokenCounts ==
  ASSUME NEW q \in Seq(Tokens), NEW c \in Tokens
  PROVE  /\ Count(Opening, q) \in Nat /\ Count(Closing, q) \in Nat
         /\ Count(Opening, Append(q, c)) = Count(Opening, q) + (IF c \in Opening THEN 1 ELSE 0)
         /\ Count(Closing, Append(q, c)) = Count(Closing, q) + (IF c \in Closing THEN 1 ELSE 0)
<1>1. IsSeq(q)
  BY DEF IsSeq
<1>. QED
  BY <1>1, CountAppend

LEMMA SeparatedCounts ==
  ASSUME NEW p \in Printers
  PROVE  /\ Separated(p).out \in Seq(Tokens)
         /\ Count(Opening, Separated(p).out) = Count(Opening, p.out)
         /\ Count(Closing, Separated(p).out) = Count(Closing, p.out)
<1>. DEFINE q == p.out
            r == Separated(p).out
<1>1. q \in Seq(Tokens) /\ r \in Seq(Tokens)
  BY SeparatedIs, PartsTyped
<1>2. r = q \/ r = Append(q, ",") \/ r = Append(q, ":")
  BY SeparatedIs
<1>. HIDE DEF q, r
<1>3. ASSUME NEW c \in Tokens, c \notin Opening, c \notin Closing
      PROVE  /\ Count(Opening, Append(q, c)) = Count(Opening, q)
             /\ Count(Closing, Append(q, c)) = Count(Closing, q)
  <2>. DEFINE x == Count(Opening, q)
              y == Count(Closing, q)
  <2>1. /\ x \in Nat /\ y \in Nat
        /\ Count(Opening, Append(q, c)) = x + 0 /\ Count(Closing, Append(q, c)) = y + 0
    BY <1>1, <1>3, TokenCounts
  <2>. HIDE DEF x, y
  <2>2. x + 0 = x /\ y + 0 = y
    BY ONLY <2>1
  <2>. QED
    BY <2>1, <2>2 DEF x, y
<1>4. "," \in Tokens /\ "," \notin Opening /\ "," \notin Closing
  BY DEF Tokens, Opening, Closing
<1>5. ":" \in Tokens /\ ":" \notin Opening /\ ":" \notin Closing
  BY DEF Tokens, Opening, Closing
<1>6. Count(Opening, r) = Count(Opening, q) /\ Count(Closing, r) = Count(Closing, q)
  <2>1. CASE r = q
    BY <2>1
  <2>2. CASE r = Append(q, ",")
    BY <1>3, <1>4, <2>2, Zenon
  <2>3. CASE r = Append(q, ":")
    BY <1>3, <1>5, <2>3, Zenon
  <2>. QED
    BY <1>2, <2>1, <2>2, <2>3
<1>. QED
  BY <1>1, <1>6 DEF q, r

(* A call takes a printer to a printer: it opens at most one container more,
   and the brackets it prints are those it counts, where there is room. *)
LEMMA GivenPrints ==
  ASSUME NEW p, Printing(p), NEW c \in Calls, Guarded(p, c), NEW q, q = Given(p, c)
  PROVE  /\ Printing(q)
         /\ q.depth <= p.depth + (IF c \in Opening THEN 1 ELSE 0)
         /\ Balanced(p) /\ (c \in Opening => p.depth + 1 < MaxDepth) => Balanced(q)
<1>. DEFINE d == p.depth
            o == p.out
            s == Separated(p).out
<1>1. p \in Printers /\ d \in Int /\ d >= 0 /\ d \in Nat /\ o \in Seq(Tokens) /\ c \in Tokens
  <2>1. p \in Printers /\ d >= 0 /\ c \in Tokens
    BY DEF Printing, Tokens
  <2>2. d \in Int /\ o \in Seq(Tokens)
    BY <2>1, PartsTyped
  <2>3. d \in Nat
    BY ONLY <2>1, <2>2
  <2>. QED
    BY <2>1, <2>2, <2>3
<1>2. /\ s \in Seq(Tokens) /\ Count(Opening, s) = Count(Opening, o)
      /\ Count(Closing, s) = Count(Closing, o)
  BY <1>1, SeparatedCounts
<1>3. Count(Opening, o) \in Nat /\ Count(Closing, o) \in Nat
  BY <1>1, TokenCounts
<1>4. MaxDepth \in Nat /\ MaxDepth # 0
  BY BoundsTyped
<1>5. CASE Refused(p, c)
  <2>1. q = p
    BY <1>5, GivenIs
  <2>2. d <= d + (IF c \in Opening THEN 1 ELSE 0)
    <3>. HIDE DEF d
    <3>. QED
      BY <1>1
  <2>. QED
    BY <2>1, <2>2
<1>6. CASE ~Refused(p, c) /\ c \in Opening
  <2>1. q = Open(p, c) /\ c \notin Closing
    BY <1>6, GivenIs DEF Opening, Closing
  <2>2. /\ q \in Printers /\ q.depth = d + 1
        /\ d + 1 < MaxDepth =>
             q.states = [p.states EXCEPT ![d + 1] = Entered(c)] /\ q.out = Append(s, c)
        /\ ~(d + 1 < MaxDepth) => q.states = p.states /\ q.out = s
    BY <1>1, <2>1, OpenIs
  <2>3. q.states[0] \in {"start", "complete"}
    <3>1. DOMAIN p.states = 0 .. MaxDepth - 1 /\ p.states[0] \in {"start", "complete"}
      BY PartsTyped DEF Printing
    <3>2. 0 \in 0 .. MaxDepth - 1 /\ d + 1 # 0
      BY ONLY <1>1, <1>4
    <3>. QED
      BY <2>2, <3>1, <3>2
  <2>4. q.depth >= 0 /\ q.depth <= d + 1
    <3>. HIDE DEF d
    <3>. QED
      BY <1>1, <2>2
  <2>5. ASSUME Balanced(p), d + 1 < MaxDepth PROVE Balanced(q)
    <3>1. q.out = Append(s, c)
      BY <2>2, <2>5
    <3>2. /\ Count(Opening, q.out) = Count(Opening, o) + 1
          /\ Count(Closing, q.out) = Count(Closing, o)
      <4>1. Count(Closing, o) + 0 = Count(Closing, o)
        BY ONLY <1>3
      <4>. QED
        BY <1>1, <1>2, <1>6, <2>1, <3>1, <4>1, TokenCounts
    <3>3. d = Count(Opening, o) - Count(Closing, o)
      BY <2>5 DEF Balanced
    <3>. HIDE DEF d, o
    <3>4. q.depth = Count(Opening, q.out) - Count(Closing, q.out)
      BY ONLY <1>1, <1>3, <2>2, <3>2, <3>3
    <3>. QED
      BY <3>4 DEF Balanced
  <2>. QED
    BY <1>6, <2>2, <2>3, <2>4, <2>5 DEF Printing
<1>7. CASE ~Refused(p, c) /\ c \in Closing
  <2>1. q = Close(p, c) /\ c \notin Opening
    BY <1>7, GivenIs DEF Opening, Closing
  <2>2. d > 0
    BY <1>7 DEF Guarded, Refused
  <2>3. d - 1 \in Nat /\ d - 1 >= 0 /\ d - 1 <= d /\ d + 0 = d
    BY ONLY <1>1, <2>2
  <2>4. /\ q \in Printers /\ q.depth = d - 1 /\ q.out = Append(o, c)
        /\ q.states = StatesAfter(p, d - 1)
    BY <1>1, <2>1, <2>2, CloseIs
  <2>5. q.states[0] \in {"start", "complete"}
    BY <2>3, <2>4, StatesAfterFirst
  <2>6. ASSUME Balanced(p) PROVE Balanced(q)
    <3>1. /\ Count(Opening, q.out) = Count(Opening, o)
          /\ Count(Closing, q.out) = Count(Closing, o) + 1
      <4>1. Count(Opening, o) + 0 = Count(Opening, o)
        BY ONLY <1>3
      <4>. QED
        BY <1>1, <1>7, <2>1, <2>4, <4>1, TokenCounts
    <3>2. d = Count(Opening, o) - Count(Closing, o)
      BY <2>6 DEF Balanced
    <3>. HIDE DEF d, o
    <3>3. q.depth = Count(Opening, q.out) - Count(Closing, q.out)
      BY ONLY <1>1, <1>3, <2>4, <3>1, <3>2
    <3>. QED
      BY <3>3 DEF Balanced
  <2>. QED
    BY <2>1, <2>3, <2>4, <2>5, <2>6 DEF Printing
<1>8. CASE ~Refused(p, c) /\ c \notin Opening \cup Closing
  <2>1. q = Atom(p, c) /\ c \notin Opening /\ c \notin Closing
    BY <1>8, GivenIs
  <2>2. /\ q \in Printers /\ q.depth = d /\ q.out = Append(s, c) /\ q.states = StatesAfter(p, d)
    BY <1>1, <2>1, AtomIs
  <2>3. q.states[0] \in {"start", "complete"}
    BY <1>1, <2>2, StatesAfterFirst
  <2>4. d <= d + 0
    BY ONLY <1>1
  <2>5. ASSUME Balanced(p) PROVE Balanced(q)
    <3>1. /\ Count(Opening, q.out) = Count(Opening, o)
          /\ Count(Closing, q.out) = Count(Closing, o)
      <4>1. Count(Opening, o) + 0 = Count(Opening, o) /\ Count(Closing, o) + 0 = Count(Closing, o)
        BY ONLY <1>3
      <4>. QED
        BY <1>1, <1>2, <2>1, <2>2, <4>1, TokenCounts
    <3>. QED
      BY <2>2, <2>5, <3>1 DEF Balanced
  <2>. QED
    BY <1>1, <2>1, <2>2, <2>3, <2>4, <2>5 DEF Printing
<1>. QED
  BY <1>5, <1>6, <1>7, <1>8

-------------------------------------------------------------------------------
(* The inductive invariant: the printer is what the calls have made of it.   *)

Regular(at) == at.legal /\ Within(at)

Made(p, s) ==
  /\ Printing(p) /\ s \in Seq(Calls) /\ Read(s) \in Sites
  /\ p.depth <= Count(Opening, s)
  /\ Regular(Read(s)) => Follows(p, Read(s))
  /\ Count(Opening, s) < MaxDepth => Balanced(p)

IInv ==
  /\ calls \in Seq(Calls) /\ Len(calls) <= MaxCalls + 1 /\ Read(calls) \in Sites
  /\ stream # NULL =>
       /\ stream = [opened |-> stream.opened, printer |-> stream.printer]
       /\ stream.opened \in {"none", "object", "array"}
       /\ Made(stream.printer, calls) /\ Len(calls) <= MaxCalls
       /\ result = NULL
  /\ source = NULL /\ result # NULL /\ Regular(Read(calls)) => result.text = Read(calls).text

(* What is read is a place, and once it is not regular, it stays so. *)
LEMMA ReadOn ==
  ASSUME NEW s \in Seq(Calls), Read(s) \in Sites, NEW c \in Calls
  PROVE  /\ Append(s, c) \in Seq(Calls) /\ Read(Append(s, c)) \in Sites
         /\ Read(Append(s, c)) = Written(Read(s), c)
         /\ Regular(Read(Append(s, c))) => Regular(Read(s))
<1>. DEFINE at == Read(s)
            to == Written(at, c)
<1>1. Append(s, c) \in Seq(Calls)
  BY AppendProperties
<1>2. Read(Append(s, c)) = to
  BY ReadAppend DEF IsSeq
<1>3. at \in Sites
  OBVIOUS
<1>4. to = Written(at, c)
  OBVIOUS
<1>. HIDE DEF at, to
<1>5. to \in Sites /\ to.legal = (at.legal /\ Legal(at, c)) /\ at.deepest <= to.deepest
  BY <1>3, <1>4, WrittenTyped
<1>6. Regular(to) => Regular(at)
  <2>1. SUFFICES ASSUME Regular(to) PROVE Regular(at)
    OBVIOUS
  <2>2. at.legal
    BY <1>5, <2>1 DEF Regular
  <2>. DEFINE m == at.deepest
              n == to.deepest
  <2>3. m \in Nat /\ n \in Nat /\ m <= n /\ n < MaxDepth
    BY <1>3, <1>5, <2>1 DEF Regular, Within, Sites
  <2>. HIDE DEF m, n
  <2>4. m < MaxDepth
    BY <2>3, BoundsTyped
  <2>. QED
    BY <2>2, <2>4 DEF Regular, Within, m
<1>. QED
  BY <1>1, <1>2, <1>4, <1>5, <1>6 DEF at, to

LEMMA MadeOfNone == Made(Printer, <<>>)
<1>1. Printing(Printer) /\ Printer.depth = 0 /\ Printer.out = <<>>
  <2>1. Printer.depth = 0 /\ Printer.out = <<>>
    BY DEF Printer
  <2>2. 0 \in 0 .. MaxDepth - 1
    BY BoundsTyped
  <2>3. Printer.states[0] = "start"
    BY <2>2 DEF Printer
  <2>. QED
    BY <2>1, <2>3, PrinterTyped DEF Printing
<1>2. <<>> \in Seq(Calls) /\ Read(<<>>) \in Sites
  BY EmptySeq, ReadEmpty, BeginningTyped
<1>3. Follows(Printer, Read(<<>>))
  BY ReadEmpty, PrinterFollows
<1>4. Count(Opening, <<>>) = 0 /\ Count(Closing, <<>>) = 0
  BY CountEmpty
<1>. QED
  BY <1>1, <1>2, <1>3, <1>4 DEF Made, Balanced

(* A call more. *)
LEMMA MadeOfOneMore ==
  ASSUME NEW p, NEW s, Made(p, s), NEW c \in Calls, Guarded(p, c)
  PROVE  Made(Given(p, c), Append(s, c))
<1>. DEFINE q == Given(p, c)
            r == Append(s, c)
            j == IF c \in Opening THEN 1 ELSE 0
            k == Count(Opening, s)
<1>1. Printing(p) /\ s \in Seq(Calls) /\ Read(s) \in Sites
  BY DEF Made
<1>2. /\ r \in Seq(Calls) /\ Read(r) \in Sites /\ Read(r) = Written(Read(s), c)
      /\ Regular(Read(r)) => Regular(Read(s))
  BY <1>1, ReadOn
<1>3. /\ Printing(q) /\ q.depth <= p.depth + j
      /\ Balanced(p) /\ (c \in Opening => p.depth + 1 < MaxDepth) => Balanced(q)
  BY <1>1, GivenPrints
<1>4. k \in Nat /\ Count(Opening, r) = k + j
  BY <1>1, CountAppend DEF IsSeq
<1>5. p.depth \in Int /\ q.depth \in Int /\ p.depth <= k
  BY <1>1, <1>3, PartsTyped DEF Made, Printing
<1>6. j \in {0, 1} /\ (c \in Opening => j = 1)
  OBVIOUS
<1>7. MaxDepth \in Nat
  BY BoundsTyped
<1>8. Regular(Read(r)) => Follows(q, Read(r))
  <2>1. SUFFICES ASSUME Regular(Read(r)) PROVE Follows(q, Read(r))
    OBVIOUS
  <2>2. Follows(p, Read(s))
    BY <1>2, <2>1 DEF Made
  <2>3. Written(Read(s), c).legal /\ Written(Read(s), c).deepest < MaxDepth
    BY <1>2, <2>1 DEF Regular, Within
  <2>. QED
    BY <1>2, <2>2, <2>3, FollowsGiven
<1>9. k < MaxDepth => Balanced(p)
  BY DEF Made
<1>. HIDE DEF q, r, j, k
<1>10. q.depth <= k + j
  BY ONLY <1>3, <1>4, <1>5, <1>6
<1>11. ASSUME k + j < MaxDepth PROVE Balanced(q)
  <2>1. k < MaxDepth
    BY ONLY <1>4, <1>6, <1>7, <1>11
  <2>2. c \in Opening => p.depth + 1 < MaxDepth
    BY ONLY <1>4, <1>5, <1>6, <1>7, <1>11
  <2>. QED
    BY <1>3, <1>9, <2>1, <2>2
<1>. QED
  BY <1>2, <1>3, <1>4, <1>8, <1>10, <1>11 DEF Made, q, r

-------------------------------------------------------------------------------
(* Every step keeps the invariant. *)

LEMMA Initial ==
  ASSUME Init
  PROVE  IInv
<1>1. <<>> \in Seq(Calls) /\ Len(<<>>) = 0 /\ Read(<<>>) \in Sites
  BY EmptySeq, ReadEmpty, BeginningTyped
<1>2. 0 <= MaxCalls + 1
  BY BoundsTyped
<1>. QED
  BY <1>1, <1>2 DEF Init, IInv

LEMMA JStreamKeeps ==
  ASSUME IInv, NEW opened \in {"none", "object", "array"}, JStream(opened)
  PROVE  IInv'
<1>. DEFINE p == stream'.printer
<1>1. 0 <= MaxCalls /\ 1 <= MaxCalls /\ 0 <= MaxCalls + 1 /\ 1 <= MaxCalls + 1
  BY BoundsTyped
<1>2. /\ stream' = [opened |-> opened, printer |-> p]
      /\ p = IF opened = "none" THEN Printer ELSE Given(Printer, Top(opened))
      /\ result' = NULL
  BY DEF JStream
<1>3. Made(p, calls') /\ Len(calls') <= MaxCalls /\ Len(calls') <= MaxCalls + 1
  <2>1. CASE opened = "none"
    <3>1. calls' = <<>> /\ Len(<<>>) = 0
      BY <2>1, EmptyIsSeq DEF JStream
    <3>. QED
      BY <1>1, <1>2, <2>1, <3>1, MadeOfNone
  <2>2. CASE opened # "none"
    <3>. DEFINE c == Top(opened)
    <3>1. c \in Calls /\ Guarded(Printer, c)
      BY <2>2 DEF Top, Calls, Guarded, Closing
    <3>2. calls' = <<c>> /\ p = Given(Printer, c)
      BY <1>2, <2>2 DEF JStream
    <3>. HIDE DEF c, p
    <3>3. Append(<<>>, c) = <<c>> /\ Len(<<c>>) = 1
      OBVIOUS
    <3>4. Made(Given(Printer, c), Append(<<>>, c))
      BY <3>1, MadeOfNone, MadeOfOneMore
    <3>. QED
      BY <1>1, <3>2, <3>3, <3>4
  <2>. QED
    BY <2>1, <2>2
<1>. HIDE DEF p
<1>4. stream'.opened = opened /\ stream'.printer = p
  BY <1>2
<1>5. calls' \in Seq(Calls) /\ Read(calls)' \in Sites
  BY <1>3 DEF Made
<1>6. stream' = [opened |-> stream'.opened, printer |-> stream'.printer]
  BY <1>2, <1>4
<1>7. Made(stream'.printer, calls')
  BY <1>3, <1>4
<1>. QED
  BY <1>2, <1>3, <1>4, <1>5, <1>6, <1>7 DEF IInv

LEMMA CallKeeps ==
  ASSUME IInv, NEW c \in Calls, Call(c)
  PROVE  IInv'
<1>. DEFINE p == stream.printer
<1>1. /\ stream = [opened |-> stream.opened, printer |-> p]
      /\ stream.opened \in {"none", "object", "array"}
      /\ Made(p, calls) /\ result = NULL
  BY DEF IInv, Call
<1>2. Guarded(p, c)
  BY DEF Call, Guarded, Closing
<1>3. /\ stream' = [stream EXCEPT !.printer = Given(p, c)] /\ calls' = Append(calls, c)
      /\ result' = NULL /\ Len(calls) < MaxCalls
  BY <1>1 DEF Call
<1>4. Made(Given(p, c), calls')
  BY <1>1, <1>2, <1>3, MadeOfOneMore
<1>5. Len(calls') <= MaxCalls /\ Len(calls') <= MaxCalls + 1
  <2>1. calls \in Seq(Calls)
    BY DEF IInv
  <2>2. Len(calls') = Len(calls) + 1 /\ Len(calls) \in Nat
    BY <1>3, <2>1, AppendProperties, LenProperties
  <2>. QED
    BY <1>3, <2>2, BoundsTyped
<1>. HIDE DEF p
<1>6. stream' = [opened |-> stream.opened, printer |-> Given(p, c)]
  BY <1>1, <1>3
<1>7. stream'.opened = stream.opened /\ stream'.printer = Given(p, c)
  BY <1>6
<1>8. calls' \in Seq(Calls) /\ Read(calls)' \in Sites
  BY <1>4 DEF Made
<1>9. stream' = [opened |-> stream'.opened, printer |-> stream'.printer]
  BY <1>6, <1>7
<1>10. Made(stream'.printer, calls')
  BY <1>4, <1>7
<1>11. stream'.opened \in {"none", "object", "array"}
  BY <1>1, <1>7
<1>. QED
  BY <1>3, <1>5, <1>8, <1>9, <1>10, <1>11 DEF IInv

LEMMA FinishKeeps ==
  ASSUME IInv, Finish
  PROVE  IInv'
<1>. DEFINE p == stream.printer
            c == Bottom(stream.opened)
            out == IF stream.opened = "none" THEN p ELSE Given(p, c)
<1>1. /\ stream.opened \in {"none", "object", "array"} /\ Made(p, calls)
      /\ calls \in Seq(Calls) /\ Len(calls) <= MaxCalls /\ Read(calls) \in Sites
  BY DEF IInv, Finish
<1>2. /\ result' = [text |-> out.out, status |-> "GEN_OK"] /\ stream' = NULL
      /\ calls' = IF stream.opened = "none" \/ StateOf(p) = "complete" THEN calls ELSE Append(calls, c)
  BY DEF Finish, Finished
<1>3. result'.text = out.out
  BY <1>2
<1>4. Len(calls) \in Nat
  BY <1>1, LenProperties
<1>5. CASE stream.opened = "none" \/ StateOf(p) = "complete"
  <2>1. calls' = calls
    BY <1>2, <1>5
  <2>2. out = p
    <3>1. StateOf(p) = "complete" => Given(p, c) = p
      BY GivenIs DEF Refused
    <3>. QED
      BY <1>5, <3>1
  <2>3. Regular(Read(calls)) => p.out = Read(calls).text
    BY <1>1 DEF Made, Follows
  <2>4. Len(calls) <= MaxCalls + 1
    BY <1>1, <1>4, BoundsTyped
  <2>5. Read(calls)' = Read(calls)
    BY <2>1
  <2>6. Regular(Read(calls))' => result'.text = Read(calls)'.text
    BY <1>3, <2>2, <2>3, <2>5
  <2>. HIDE DEF p, out
  <2>. QED
    BY <1>1, <1>2, <2>1, <2>4, <2>5, <2>6 DEF IInv
<1>6. CASE ~(stream.opened = "none" \/ StateOf(p) = "complete")
  <2>1. calls' = Append(calls, c) /\ out = Given(p, c)
    BY <1>2, <1>6
  <2>2. c \in Calls
    BY <1>1, <1>6 DEF Bottom, Calls
  <2>. HIDE DEF c
  <2>3. /\ calls' \in Seq(Calls) /\ Read(calls') \in Sites /\ Read(calls') = Written(Read(calls), c)
        /\ Regular(Read(calls')) => Regular(Read(calls))
    BY <1>1, <2>1, <2>2, ReadOn
  <2>4. Regular(Read(calls')) => out.out = Read(calls').text
    <3>1. SUFFICES ASSUME Regular(Read(calls')) PROVE out.out = Read(calls').text
      OBVIOUS
    <3>2. Follows(p, Read(calls))
      BY <1>1, <2>3, <3>1 DEF Made
    <3>3. Written(Read(calls), c).legal /\ Written(Read(calls), c).deepest < MaxDepth
      BY <2>3, <3>1 DEF Regular, Within
    <3>4. Follows(out, Read(calls'))
      BY <2>1, <2>2, <2>3, <3>2, <3>3, FollowsGiven
    <3>. QED
      BY <3>4 DEF Follows
  <2>5. Len(calls') <= MaxCalls + 1
    <3>1. Len(calls') = Len(calls) + 1
      BY <1>1, <2>1, <2>2, AppendProperties
    <3>. QED
      BY <1>1, <1>4, <3>1, BoundsTyped
  <2>. HIDE DEF p, out
  <2>. QED
    BY <1>2, <1>3, <2>3, <2>4, <2>5 DEF IInv
<1>. QED
  BY <1>5, <1>6

LEMMA JvalueToStringKeeps ==
  ASSUME IInv, NEW v \in Values, NEW schema \in BOOLEAN, JvalueToString(v, schema)
  PROVE  IInv'
<1>1. <<>> \in Seq(Calls) /\ Len(<<>>) = 0 /\ Read(<<>>) \in Sites /\ calls' = <<>>
  BY EmptySeq, ReadEmpty, BeginningTyped DEF JvalueToString
<1>2. 0 <= MaxCalls + 1
  BY BoundsTyped
<1>3. stream' = NULL
  BY DEF JvalueToString
<1>4. source' # NULL \/ result' = NULL
  BY GeneratorConstants DEF JvalueToString
<1>. QED
  BY <1>1, <1>2, <1>3, <1>4 DEF IInv

LEMMA Inductive ==
  ASSUME IInv, [Next]_vars
  PROVE  IInv'
<1>1. CASE Next
  <2>1. CASE \E opened \in {"none", "object", "array"} : JStream(opened)
    BY <2>1, JStreamKeeps
  <2>2. CASE \E c \in Calls : Call(c)
    BY <2>2, CallKeeps
  <2>3. CASE Finish
    BY <2>3, FinishKeeps
  <2>4. CASE \E v \in Values, schema \in BOOLEAN : JvalueToString(v, schema)
    BY <2>4, JvalueToStringKeeps
  <2>. QED
    BY <1>1, <2>1, <2>2, <2>3, <2>4 DEF Next
<1>2. CASE UNCHANGED vars
  BY <1>2 DEF vars, IInv
<1>. QED
  BY <1>1, <1>2

(* The printer is what the calls of the stream have made of it. *)
THEOREM Invariance == Spec => []IInv
<1>1. Init => IInv
  BY Initial
<1>2. IInv /\ [Next]_vars => IInv'
  BY Inductive
<1>. QED
  BY <1>1, <1>2, PTL DEF Spec

(* A stream stays in the states it knows: the depth is never below zero nor
   above the number of calls, and the document is either not begun or
   complete (jgen_stream.c, yajl_gen.c). *)
LEMMA Typed ==
  ASSUME IInv
  PROVE  TypeOK
<1>. DEFINE p == stream.printer
<1>1. calls \in Seq(Calls) /\ Len(calls) <= MaxCalls + 1
  BY DEF IInv
<1>2. ASSUME stream # NULL
      PROVE  /\ stream.opened \in {"none", "object", "array"}
             /\ p.depth \in 0 .. MaxCalls
             /\ p.states \in [0 .. (MaxDepth - 1) -> PrinterStates]
             /\ p.states[0] \in {"start", "complete"}
  <2>1. stream.opened \in {"none", "object", "array"} /\ Made(p, calls) /\ Len(calls) <= MaxCalls
    BY <1>2 DEF IInv
  <2>2. p \in Printers /\ p.depth >= 0 /\ p.depth <= Count(Opening, calls)
        /\ p.states[0] \in {"start", "complete"}
    BY <2>1 DEF Made, Printing
  <2>3. p.depth \in Int /\ p.states \in [0 .. (MaxDepth - 1) -> PrinterStates]
    BY <2>2, PartsTyped
  <2>. DEFINE k == Count(Opening, calls)
              m == Len(calls)
  <2>4. k \in Nat /\ m \in Nat /\ k <= m
    <3>1. IsSeq(calls)
      BY <1>1 DEF IsSeq
    <3>. QED
      BY <1>1, <3>1, CountAppend, LenProperties
  <2>5. m <= MaxCalls /\ p.depth <= k
    BY <2>1, <2>2
  <2>. HIDE DEF p, k, m
  <2>6. p.depth \in 0 .. MaxCalls
    <3>1. MaxCalls \in Nat
      BY BoundsTyped
    <3>. QED
      BY ONLY <2>2, <2>3, <2>4, <2>5, <3>1
  <2>. QED
    BY <2>1, <2>2, <2>3, <2>6
<1>. QED
  BY <1>1, <1>2 DEF TypeOK

LEMMA FollowsText ==
  ASSUME IInv
  PROVE  TextFollowsCalls
<1>. DEFINE read == Read(calls)
            p == stream.printer
            regular == read.legal /\ Within(read)
<1>1. regular <=> Regular(read)
  BY DEF Regular
<1>. HIDE DEF regular, read, p
<1>2. ASSUME stream # NULL, regular
      PROVE  /\ p.out = read.text /\ p.depth = Len(read.places)
             /\ CASE Place(read.places) = "value" -> StateOf(p) = "map_val"
                  [] Place(read.places) = "name" -> StateOf(p) \in {"map_start", "map_key"}
                  [] Place(read.places) = "item" -> StateOf(p) \in {"array_start", "in_array"}
                  [] OTHER -> StateOf(p) \in {"start", "complete"}
  <2>1. Follows(p, read)
    BY <1>1, <1>2 DEF IInv, Made, p, read
  <2>2. StateOf(p) \in Level(read, p.depth) /\ Len(read.places) = p.depth
        /\ read.places \in Seq(Places)
    BY <2>1, FollowsDepth
  <2>. DEFINE place == Place(read.places)
  <2>3. CASE p.depth = 0
    <3>1. place = "top"
      BY <2>2, <2>3, PlaceIs
    <3>2. StateOf(p) \in {"start", "complete"}
      BY <2>2, <2>3 DEF Level
    <3>. QED
      BY <2>1, <3>1, <3>2 DEF Follows
  <2>4. CASE p.depth # 0
    <3>1. place = read.places[p.depth] /\ place \in Places
      BY <2>2, <2>4, PlaceIs
    <3>2. p.depth \in Nat /\ ~(p.depth < Len(read.places))
      BY <2>1, FollowsDepth
    <3>3. StateOf(p) \in Inside(place, read.first)
      BY <2>2, <2>4, <3>1, <3>2 DEF Level
    <3>. HIDE DEF place
    <3>. QED
      BY <2>1, <3>1, <3>3 DEF Inside, Places, Follows, place
  <2>. QED
    BY <2>3, <2>4
<1>3. ASSUME stream # NULL, Count({"{", "["}, calls) < MaxDepth
      PROVE  p.depth = Count({"{", "["}, p.out) - Count({"}", "]"}, p.out)
  BY <1>3 DEF IInv, Made, Balanced, Opening, Closing, p
<1>4. source = NULL /\ result # NULL /\ regular /\ read.places = <<>> =>
        result.text = read.text
  BY <1>1 DEF IInv, read
<1>. QED
  BY <1>2, <1>3, <1>4 DEF TextFollowsCalls, regular, read, p

THEOREM TypesHold == Spec => []TypeOK
<1>1. IInv => TypeOK
  BY Typed
<1>. QED
  BY <1>1, Invariance, PTL

(* Whatever a client calls, in any order: while the calls are legal and there
   is room for the containers they open, the text of the stream is the text
   of the calls and the printer's state is that of their place in the
   document; its brackets are those it counts; and finish returns the text of
   calls that make a document (jgen_stream.c, yajl_gen.c). *)
THEOREM TextFollowsCallsHolds == Spec => []TextFollowsCalls
<1>1. IInv => TextFollowsCalls
  BY FollowsText
<1>. QED
  BY <1>1, Invariance, PTL

-------------------------------------------------------------------------------
(* Values, by the layers they are in.  A function that is defined by         *)
(* recursion over values exists: layer by layer, what it is of a value       *)
(* depends on what it is of the values in it.                                *)

Upto(n) == UNION {Layers[m] : m \in 1 .. n}

LEMMA LayersTyped == Len(Layers) \in Nat /\ DOMAIN Layers = 1 .. Len(Layers)
BY ValuesNest

LEMMA UptoIs ==
  /\ Upto(0) = {}
  /\ Upto(Len(Layers)) = Values
  /\ \A m, n \in Nat : m <= n => Upto(m) \subseteq Upto(n)
<1>1. Upto(0) = {}
  BY DEF Upto
<1>2. Upto(Len(Layers)) = Values
  BY LayersTyped DEF Upto, Values
<1>3. ASSUME NEW m \in Nat, NEW n \in Nat, m <= n
      PROVE  Upto(m) \subseteq Upto(n)
  <2>1. \A k \in 1 .. m : k \in 1 .. n
    BY <1>3
  <2>. QED
    BY <2>1 DEF Upto
<1>. QED
  BY <1>1, <1>2, <1>3

(* What a value of the first n layers contains is in those before. *)
LEMMA ContentsBefore ==
  ASSUME NEW n \in 1 .. Len(Layers), NEW v \in Upto(n)
  PROVE  v \in Values /\ \A w \in Contents(v) : w \in Upto(n - 1)
<1>1. PICK k \in 1 .. n : v \in Layers[k]
  BY DEF Upto
<1>2. k \in DOMAIN Layers
  BY <1>1, LayersTyped
<1>3. v \in Values
  BY <1>1, <1>2 DEF Values
<1>4. ASSUME NEW w \in Contents(v) PROVE w \in Upto(n - 1)
  <2>1. PICK m \in 1 .. k - 1 : w \in Layers[m]
    BY <1>1, <1>2, ValuesNest
  <2>2. m \in 1 .. n - 1
    BY <1>1, LayersTyped
  <2>. QED
    BY <2>1, <2>2 DEF Upto
<1>. QED
  BY <1>3, <1>4

LEMMA ValueShape ==
  ASSUME NEW v \in Values
  PROVE  \/ v.kind = "array" /\ v.items \in Seq(Values)
         \/ v.kind = "object" /\ v.members \in Seq([key : Strings, value : Values])
         \/ v.kind = "scalar" /\ v.is \in Strings \cup Others
<1>1. PICK n \in DOMAIN Layers : v \in Layers[n]
  BY DEF Values
<1>. QED
  BY <1>1, ValuesNest

(* The parts of an array and of an object are what they contain. *)
LEMMA PartsContained ==
  ASSUME NEW v \in Values
  PROVE  /\ v.kind = "array" => \A n \in DOMAIN v.items : v.items[n] \in Contents(v)
         /\ v.kind = "object" => \A n \in DOMAIN v.members : v.members[n].value \in Contents(v)
<1>1. ASSUME v.kind = "array", NEW n \in DOMAIN v.items
      PROVE  v.items[n] \in Contents(v)
  <2>1. Contents(v) = ToSet(v.items)
    BY <1>1 DEF Contents
  <2>. QED
    BY <2>1 DEF ToSet
<1>2. ASSUME v.kind = "object", NEW n \in DOMAIN v.members
      PROVE  v.members[n].value \in Contents(v)
  <2>1. Contents(v) = {m.value : m \in ToSet(v.members)}
    BY <1>2 DEF Contents
  <2>. QED
    BY <2>1 DEF ToSet
<1>. QED
  BY <1>1, <1>2

(* The calls that write a value, given those that write what it contains. *)
CallsBody(f, v) ==
  CASE v.kind = "array" ->
         <<"[">> \o FlattenSeq([n \in DOMAIN v.items |-> f[v.items[n]]]) \o <<"]">>
    [] v.kind = "object" ->
         <<"{">> \o FlattenSeq([n \in DOMAIN v.members |->
                                <<v.members[n].key>> \o f[v.members[n].value]]) \o <<"}">>
    [] v.kind = "scalar" -> <<v.is>>

LEMMA CallsBodyAgrees ==
  ASSUME NEW f, NEW g, NEW v \in Values, \A w \in Contents(v) : f[w] = g[w]
  PROVE  CallsBody(f, v) = CallsBody(g, v)
<1>1. CASE v.kind = "array"
  <2>1. [n \in DOMAIN v.items |-> f[v.items[n]]] = [n \in DOMAIN v.items |-> g[v.items[n]]]
    BY <1>1, PartsContained
  <2>. QED
    BY SMTT(40), <1>1, <2>1 DEF CallsBody
<1>2. CASE v.kind = "object"
  <2>1. [n \in DOMAIN v.members |-> <<v.members[n].key>> \o f[v.members[n].value]]
          = [n \in DOMAIN v.members |-> <<v.members[n].key>> \o g[v.members[n].value]]
    BY <1>2, PartsContained
  <2>. QED
    BY <1>2, <2>1 DEF CallsBody
<1>3. CASE v.kind = "scalar"
  BY <1>3 DEF CallsBody
<1>. QED
  BY <1>1, <1>2, <1>3, ValueShape

CallsUpto(n, f) == f = [v \in Upto(n) |-> CallsBody(f, v)]

LEMMA CallsExist ==
  ASSUME NEW n \in 0 .. Len(Layers)
  PROVE  \E f : CallsUpto(n, f)
<1>. DEFINE T == {k \in 0 .. Len(Layers) : ~ \E f : CallsUpto(k, f)}
<1>1. T = {}
  <2>1. SUFFICES ASSUME T # {} PROVE FALSE
    OBVIOUS
  <2>2. T \subseteq Nat
    BY LayersTyped
  <2>3. PICK k \in T : \A j \in T : ~(j < k)
    <3>. HIDE DEF T
    <3>. QED
      BY <2>1, <2>2, LeastOf
  <2>4. k \in 0 .. Len(Layers) /\ ~ \E f : CallsUpto(k, f)
    BY <2>3
  <2>5. CASE k = 0
    <3>. DEFINE f == [v \in {} |-> {}]
    <3>1. CallsUpto(0, f)
      BY UptoIs DEF CallsUpto
    <3>. QED
      BY <2>4, <2>5, <3>1
  <2>6. CASE k # 0
    <3>1. k - 1 \in 0 .. Len(Layers) /\ k - 1 < k /\ k \in 1 .. Len(Layers)
      BY <2>4, <2>6, LayersTyped
    <3>2. PICK f : CallsUpto(k - 1, f)
      BY <2>3, <3>1
    <3>. DEFINE g == [v \in Upto(k) |-> IF v \in Upto(k - 1) THEN f[v] ELSE CallsBody(f, v)]
    <3>3. Upto(k - 1) \subseteq Upto(k)
      BY <3>1, UptoIs, LayersTyped
    <3>4. \A w \in Upto(k - 1) : g[w] = f[w]
      BY <3>3
    <3>5. \A v \in Upto(k - 1) : f[v] = CallsBody(f, v)
      BY <3>2 DEF CallsUpto
    <3>. HIDE DEF g
    <3>6. \A v \in Upto(k) : CallsBody(f, v) = CallsBody(g, v)
      <4>. TAKE v \in Upto(k)
      <4>1. v \in Values /\ \A w \in Contents(v) : f[w] = g[w]
        BY <3>1, <3>4, ContentsBefore
      <4>. QED
        BY <4>1, CallsBodyAgrees
    <3>7. g = [v \in Upto(k) |-> CallsBody(f, v)]
      BY <3>5 DEF g
    <3>8. CallsUpto(k, g)
      BY <3>6, <3>7 DEF CallsUpto
    <3>. QED
      BY <2>4, <3>8
  <2>. QED
    BY <2>5, <2>6
<1>. QED
  BY <1>1

LEMMA CallsOfIs ==
  ASSUME NEW v \in Values
  PROVE  CallsOf[v] = CallsBody(CallsOf, v)
<1>1. \E f : CallsUpto(Len(Layers), f)
  BY CallsExist, LayersTyped
<1>2. \E f : f = [w \in Values |-> CallsBody(f, w)]
  BY <1>1, UptoIs DEF CallsUpto
<1>3. CallsOf = CHOOSE f : f = [w \in Values |-> CallsBody(f, w)]
  BY DEF CallsOf, CallsBody
<1>4. CallsOf = [w \in Values |-> CallsBody(CallsOf, w)]
  BY <1>2, <1>3
<1>. QED
  BY <1>4

(* The same for what jvalue_to_string_append makes of a printer. *)
AppendBody(f, v) ==
  CASE v.kind = "array" ->
         LET items == [n \in DOMAIN v.items |-> f[v.items[n]]]
         IN  [p \in Printers |-> Given(Through(items, Given(p, "[")), "]")]
    [] v.kind = "object" ->
         LET members == [n \in DOMAIN v.members |->
                           [p \in Printers |-> f[v.members[n].value][Given(p, v.members[n].key)]]]
         IN  [p \in Printers |-> Given(Through(members, Given(p, "{")), "}")]
    [] v.kind = "scalar" -> [p \in Printers |-> Given(p, v.is)]

LEMMA AppendBodyAgrees ==
  ASSUME NEW f, NEW g, NEW v \in Values, \A w \in Contents(v) : f[w] = g[w]
  PROVE  AppendBody(f, v) = AppendBody(g, v)
<1>1. CASE v.kind = "array"
  <2>1. [n \in DOMAIN v.items |-> f[v.items[n]]] = [n \in DOMAIN v.items |-> g[v.items[n]]]
    BY <1>1, PartsContained
  <2>. QED
    BY <1>1, <2>1 DEF AppendBody
<1>2. CASE v.kind = "object"
  <2>1. [n \in DOMAIN v.members |->
           [p \in Printers |-> f[v.members[n].value][Given(p, v.members[n].key)]]]
          = [n \in DOMAIN v.members |->
               [p \in Printers |-> g[v.members[n].value][Given(p, v.members[n].key)]]]
    BY <1>2, PartsContained
  <2>. QED
    BY <1>2, <2>1 DEF AppendBody
<1>3. CASE v.kind = "scalar"
  BY <1>3 DEF AppendBody
<1>. QED
  BY <1>1, <1>2, <1>3, ValueShape

AppendUpto(n, f) == f = [v \in Upto(n) |-> AppendBody(f, v)]

LEMMA AppendExists ==
  ASSUME NEW n \in 0 .. Len(Layers)
  PROVE  \E f : AppendUpto(n, f)
<1>. DEFINE T == {k \in 0 .. Len(Layers) : ~ \E f : AppendUpto(k, f)}
<1>1. T = {}
  <2>1. SUFFICES ASSUME T # {} PROVE FALSE
    OBVIOUS
  <2>2. T \subseteq Nat
    BY LayersTyped
  <2>3. PICK k \in T : \A j \in T : ~(j < k)
    <3>. HIDE DEF T
    <3>. QED
      BY <2>1, <2>2, LeastOf
  <2>4. k \in 0 .. Len(Layers) /\ ~ \E f : AppendUpto(k, f)
    BY <2>3
  <2>5. CASE k = 0
    <3>. DEFINE f == [v \in {} |-> {}]
    <3>1. AppendUpto(0, f)
      BY UptoIs DEF AppendUpto
    <3>. QED
      BY <2>4, <2>5, <3>1
  <2>6. CASE k # 0
    <3>1. k - 1 \in 0 .. Len(Layers) /\ k - 1 < k /\ k \in 1 .. Len(Layers)
      BY <2>4, <2>6, LayersTyped
    <3>2. PICK f : AppendUpto(k - 1, f)
      BY <2>3, <3>1
    <3>. DEFINE g == [v \in Upto(k) |-> IF v \in Upto(k - 1) THEN f[v] ELSE AppendBody(f, v)]
    <3>3. Upto(k - 1) \subseteq Upto(k)
      BY <3>1, UptoIs, LayersTyped
    <3>4. \A w \in Upto(k - 1) : g[w] = f[w]
      BY <3>3
    <3>5. \A v \in Upto(k - 1) : f[v] = AppendBody(f, v)
      BY <3>2 DEF AppendUpto
    <3>. HIDE DEF g
    <3>6. \A v \in Upto(k) : AppendBody(f, v) = AppendBody(g, v)
      <4>. TAKE v \in Upto(k)
      <4>1. v \in Values /\ \A w \in Contents(v) : f[w] = g[w]
        BY <3>1, <3>4, ContentsBefore
      <4>. QED
        BY <4>1, AppendBodyAgrees
    <3>7. g = [v \in Upto(k) |-> AppendBody(f, v)]
      BY <3>5 DEF g
    <3>8. AppendUpto(k, g)
      BY <3>6, <3>7 DEF AppendUpto
    <3>. QED
      BY <2>4, <3>8
  <2>. QED
    BY <2>5, <2>6
<1>. QED
  BY <1>1

LEMMA ToStringAppendIs ==
  ASSUME NEW v \in Values
  PROVE  ToStringAppend[v] = AppendBody(ToStringAppend, v)
<1>1. \E f : AppendUpto(Len(Layers), f)
  BY AppendExists, LayersTyped
<1>2. \E f : f = [w \in Values |-> AppendBody(f, w)]
  BY <1>1, UptoIs DEF AppendUpto
<1>3. ToStringAppend = CHOOSE f : f = [w \in Values |-> AppendBody(f, w)]
  BY DEF ToStringAppend, AppendBody
<1>4. ToStringAppend = [w \in Values |-> AppendBody(ToStringAppend, w)]
  BY <1>2, <1>3
<1>. QED
  BY <1>4

-------------------------------------------------------------------------------
(* Calls, and what prints them, one after the other. *)

ThroughSteps(fs, p, f) ==
  f = [n \in 0 .. Len(fs) |-> IF n = 0 THEN p ELSE fs[n][f[n - 1]]]

LEMMA ThroughStepsExist ==
  ASSUME NEW fs, Len(fs) \in Nat, NEW p
  PROVE  \E f : ThroughSteps(fs, p, f)
<1>. DEFINE To(f, k) == f = [n \in 0 .. k |-> IF n = 0 THEN p ELSE fs[n][f[n - 1]]]
            T == {k \in Nat : ~ \E f : To(f, k)}
<1>1. T = {}
  <2>1. SUFFICES ASSUME T # {} PROVE FALSE
    OBVIOUS
  <2>2. PICK k \in T : \A j \in T : ~(j < k)
    BY <2>1, LeastOf
  <2>3. k \in Nat /\ ~ \E f : To(f, k)
    BY <2>2
  <2>4. CASE k = 0
    <3>. DEFINE f == [n \in 0 .. 0 |-> p]
    <3>1. To(f, 0)
      OBVIOUS
    <3>. QED
      BY <2>3, <2>4, <3>1
  <2>5. CASE k # 0
    <3>1. k - 1 \in Nat /\ k - 1 < k
      BY <2>3, <2>5
    <3>2. PICK f : To(f, k - 1)
      BY <2>2, <3>1
    <3>. DEFINE g == [n \in 0 .. k |-> IF n = k THEN fs[k][f[k - 1]] ELSE f[n]]
    <3>3. \A n \in 0 .. k - 1 : f[n] = IF n = 0 THEN p ELSE fs[n][f[n - 1]]
      BY <3>2
    <3>4. \A n \in 0 .. k : g[n] = IF n = 0 THEN p ELSE fs[n][g[n - 1]]
      <4>. TAKE n \in 0 .. k
      <4>1. CASE n = k
        BY <2>3, <2>5, <3>1, <4>1
      <4>2. CASE n # k /\ n # 0
        <5>1. n \in 0 .. k - 1 /\ n - 1 \in 0 .. k /\ n - 1 # k
          BY <2>3, <4>2
        <5>. QED
          BY <3>3, <4>2, <5>1
      <4>3. CASE n # k /\ n = 0
        BY <2>3, <3>1, <3>3, <4>3
      <4>. QED
        BY <4>1, <4>2, <4>3
    <3>5. To(g, k)
      BY <3>4
    <3>. QED
      BY <2>3, <3>5
  <2>. QED
    BY <2>4, <2>5
<1>. QED
  BY <1>1 DEF ThroughSteps

LEMMA ThroughIs ==
  ASSUME NEW fs, Len(fs) \in Nat, NEW p
  PROVE  \E f : ThroughSteps(fs, p, f) /\ Through(fs, p) = f[Len(fs)]
<1>. DEFINE f == CHOOSE g : ThroughSteps(fs, p, g)
<1>1. ThroughSteps(fs, p, f)
  BY ThroughStepsExist
<1>2. Through(fs, p) = f[Len(fs)]
  BY DEF Through, ThroughSteps
<1>. QED
  BY <1>1, <1>2

FlattenSteps(css, f) ==
  f = [n \in 1 .. Len(css) |-> IF n = 1 THEN css[n] ELSE f[n - 1] \o css[n]]

LEMMA FlattenStepsExist ==
  ASSUME NEW css, Len(css) \in Nat
  PROVE  \E f : FlattenSteps(css, f)
<1>. DEFINE To(f, k) == f = [n \in 1 .. k |-> IF n = 1 THEN css[n] ELSE f[n - 1] \o css[n]]
            T == {k \in Nat : ~ \E f : To(f, k)}
<1>1. T = {}
  <2>1. SUFFICES ASSUME T # {} PROVE FALSE
    OBVIOUS
  <2>2. PICK k \in T : \A j \in T : ~(j < k)
    BY <2>1, LeastOf
  <2>3. k \in Nat /\ ~ \E f : To(f, k)
    BY <2>2
  <2>4. CASE k = 0
    <3>. DEFINE f == [n \in 1 .. 0 |-> <<>>]
    <3>1. To(f, 0)
      OBVIOUS
    <3>. QED
      BY <2>3, <2>4, <3>1
  <2>5. CASE k # 0
    <3>1. k - 1 \in Nat /\ k - 1 < k
      BY <2>3, <2>5
    <3>2. PICK f : To(f, k - 1)
      BY <2>2, <3>1
    <3>. DEFINE g == [n \in 1 .. k |-> IF n = k THEN (IF k = 1 THEN css[k] ELSE f[k - 1] \o css[k])
                                       ELSE f[n]]
    <3>3. \A n \in 1 .. k - 1 : f[n] = IF n = 1 THEN css[n] ELSE f[n - 1] \o css[n]
      BY <3>2
    <3>4. \A n \in 1 .. k : g[n] = IF n = 1 THEN css[n] ELSE g[n - 1] \o css[n]
      <4>. TAKE n \in 1 .. k
      <4>1. CASE n = k /\ k = 1
        BY <4>1
      <4>2. CASE n = k /\ k # 1
        <5>1. k - 1 \in 1 .. k /\ k - 1 # k /\ k \in 1 .. k
          BY <2>3, <2>5, <4>2
        <5>. QED
          BY <4>2, <5>1
      <4>3. CASE n # k /\ n # 1
        <5>1. n \in 1 .. k - 1 /\ n - 1 \in 1 .. k /\ n - 1 # k
          BY <2>3, <4>3
        <5>. QED
          BY <3>3, <4>3, <5>1
      <4>4. CASE n # k /\ n = 1
        <5>1. n \in 1 .. k - 1
          BY <2>3, <4>4
        <5>. QED
          BY <3>3, <4>4, <5>1
      <4>. QED
        BY <4>1, <4>2, <4>3, <4>4
    <3>5. To(g, k)
      BY <3>4
    <3>. QED
      BY <2>3, <3>5
  <2>. QED
    BY <2>4, <2>5
<1>. QED
  BY <1>1 DEF FlattenSteps

LEMMA FlattenIs ==
  ASSUME NEW css, Len(css) \in Nat
  PROVE  \E f : /\ FlattenSteps(css, f)
                /\ FlattenSeq(css) = IF Len(css) = 0 THEN css ELSE f[Len(css)]
<1>. DEFINE f == CHOOSE g : FlattenSteps(css, g)
<1>1. FlattenSteps(css, f)
  BY FlattenStepsExist
<1>2. FlattenSeq(css) = IF Len(css) = 0 THEN css ELSE f[Len(css)]
  BY DEF FlattenSeq, FlattenSteps
<1>. QED
  BY <1>1, <1>2

(* The calls s end in a container where last is next. *)
Site(s, last) ==
  /\ s \in Seq(Calls) /\ Read(s) \in Sites /\ Read(s).legal
  /\ Read(s).places # <<>> /\ Place(Read(s).places) = last

(* The calls r are legal where s are and end in the same place. *)
Leads(s, r) ==
  /\ r \in Seq(Calls) /\ Read(r) \in Sites /\ Read(r).legal
  /\ Read(r).places = Read(s).places /\ Read(s).deepest <= Read(r).deepest

(* Where there is room for the calls r, h takes a printer from s to r. *)
Prints(h, s, r) ==
  \A p : Follows(p, Read(s)) /\ Read(r).deepest < MaxDepth => Follows(h[p], Read(r))

(* Calls that h prints, and that come back to where they were. *)
Carried(cs, h, last) ==
  /\ cs \in Seq(Calls)
  /\ \A s : Site(s, last) => Leads(s, s \o cs) /\ Prints(h, s, s \o cs)

LEMMA SiteLeads ==
  ASSUME NEW s, NEW last, Site(s, last), NEW r, Leads(s, r)
  PROVE  Site(r, last)
BY DEF Site, Leads

LEMMA DeepestOn ==
  ASSUME NEW s, NEW r, Read(s) \in Sites, Read(r) \in Sites,
         Read(s).deepest <= Read(r).deepest, Read(r).deepest < MaxDepth
  PROVE  Read(s).deepest < MaxDepth
<1>. DEFINE m == Read(s).deepest
            n == Read(r).deepest
<1>1. m \in Nat /\ n \in Nat /\ m <= n /\ n < MaxDepth
  BY DEF Sites
<1>. HIDE DEF m, n
<1>2. m < MaxDepth
  BY <1>1, BoundsTyped
<1>. QED
  BY <1>2 DEF m

LEMMA LeadsOn ==
  ASSUME NEW s, Read(s) \in Sites, NEW r, Leads(s, r), NEW q, Leads(r, q)
  PROVE  Leads(s, q)
<1>. DEFINE k == Read(s).deepest
            m == Read(r).deepest
            n == Read(q).deepest
<1>1. k \in Nat /\ m \in Nat /\ n \in Nat /\ k <= m /\ m <= n
  BY DEF Leads, Sites
<1>. HIDE DEF k, m, n
<1>2. k <= n
  BY ONLY <1>1
<1>. QED
  BY <1>2 DEF Leads, k, n

LEMMA LeadsSelf ==
  ASSUME NEW s, NEW last, Site(s, last)
  PROVE  Leads(s, s)
<1>. DEFINE k == Read(s).deepest
<1>1. k \in Nat
  BY DEF Site, Sites
<1>. HIDE DEF k
<1>2. k <= k
  BY <1>1
<1>. QED
  BY <1>2 DEF Leads, Site, k

LEMMA CallsAssociate ==
  ASSUME NEW q \in Seq(Calls), NEW r \in Seq(Calls), NEW s \in Seq(Calls)
  PROVE  q \o (r \o s) = (q \o r) \o s
BY SMTT(40), ConcatAssociative

(* Calls carried one after the other are carried. *)
LEMMA CarriedAll ==
  ASSUME NEW css, NEW fs, NEW last, IsSeq(css), Len(fs) = Len(css),
         \A n \in 1 .. Len(css) : Carried(css[n], fs[n], last)
  PROVE  Carried(FlattenSeq(css), [p \in Printers |-> Through(fs, p)], last)
<1>. DEFINE m == Len(css)
            h == [p \in Printers |-> Through(fs, p)]
<1>1. m \in Nat /\ (m = 0 => css = <<>>)
  BY SeqFacts
<1>2. PICK f : /\ FlattenSteps(css, f)
               /\ FlattenSeq(css) = IF m = 0 THEN css ELSE f[m]
  BY <1>1, FlattenIs
<1>3. \A n \in 1 .. m : f[n] = IF n = 1 THEN css[n] ELSE f[n - 1] \o css[n]
  BY <1>2 DEF FlattenSteps
<1>. DEFINE flat(n) == IF n = 0 THEN <<>> ELSE f[n]
            Reached(n) ==
              /\ flat(n) \in Seq(Calls)
              /\ \A s : Site(s, last) =>
                   /\ Leads(s, s \o flat(n))
                   /\ \A p, a : ThroughSteps(fs, p, a) /\ Follows(p, Read(s))
                                   /\ Read(s \o flat(n)).deepest < MaxDepth
                                 => Follows(a[n], Read(s \o flat(n)))
            T == {n \in 0 .. m : ~Reached(n)}
<1>4. FlattenSeq(css) = flat(m)
  BY <1>1, <1>2
<1>5. flat(0) = <<>>
  OBVIOUS
<1>6. \A n \in 1 .. m : flat(n) = flat(n - 1) \o css[n] \/ (n = 1 /\ flat(n) = css[n])
  <2>. TAKE n \in 1 .. m
  <2>1. CASE n = 1
    BY <1>3, <2>1
  <2>2. CASE n # 1
    <3>1. n # 0 /\ n - 1 # 0
      BY <1>1, <2>2
    <3>. QED
      BY <1>3, <2>2, <3>1
  <2>. QED
    BY <2>1, <2>2
<1>. HIDE DEF flat
<1>7. \A n \in 1 .. m : css[n] \in Seq(Calls)
  BY DEF Carried
<1>8. \A n \in 1 .. m : flat(n) = flat(n - 1) \o css[n]
  <2>. TAKE n \in 1 .. m
  <2>1. CASE n = 1 /\ flat(n) = css[n]
    <3>1. <<>> \o css[n] = css[n]
      BY <1>7, ConcatEmptySeq
    <3>2. flat(n - 1) = <<>>
      BY <1>5, <2>1
    <3>. QED
      BY <2>1, <3>1, <3>2
  <2>. QED
    BY <1>6, <2>1
<1>9. T = {}
  <2>1. SUFFICES ASSUME T # {} PROVE FALSE
    OBVIOUS
  <2>2. T \subseteq Nat
    BY <1>1
  <2>3. PICK n \in T : \A j \in T : ~(j < n)
    <3>. HIDE DEF T
    <3>. QED
      BY <2>1, <2>2, LeastOf
  <2>4. n \in 0 .. m /\ ~Reached(n)
    BY <2>3
  <2>5. CASE n = 0
    <3>1. <<>> \in Seq(Calls)
      BY EmptySeq
    <3>2. ASSUME NEW s, Site(s, last)
          PROVE  /\ Leads(s, s \o flat(n))
                 /\ \A p, a : ThroughSteps(fs, p, a) /\ Follows(p, Read(s))
                                 /\ Read(s \o flat(n)).deepest < MaxDepth
                               => Follows(a[n], Read(s \o flat(n)))
      <4>1. s \o flat(n) = s
        BY <1>5, <2>5, <3>2, ConcatEmptySeq DEF Site
      <4>2. Leads(s, s \o flat(n))
        BY <3>2, <4>1, LeadsSelf
      <4>3. \A p, a : ThroughSteps(fs, p, a) => a[n] = p
        BY <1>1, <2>5 DEF ThroughSteps
      <4>. QED
        BY <4>1, <4>2, <4>3
    <3>. QED
      BY <1>5, <2>4, <2>5, <3>1, <3>2
  <2>6. CASE n # 0
    <3>1. n \in 1 .. m /\ n - 1 \in 0 .. m /\ n - 1 < n
      BY <1>1, <2>4, <2>6
    <3>2. Reached(n - 1)
      BY <2>3, <3>1
    <3>. DEFINE before == flat(n - 1)
                cs == css[n]
    <3>3. flat(n) = before \o cs /\ cs \in Seq(Calls) /\ before \in Seq(Calls)
      BY <1>7, <1>8, <3>1, <3>2
    <3>4. Carried(cs, fs[n], last)
      BY <3>1
    <3>5. flat(n) \in Seq(Calls)
      BY <3>3, ConcatProperties
    <3>6. ASSUME NEW s, Site(s, last)
          PROVE  /\ Leads(s, s \o flat(n))
                 /\ \A p, a : ThroughSteps(fs, p, a) /\ Follows(p, Read(s))
                                 /\ Read(s \o flat(n)).deepest < MaxDepth
                               => Follows(a[n], Read(s \o flat(n)))
      <4>. DEFINE r == s \o before
                  q == r \o cs
      <4>1. s \o flat(n) = q
        <5>1. s \in Seq(Calls)
          BY <3>6 DEF Site
        <5>. HIDE DEF before, cs
        <5>2. s \o (before \o cs) = (s \o before) \o cs
          BY <3>3, <5>1, CallsAssociate
        <5>. QED
          BY <3>3, <5>2
      <4>2. Leads(s, r)
        BY <3>2, <3>6
      <4>3. \A p, a : ThroughSteps(fs, p, a) /\ Follows(p, Read(s)) /\ Read(r).deepest < MaxDepth
                        => Follows(a[n - 1], Read(r))
        BY <3>2, <3>6
      <4>. HIDE DEF r
      <4>4. Site(r, last)
        BY <3>6, <4>2, SiteLeads
      <4>5. Leads(r, q) /\ Prints(fs[n], r, q)
        BY <3>4, <4>4 DEF Carried
      <4>. HIDE DEF q
      <4>6. Leads(s, q)
        BY <3>6, <4>2, <4>5, LeadsOn DEF Site
      <4>7. ASSUME NEW p, NEW a, ThroughSteps(fs, p, a), Follows(p, Read(s)),
                   Read(q).deepest < MaxDepth
            PROVE  Follows(a[n], Read(q))
        <5>1. Read(r).deepest < MaxDepth
          BY <4>2, <4>5, <4>7, DeepestOn DEF Leads
        <5>2. Follows(a[n - 1], Read(r))
          BY <4>3, <4>7, <5>1
        <5>3. a[n] = fs[n][a[n - 1]]
          <6>1. n \in 0 .. Len(fs)
            BY <2>4
          <6>. QED
            BY <2>6, <4>7, <6>1 DEF ThroughSteps
        <5>. QED
          BY <4>5, <4>7, <5>2, <5>3 DEF Prints
      <4>. QED
        BY <4>1, <4>6, <4>7
    <3>. QED
      BY <2>4, <3>5, <3>6
  <2>. QED
    BY <2>5, <2>6
<1>10. Reached(m)
  BY <1>1, <1>9
<1>11. ASSUME NEW s, Site(s, last)
       PROVE  Leads(s, s \o flat(m)) /\ Prints(h, s, s \o flat(m))
  <2>1. ASSUME NEW p, Follows(p, Read(s)), Read(s \o flat(m)).deepest < MaxDepth
        PROVE  Follows(h[p], Read(s \o flat(m)))
    <3>1. PICK a : ThroughSteps(fs, p, a) /\ Through(fs, p) = a[m]
      BY <1>1, ThroughIs
    <3>2. Follows(a[m], Read(s \o flat(m)))
      BY <1>10, <1>11, <2>1, <3>1
    <3>3. h[p] = Through(fs, p)
      BY <2>1 DEF Follows
    <3>. HIDE DEF h
    <3>. QED
      BY <3>1, <3>2, <3>3
  <2>2. Leads(s, s \o flat(m))
    BY <1>10, <1>11
  <2>. HIDE DEF h
  <2>. QED
    BY <2>1, <2>2 DEF Prints
<1>. QED
  BY <1>4, <1>10, <1>11 DEF Carried

-------------------------------------------------------------------------------
(* What is printed of a value is what its calls make.                        *)

(* The calls s end where a value may be next. *)
Ready(s) ==
  /\ s \in Seq(Calls) /\ Read(s) \in Sites /\ Read(s).legal
  /\ Place(Read(s).places) # "name" /\ (Read(s).places = <<>> => Read(s).text = <<>>)

(* The calls r, after s, are those of one value. *)
Wrote(s, r) ==
  /\ r \in Seq(Calls) /\ Read(r) \in Sites /\ Read(r).legal
  /\ Read(r).places = Moved(Read(s).places) /\ Read(s).deepest <= Read(r).deepest

Exact(cs, h) ==
  /\ cs \in Seq(Calls)
  /\ \A s : Ready(s) => Wrote(s, s \o cs) /\ Prints(h, s, s \o cs)

LEMMA PlaceTop ==
  ASSUME NEW places \in Seq(Places)
  PROVE  places = <<>> <=> Place(places) = "top"
BY PlaceIs DEF Places

LEMMA PlaceAppended ==
  ASSUME NEW places \in Seq(Places), NEW place \in Places
  PROVE  /\ Append(places, place) # <<>> /\ Place(Append(places, place)) = place
         /\ Front(Append(places, place)) = places
<1>. DEFINE q == Append(places, place)
            n == Len(places)
<1>1. n \in Nat
  BY LenProperties
<1>2. q \in Seq(Places) /\ Len(q) = n + 1 /\ q[n + 1] = place
  BY AppendProperties
<1>3. Front(q) = places
  BY FrontOfAppend DEF IsSeq
<1>. HIDE DEF q, n
<1>4. Len(q) # 0
  BY <1>1, <1>2
<1>5. q # <<>> /\ Place(q) = place
  BY <1>2, <1>4, PlaceIs
<1>. QED
  BY <1>3, <1>5 DEF q

(* A name makes its place one for a value, and the value takes it back. *)
LEMMA MovedTwice ==
  ASSUME NEW places \in Seq(Places), Place(places) = "name"
  PROVE  /\ Moved(places) # <<>> /\ Place(Moved(places)) = "value"
         /\ Moved(Moved(places)) = places
<1>. DEFINE n == Len(places)
            q == Moved(places)
            r == Moved(q)
<1>1. n \in Nat /\ n # 0 /\ places[n] = "name"
  BY PlaceIs
<1>2. /\ q \in Seq(Places) /\ Len(q) = n /\ \A i \in 1 .. n - 1 : q[i] = places[i]
      /\ q[n] = MovedPlace(places[n])
  BY <1>1, MovedIs
<1>3. q[n] = "value"
  BY <1>1, <1>2 DEF MovedPlace
<1>4. r = Moved(q)
  OBVIOUS
<1>. HIDE DEF n, q, r
<1>5. q # <<>> /\ Place(q) = "value"
  BY <1>1, <1>2, <1>3, PlaceIs
<1>6. /\ r \in Seq(Places) /\ Len(r) = n /\ \A i \in 1 .. n - 1 : r[i] = q[i]
      /\ r[n] = MovedPlace(q[n])
  BY <1>1, <1>2, <1>4, MovedIs
<1>7. r[n] = places[n]
  BY <1>1, <1>3, <1>6 DEF MovedPlace
<1>8. \A i \in 1 .. n : r[i] = places[i]
  <2>. TAKE i \in 1 .. n
  <2>1. i = n \/ i \in 1 .. n - 1
    BY <1>1
  <2>. QED
    BY <1>2, <1>6, <1>7, <2>1
<1>9. r = places
  BY <1>6, <1>8, SeqEqual DEF n
<1>. QED
  BY <1>4, <1>5, <1>9 DEF q

(* One call more. *)
LEMMA OneMore ==
  ASSUME NEW s \in Seq(Calls), Read(s) \in Sites, Read(s).legal, NEW c \in Calls,
         Legal(Read(s), c), NEW r, r = Append(s, c)
  PROVE  /\ r = s \o <<c>> /\ r \in Seq(Calls) /\ Read(r) \in Sites /\ Read(r).legal
         /\ Read(s).deepest <= Read(r).deepest
         /\ c \in Opening =>
              Read(r).places = Append(Moved(Read(s).places), IF c = "{" THEN "name" ELSE "item")
         /\ c \in Closing =>
              Read(r).places = (IF Read(s).places = <<>> THEN <<>> ELSE Front(Read(s).places))
         /\ c \notin Opening \cup Closing => Read(r).places = Moved(Read(s).places)
         /\ \A p : Follows(p, Read(s)) /\ Read(r).deepest < MaxDepth => Follows(Given(p, c), Read(r))
<1>. DEFINE at == Read(s)
            to == Read(r)
<1>1. r \in Seq(Calls) /\ to \in Sites /\ to = Written(at, c)
  BY ReadOn
<1>2. r = s \o <<c>>
  BY AppendIsConcat
<1>3. at \in Sites /\ at.legal /\ Legal(at, c)
  OBVIOUS
<1>. HIDE DEF at, to
<1>4. /\ to.legal = (at.legal /\ Legal(at, c)) /\ at.deepest <= to.deepest
      /\ c \in Opening => to.places = Append(Moved(at.places), IF c = "{" THEN "name" ELSE "item")
      /\ c \in Closing => to.places = (IF at.places = <<>> THEN <<>> ELSE Front(at.places))
      /\ c \notin Opening \cup Closing => to.places = Moved(at.places)
  BY <1>1, <1>3, WrittenTyped
<1>5. to.legal
  BY <1>3, <1>4
<1>6. \A p : Follows(p, at) /\ to.deepest < MaxDepth => Follows(Given(p, c), to)
  BY <1>1, <1>5, FollowsGiven
<1>. QED
  BY <1>1, <1>2, <1>4, <1>5, <1>6 DEF at, to

LEMMA OneOpened ==
  ASSUME NEW s \in Seq(Calls), Read(s) \in Sites, Read(s).legal, NEW c \in Calls, c \in Opening,
         Legal(Read(s), c), NEW r, r = Append(s, c)
  PROVE  /\ r = s \o <<c>> /\ r \in Seq(Calls) /\ Read(r) \in Sites /\ Read(r).legal
         /\ Read(s).deepest <= Read(r).deepest
         /\ Read(r).places = Append(Moved(Read(s).places), IF c = "{" THEN "name" ELSE "item")
         /\ \A p : Follows(p, Read(s)) /\ Read(r).deepest < MaxDepth => Follows(Given(p, c), Read(r))
BY OneMore

LEMMA OneCall ==
  ASSUME NEW c \in Calls
  PROVE  <<c>> \in Seq(Calls)
OBVIOUS

(* A value as an item. *)
LEMMA CarriedItem ==
  ASSUME NEW cs, NEW h, Exact(cs, h)
  PROVE  Carried(cs, h, "item")
<1>1. cs \in Seq(Calls)
  BY DEF Exact
<1>2. ASSUME NEW s, Site(s, "item")
      PROVE  Leads(s, s \o cs) /\ Prints(h, s, s \o cs)
  <2>1. Ready(s)
    BY <1>2 DEF Site, Ready
  <2>2. Wrote(s, s \o cs) /\ Prints(h, s, s \o cs)
    BY <2>1 DEF Exact
  <2>3. Moved(Read(s).places) = Read(s).places
    BY <1>2 DEF Site, Moved
  <2>. QED
    BY <2>2, <2>3 DEF Wrote, Leads
<1>. QED
  BY <1>1, <1>2 DEF Carried

(* A value as a member, after its name. *)
LEMMA CarriedMember ==
  ASSUME NEW cs, NEW h, Exact(cs, h), NEW key \in Strings
  PROVE  Carried(<<key>> \o cs, [p \in Printers |-> h[Given(p, key)]], "name")
<1>. DEFINE g == [p \in Printers |-> h[Given(p, key)]]
<1>1. cs \in Seq(Calls) /\ key \in Calls /\ key \notin Opening \cup Closing
  BY TokensDiffer DEF Exact, Calls, Opening, Closing
<1>2. <<key>> \in Seq(Calls)
  BY <1>1
<1>3. <<key>> \o cs \in Seq(Calls)
  BY <1>1, <1>2, ConcatProperties
<1>4. ASSUME NEW s, Site(s, "name")
      PROVE  Leads(s, s \o (<<key>> \o cs)) /\ Prints(g, s, s \o (<<key>> \o cs))
  <2>. DEFINE r == Append(s, key)
              q == r \o cs
  <2>1. /\ s \in Seq(Calls) /\ Read(s) \in Sites /\ Read(s).legal
        /\ Place(Read(s).places) = "name" /\ Read(s).places \in Seq(Places)
    BY <1>4 DEF Site, Sites
  <2>2. Legal(Read(s), key)
    BY <1>1, <2>1 DEF Legal, Closing
  <2>3. /\ r = s \o <<key>> /\ r \in Seq(Calls) /\ Read(r) \in Sites /\ Read(r).legal
        /\ Read(s).deepest <= Read(r).deepest /\ Read(r).places = Moved(Read(s).places)
        /\ \A p : Follows(p, Read(s)) /\ Read(r).deepest < MaxDepth => Follows(Given(p, key), Read(r))
    BY <1>1, <2>1, <2>2, OneMore
  <2>4. s \o (<<key>> \o cs) = q
    BY <1>1, <1>2, <2>1, <2>3, CallsAssociate
  <2>. HIDE DEF r
  <2>5. /\ Read(r).places # <<>> /\ Place(Read(r).places) = "value"
        /\ Moved(Read(r).places) = Read(s).places
    BY <2>1, <2>3, MovedTwice
  <2>6. Ready(r)
    BY <2>3, <2>5 DEF Ready
  <2>7. Wrote(r, q) /\ Prints(h, r, q)
    BY <2>6 DEF Exact
  <2>. HIDE DEF q
  <2>8. Leads(s, q)
    <3>. DEFINE i == Read(s).deepest
                j == Read(r).deepest
                k == Read(q).deepest
    <3>1. i \in Nat /\ j \in Nat /\ k \in Nat /\ i <= j /\ j <= k
      BY <2>1, <2>3, <2>7 DEF Wrote, Sites
    <3>. HIDE DEF i, j, k
    <3>2. i <= k
      BY ONLY <3>1
    <3>. QED
      BY <2>5, <2>7, <3>2 DEF Wrote, Leads, i, k
  <2>9. Prints(g, s, q)
    <3>1. SUFFICES ASSUME NEW p, Follows(p, Read(s)), Read(q).deepest < MaxDepth
                   PROVE  Follows(g[p], Read(q))
      BY DEF Prints
    <3>2. Read(r).deepest < MaxDepth
      BY <2>3, <2>7, <3>1, DeepestOn DEF Wrote
    <3>3. Follows(Given(p, key), Read(r))
      BY <2>3, <3>1, <3>2
    <3>4. Follows(h[Given(p, key)], Read(q))
      BY <2>7, <3>1, <3>3 DEF Prints
    <3>5. g[p] = h[Given(p, key)]
      BY <3>1 DEF Follows
    <3>. HIDE DEF g
    <3>. QED
      BY <3>4, <3>5
  <2>. HIDE DEF g
  <2>. QED
    BY <2>4, <2>8, <2>9
<1>. HIDE DEF g
<1>5. Carried(<<key>> \o cs, g, "name")
  BY <1>3, <1>4 DEF Carried
<1>. QED
  BY <1>5 DEF g

(* A container around what is carried in it. *)
LEMMA ExactContainer ==
  ASSUME NEW cs, NEW h, NEW c, NEW d, NEW inner, NEW g, Carried(cs, h, inner),
         \A p \in Printers : Given(p, c) \in Printers => g[p] = Given(h[Given(p, c)], d),
         \/ c = "[" /\ d = "]" /\ inner = "item"
         \/ c = "{" /\ d = "}" /\ inner = "name"
  PROVE  Exact(<<c>> \o cs \o <<d>>, g)
<1>. DEFINE all == <<c>> \o cs \o <<d>>
<1>1. /\ cs \in Seq(Calls) /\ c \in Calls /\ d \in Calls /\ c \in Opening /\ d \in Closing
      /\ inner = (IF c = "{" THEN "name" ELSE "item") /\ inner \in Places
  BY DEF Carried, Calls, Opening, Closing, Places
<1>2. <<c>> \in Seq(Calls) /\ <<d>> \in Seq(Calls)
  BY <1>1, OneCall
<1>3. <<c>> \o cs \in Seq(Calls)
  BY <1>1, <1>2, ConcatProperties
<1>4. all \in Seq(Calls)
  BY <1>2, <1>3, ConcatProperties
<1>5. ASSUME NEW s, Ready(s)
      PROVE  Wrote(s, s \o all) /\ Prints(g, s, s \o all)
  <2>. DEFINE r == Append(s, c)
              q == r \o cs
              z == Append(q, d)
              places == Moved(Read(s).places)
  <2>1. /\ s \in Seq(Calls) /\ Read(s) \in Sites /\ Read(s).legal /\ Read(s).places \in Seq(Places)
        /\ Place(Read(s).places) # "name" /\ (Place(Read(s).places) = "top" => Read(s).text = <<>>)
    BY <1>5, PlaceTop DEF Ready, Sites
  <2>2. Legal(Read(s), c)
    BY <2>1 DEF Legal
  <2>3. /\ r = s \o <<c>> /\ r \in Seq(Calls) /\ Read(r) \in Sites /\ Read(r).legal
        /\ Read(s).deepest <= Read(r).deepest /\ Read(r).places = Append(places, inner)
        /\ \A p : Follows(p, Read(s)) /\ Read(r).deepest < MaxDepth => Follows(Given(p, c), Read(r))
    <3>1. c \in Calls /\ c \in Opening
      BY <1>1
    <3>2. r = Append(s, c)
      OBVIOUS
    <3>. HIDE DEF r, places
    <3>3. /\ r = s \o <<c>> /\ r \in Seq(Calls) /\ Read(r) \in Sites /\ Read(r).legal
          /\ Read(s).deepest <= Read(r).deepest
          /\ Read(r).places = Append(places, IF c = "{" THEN "name" ELSE "item")
          /\ \A p : Follows(p, Read(s)) /\ Read(r).deepest < MaxDepth => Follows(Given(p, c), Read(r))
      BY ONLY <3>1, <3>2, <2>1, <2>2, OneOpened DEF places
    <3>. QED
      BY <1>1, <3>3
  <2>4. places \in Seq(Places)
    BY <2>1, MovedIs
  <2>. HIDE DEF r, places
  <2>5. /\ Append(places, inner) # <<>> /\ Place(Append(places, inner)) = inner
        /\ Front(Append(places, inner)) = places
    BY <1>1, <2>4, PlaceAppended
  <2>6. Site(r, inner)
    BY <2>3, <2>5 DEF Site
  <2>7. Leads(r, q) /\ Prints(h, r, q)
    BY <2>6 DEF Carried
  <2>8. z = q \o <<d>> /\ q = r \o cs
    <3>1. q \in Seq(Calls)
      BY <2>7 DEF Leads
    <3>. QED
      BY <1>1, <3>1, AppendIsConcat
  <2>. HIDE DEF q
  <2>9. /\ q \in Seq(Calls) /\ Read(q) \in Sites /\ Read(q).legal
        /\ Read(q).places = Append(places, inner) /\ Read(r).deepest <= Read(q).deepest
    BY <2>3, <2>7 DEF Leads
  <2>10. Legal(Read(q), d)
    BY <2>5, <2>9 DEF Legal
  <2>11. /\ z \in Seq(Calls) /\ Read(z) \in Sites /\ Read(z).legal
         /\ Read(q).deepest <= Read(z).deepest /\ Read(z).places = Front(Append(places, inner))
         /\ \A p : Follows(p, Read(q)) /\ Read(z).deepest < MaxDepth => Follows(Given(p, d), Read(z))
    <3>1. d \in Calls /\ d \in Closing
      BY <1>1
    <3>. HIDE DEF z
    <3>2. /\ z \in Seq(Calls) /\ Read(z) \in Sites /\ Read(z).legal
          /\ Read(q).deepest <= Read(z).deepest
          /\ Read(z).places = (IF Read(q).places = <<>> THEN <<>> ELSE Front(Read(q).places))
          /\ \A p : Follows(p, Read(q)) /\ Read(z).deepest < MaxDepth => Follows(Given(p, d), Read(z))
      BY ONLY <3>1, <2>9, <2>10, OneMore DEF z
    <3>3. Read(z).places = Front(Append(places, inner))
      BY <2>5, <2>9, <3>2
    <3>. QED
      BY <3>2, <3>3
  <2>12. s \o all = z
    <3>1. s \o all = (s \o (<<c>> \o cs)) \o <<d>>
      BY ZenonT(60), <1>2, <1>3, <2>1, CallsAssociate
    <3>2. s \o (<<c>> \o cs) = (s \o <<c>>) \o cs
      BY ZenonT(60), <1>1, <1>2, <2>1, CallsAssociate
    <3>. QED
      BY <2>3, <2>8, <3>1, <3>2
  <2>. HIDE DEF z, all
  <2>13. Read(s).deepest <= Read(z).deepest
    <3>. DEFINE i == Read(s).deepest
                j == Read(r).deepest
                k == Read(q).deepest
                l == Read(z).deepest
    <3>1. i \in Nat /\ j \in Nat /\ k \in Nat /\ l \in Nat /\ i <= j /\ j <= k /\ k <= l
      BY <2>1, <2>3, <2>9, <2>11 DEF Sites
    <3>. HIDE DEF i, j, k, l
    <3>2. i <= l
      BY ONLY <3>1
    <3>. QED
      BY <3>2 DEF i, l
  <2>14. Wrote(s, z)
    BY <2>5, <2>11, <2>13 DEF Wrote, places
  <2>15. Prints(g, s, z)
    <3>1. SUFFICES ASSUME NEW p, Follows(p, Read(s)), Read(z).deepest < MaxDepth
                   PROVE  Follows(g[p], Read(z))
      BY DEF Prints
    <3>2. Read(q).deepest < MaxDepth
      BY <2>9, <2>11, <3>1, DeepestOn
    <3>3. Read(r).deepest < MaxDepth
      BY <2>3, <2>9, <3>2, DeepestOn
    <3>4. Follows(Given(p, c), Read(r))
      BY <2>3, <3>1, <3>3
    <3>5. Follows(h[Given(p, c)], Read(q))
      BY <2>7, <3>2, <3>4 DEF Prints
    <3>6. Follows(Given(h[Given(p, c)], d), Read(z))
      BY <2>11, <3>1, <3>5
    <3>7. g[p] = Given(h[Given(p, c)], d)
      BY <3>1, <3>4 DEF Follows
    <3>. QED
      BY <3>6, <3>7
  <2>. QED
    BY <2>12, <2>14, <2>15
<1>. HIDE DEF all
<1>6. Exact(all, g)
  BY <1>4, <1>5 DEF Exact
<1>. QED
  BY <1>6 DEF all

(* A value with nothing in it. *)
LEMMA ExactScalar ==
  ASSUME NEW x \in Strings \cup Others
  PROVE  Exact(<<x>>, [p \in Printers |-> Given(p, x)])
<1>. DEFINE g == [p \in Printers |-> Given(p, x)]
<1>1. x \in Calls /\ x \notin Opening \cup Closing
  BY TokensDiffer DEF Calls, Opening, Closing
<1>2. <<x>> \in Seq(Calls)
  BY <1>1
<1>3. ASSUME NEW s, Ready(s)
      PROVE  Wrote(s, s \o <<x>>) /\ Prints(g, s, s \o <<x>>)
  <2>. DEFINE r == Append(s, x)
  <2>1. /\ s \in Seq(Calls) /\ Read(s) \in Sites /\ Read(s).legal /\ Read(s).places \in Seq(Places)
        /\ Place(Read(s).places) # "name" /\ (Place(Read(s).places) = "top" => Read(s).text = <<>>)
    BY <1>3, PlaceTop DEF Ready, Sites
  <2>2. Legal(Read(s), x)
    BY <1>1, <2>1 DEF Legal, Closing
  <2>3. /\ r = s \o <<x>> /\ r \in Seq(Calls) /\ Read(r) \in Sites /\ Read(r).legal
        /\ Read(s).deepest <= Read(r).deepest /\ Read(r).places = Moved(Read(s).places)
        /\ \A p : Follows(p, Read(s)) /\ Read(r).deepest < MaxDepth => Follows(Given(p, x), Read(r))
    BY <1>1, <2>1, <2>2, OneMore
  <2>. HIDE DEF r
  <2>4. Prints(g, s, r)
    <3>1. SUFFICES ASSUME NEW p, Follows(p, Read(s)), Read(r).deepest < MaxDepth
                   PROVE  Follows(g[p], Read(r))
      BY DEF Prints
    <3>2. g[p] = Given(p, x)
      BY <3>1 DEF Follows
    <3>. HIDE DEF g
    <3>. QED
      BY <2>3, <3>1, <3>2
  <2>. HIDE DEF g
  <2>. QED
    BY <2>3, <2>4 DEF Wrote
<1>. HIDE DEF g
<1>4. Exact(<<x>>, g)
  BY <1>2, <1>3 DEF Exact
<1>. QED
  BY <1>4 DEF g

LEMMA SequenceOf ==
  ASSUME NEW m \in Nat, NEW f, f = [n \in 1 .. m |-> f[n]]
  PROVE  IsSeq(f) /\ Len(f) = m
<1>. DEFINE S == {f[n] : n \in 1 .. m}
<1>1. f \in [1 .. m -> S]
  OBVIOUS
<1>. HIDE DEF S
<1>2. f \in Seq(S)
  BY <1>1, SeqDef
<1>3. DOMAIN f = 1 .. Len(f) /\ Len(f) \in Nat /\ DOMAIN f = 1 .. m
  BY <1>1, <1>2, LenProperties
<1>4. Len(f) = m
  <2>. DEFINE k == Len(f)
  <2>1. k \in Nat /\ 1 .. k = 1 .. m
    BY <1>3
  <2>. HIDE DEF k
  <2>2. m \in 1 .. m \/ m = 0
    OBVIOUS
  <2>3. k \in 1 .. k \/ k = 0
    BY <2>1
  <2>4. m \in 1 .. k \/ m = 0
    BY <2>1, <2>2
  <2>5. k \in 1 .. m \/ k = 0
    BY <2>1, <2>3
  <2>6. k = m
    BY <2>1, <2>4, <2>5
  <2>. QED
    BY <2>6 DEF k
<1>. QED
  BY <1>2, <1>4 DEF IsSeq

LEMMA ExactArray ==
  ASSUME NEW v \in Values, v.kind = "array",
         \A w \in Contents(v) : Exact(CallsOf[w], ToStringAppend[w])
  PROVE  Exact(CallsOf[v], ToStringAppend[v])
<1>. DEFINE css == [n \in DOMAIN v.items |-> CallsOf[v.items[n]]]
            fs == [n \in DOMAIN v.items |-> ToStringAppend[v.items[n]]]
            m == Len(v.items)
            h == [p \in Printers |-> Through(fs, p)]
            g == [p \in Printers |-> Given(Through(fs, Given(p, "[")), "]")]
<1>1. v.items \in Seq(Values)
  BY ValueShape
<1>2. m \in Nat /\ DOMAIN v.items = 1 .. m
  BY <1>1, LenProperties
<1>3. \A n \in 1 .. m : Exact(css[n], fs[n])
  BY <1>2, PartsContained
<1>4. css = [n \in 1 .. m |-> css[n]] /\ fs = [n \in 1 .. m |-> fs[n]]
  BY <1>2
<1>5. CallsOf[v] = <<"[">> \o FlattenSeq(css) \o <<"]">>
  BY CallsOfIs DEF CallsBody
<1>6. ToStringAppend[v] = g
  BY ToStringAppendIs DEF AppendBody
<1>. HIDE DEF css, fs, m
<1>7. IsSeq(css) /\ Len(css) = m /\ Len(fs) = m
  BY <1>2, <1>4, SequenceOf
<1>8. \A n \in 1 .. m : Carried(css[n], fs[n], "item")
  BY <1>3, CarriedItem
<1>9. Carried(FlattenSeq(css), h, "item")
  BY <1>7, <1>8, CarriedAll
<1>10. \A p \in Printers : Given(p, "[") \in Printers => g[p] = Given(h[Given(p, "[")], "]")
  OBVIOUS
<1>. HIDE DEF h, g
<1>11. Exact(<<"[">> \o FlattenSeq(css) \o <<"]">>, g)
  BY <1>9, <1>10, ExactContainer
<1>. QED
  BY <1>5, <1>6, <1>11

LEMMA ExactObject ==
  ASSUME NEW v \in Values, v.kind = "object",
         \A w \in Contents(v) : Exact(CallsOf[w], ToStringAppend[w])
  PROVE  Exact(CallsOf[v], ToStringAppend[v])
<1>. DEFINE css == [n \in DOMAIN v.members |-> <<v.members[n].key>> \o CallsOf[v.members[n].value]]
            fs == [n \in DOMAIN v.members |->
                     [p \in Printers |-> ToStringAppend[v.members[n].value][Given(p, v.members[n].key)]]]
            m == Len(v.members)
            h == [p \in Printers |-> Through(fs, p)]
            g == [p \in Printers |-> Given(Through(fs, Given(p, "{")), "}")]
<1>1. v.members \in Seq([key : Strings, value : Values])
  BY ValueShape
<1>2. m \in Nat /\ DOMAIN v.members = 1 .. m
  BY <1>1, LenProperties
<1>3. \A n \in 1 .. m : Carried(css[n], fs[n], "name")
  <2>. TAKE n \in 1 .. m
  <2>. DEFINE key == v.members[n].key
              w == v.members[n].value
  <2>1. key \in Strings
    <3>1. v.members[n] \in [key : Strings, value : Values]
      BY <1>1, ElementOfSeq
    <3>. QED
      BY <3>1
  <2>2. Exact(CallsOf[w], ToStringAppend[w])
    BY SMTT(40), <1>2, PartsContained
  <2>3. css[n] = <<key>> \o CallsOf[w]
        /\ fs[n] = [p \in Printers |-> ToStringAppend[w][Given(p, key)]]
    <3>1. n \in DOMAIN v.members
      BY <1>2
    <3>. QED
      BY <3>1, Zenon
  <2>. HIDE DEF key, w, css, fs
  <2>4. Carried(<<key>> \o CallsOf[w], [p \in Printers |-> ToStringAppend[w][Given(p, key)]], "name")
    BY <2>1, <2>2, CarriedMember
  <2>. QED
    BY <2>3, <2>4
<1>4. css = [n \in 1 .. m |-> css[n]] /\ fs = [n \in 1 .. m |-> fs[n]]
  BY SMTT(40), <1>2
<1>5. CallsOf[v] = <<"{">> \o FlattenSeq(css) \o <<"}">>
  BY CallsOfIs DEF CallsBody
<1>6. ToStringAppend[v] = g
  BY ToStringAppendIs DEF AppendBody
<1>. HIDE DEF css, fs, m
<1>7. IsSeq(css) /\ Len(css) = m /\ Len(fs) = m
  BY <1>2, <1>4, SequenceOf
<1>8. Carried(FlattenSeq(css), h, "name")
  BY <1>3, <1>7, CarriedAll
<1>9. \A p \in Printers : Given(p, "{") \in Printers => g[p] = Given(h[Given(p, "{")], "}")
  OBVIOUS
<1>. HIDE DEF h, g
<1>10. Exact(<<"{">> \o FlattenSeq(css) \o <<"}">>, g)
  BY <1>8, <1>9, ExactContainer
<1>. QED
  BY <1>5, <1>6, <1>10

(* Layer by layer, every value is printed as its calls are. *)
LEMMA ExactAll ==
  ASSUME NEW v \in Values
  PROVE  Exact(CallsOf[v], ToStringAppend[v])
<1>. DEFINE T == {n \in 0 .. Len(Layers) :
                    ~ \A w \in Upto(n) : Exact(CallsOf[w], ToStringAppend[w])}
<1>1. T = {}
  <2>1. SUFFICES ASSUME T # {} PROVE FALSE
    OBVIOUS
  <2>2. T \subseteq Nat
    BY LayersTyped
  <2>3. PICK n \in T : \A j \in T : ~(j < n)
    <3>. HIDE DEF T
    <3>. QED
      BY <2>1, <2>2, LeastOf
  <2>4. n \in 0 .. Len(Layers) /\ ~ \A w \in Upto(n) : Exact(CallsOf[w], ToStringAppend[w])
    BY <2>3
  <2>5. n # 0
    BY <2>4, UptoIs
  <2>6. n - 1 \in 0 .. Len(Layers) /\ n - 1 < n /\ n \in 1 .. Len(Layers)
    BY <2>4, <2>5, LayersTyped
  <2>7. \A w \in Upto(n - 1) : Exact(CallsOf[w], ToStringAppend[w])
    BY <2>3, <2>6
  <2>8. ASSUME NEW w \in Upto(n) PROVE Exact(CallsOf[w], ToStringAppend[w])
    <3>1. w \in Values /\ \A x \in Contents(w) : Exact(CallsOf[x], ToStringAppend[x])
      BY <2>6, <2>7, ContentsBefore
    <3>2. CASE w.kind = "array"
      BY <3>1, <3>2, ExactArray
    <3>3. CASE w.kind = "object"
      BY <3>1, <3>3, ExactObject
    <3>4. CASE w.kind = "scalar"
      <4>1. w.is \in Strings \cup Others
        BY <3>1, <3>4, ValueShape
      <4>2. CallsOf[w] = <<w.is>> /\ ToStringAppend[w] = [p \in Printers |-> Given(p, w.is)]
        BY <3>1, <3>4, CallsOfIs, ToStringAppendIs DEF CallsBody, AppendBody
      <4>. QED
        BY <4>1, <4>2, ExactScalar
    <3>. QED
      BY <3>1, <3>2, <3>3, <3>4, ValueShape
  <2>. QED
    BY <2>4, <2>8
<1>2. Len(Layers) \in 0 .. Len(Layers)
  BY LayersTyped
<1>. QED
  BY <1>1, <1>2, UptoIs

(* The last text is that of the value it was asked of. *)
Asked == source # NULL => /\ source \in Values
                          /\ result.text = ToStringAppend[source][Printer].out

LEMMA AskedInvariance == Spec => []Asked
<1>1. Init => Asked
  BY DEF Init, Asked
<1>2. ASSUME IInv, Asked, [Next]_vars
      PROVE  Asked'
  <2>1. ASSUME NEW opened \in {"none", "object", "array"}, JStream(opened)
        PROVE  Asked'
    BY <2>1 DEF JStream, Asked
  <2>2. ASSUME NEW c \in Calls, Call(c)
        PROVE  Asked'
    BY <1>2, <2>2 DEF Call, Asked
  <2>3. ASSUME Finish
        PROVE  Asked'
    BY <2>3 DEF Finish, Asked
  <2>4. ASSUME NEW v \in Values, NEW schema \in BOOLEAN, JvalueToString(v, schema)
        PROVE  Asked'
    <3>1. CASE schema
      <4>. DEFINE text == ToStringAppend[v][Printer].out
      <4>1. source' = v /\ result' = [text |-> text, status |-> "GEN_OK"]
        BY <2>4, <3>1 DEF JvalueToString, Finished
      <4>2. result'.text = text
        BY <4>1
      <4>. QED
        BY <2>4, <4>1, <4>2 DEF Asked
    <3>2. CASE ~schema
      BY <2>4, <3>2 DEF JvalueToString, Asked
    <3>. QED
      BY <3>1, <3>2
  <2>5. CASE UNCHANGED vars
    BY <1>2, <2>5 DEF vars, Asked
  <2>. QED
    BY <1>2, <2>1, <2>2, <2>3, <2>4, <2>5 DEF Next
<1>. QED
  BY <1>1, <1>2, Invariance, PTL DEF Spec

(* jvalue_tostring gives, of any value whose containers are fewer than
   YAJL_MAX_DEPTH deep, the text that its calls, read one by one against the
   grammar, make; and they are always legal and always a whole document
   (jvalue_to_string_append, jgen_stream.c, yajl_gen.c). *)
THEOREM ToStringExactHolds == Spec => []ToStringExact
<1>1. Asked => ToStringExact
  <2>. SUFFICES ASSUME Asked, source # NULL PROVE ToStringExact
    BY DEF ToStringExact
  <2>. DEFINE cs == CallsOf[source]
              h == ToStringAppend[source]
  <2>1. source \in Values /\ result.text = h[Printer].out
    BY DEF Asked
  <2>2. Exact(cs, h)
    BY <2>1, ExactAll
  <2>. HIDE DEF cs, h
  <2>3. Ready(<<>>)
    <3>1. <<>> \in Seq(Calls)
      BY EmptySeq
    <3>2. Beginning.legal /\ Beginning.places = <<>> /\ Beginning.text = <<>>
      BY DEF Beginning
    <3>3. Place(<<>>) = "top"
      BY DEF Place
    <3>. QED
      BY <3>1, <3>2, <3>3, ReadEmpty, BeginningTyped DEF Ready
  <2>4. <<>> \o cs = cs
    BY <2>2, ConcatEmptySeq DEF Exact
  <2>5. Wrote(<<>>, cs) /\ Prints(h, <<>>, cs)
    BY <2>2, <2>3, <2>4 DEF Exact
  <2>6. Read(cs).places = <<>>
    <3>1. Read(<<>>).places = <<>>
      BY ReadEmpty DEF Beginning
    <3>2. Moved(<<>>) = <<>>
      BY DEF Moved, Place
    <3>. QED
      BY <2>5, <3>1, <3>2 DEF Wrote
  <2>7. ASSUME Within(Read(cs)) PROVE result.text = Read(cs).text
    <3>1. Follows(h[Printer], Read(cs))
      BY <2>5, <2>7, ReadEmpty, PrinterFollows DEF Prints, Within
    <3>. QED
      BY <2>1, <3>1 DEF Follows
  <2>. QED
    BY <2>5, <2>6, <2>7 DEF ToStringExact, Wrote, cs
<1>. QED
  BY <1>1, AskedInvariance, PTL
===============================================================================
