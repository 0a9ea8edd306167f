--------------------------- MODULE JValidator_proofs ----------------------------
(***************************************************************************)
(* Proofs about JValidator: for every set of schemas, whatever the         *)
(* resolver returns and for every text, the validator's stack follows the  *)
(* nesting of the text.  What the hierarchies of schemas are, which        *)
(* recursive definitions and folds compute, does not matter for that.      *)
(***************************************************************************)
EXTENDS JValidator, SeqLemmas, TLAPS

-------------------------------------------------------------------------------
(* The inductive invariant. *)

IsState(s) ==
  /\ s = [allowed |-> s.allowed, disallowed |-> s.disallowed, schemas |-> s.schemas,
          seenKeys |-> s.seenKeys, numItems |-> s.numItems, opened |-> s.opened]
  /\ s.allowed \subseteq AllTypes
  /\ s.disallowed \subseteq AllTypes
  /\ s.seenKeys \subseteq Keys
  /\ s.numItems \in Nat
  /\ s.opened \in BOOLEAN

IsFrame(f) ==
  /\ f = [kind |-> f.kind, name |-> f.name, members |-> f.members]
  /\ f.kind \in {"object", "array"}
  /\ f.kind = "array" => f.name = NULL
  /\ IsSeq(f.members)

Stack(q) == IsSeq(q) /\ \A i \in 1 .. Len(q) : IsState(q[i])

(* Around an open container, an object waits for the value of a name. *)
Waiting(f) == f.kind = "object" => f.name # NULL

Text(fs) ==
  /\ IsSeq(fs)
  /\ \A i \in 1 .. Len(fs) : IsFrame(fs[i])
  /\ \A i \in 1 .. Len(fs) - 1 : Waiting(fs[i])

(* The state of a value that has not begun. *)
Untouched(s) == s.opened = FALSE /\ s.seenKeys = {} /\ s.numItems = 0

Aligned(q, fs, awaited) ==
  /\ Len(q) = Len(fs) + (IF awaited THEN 1 ELSE 0)
  /\ \A i \in 1 .. Len(fs) : SeesFrame(q[i], fs[i], IF i < Len(fs) THEN 1 ELSE 0)
  /\ awaited => Untouched(q[Len(q)])

IInv ==
  /\ refused \in BOOLEAN
  /\ written \in 0 .. MaxEvents
  /\ Stack(states)
  /\ Text(frames)
  /\ IF refused THEN states = <<>> ELSE Aligned(states, frames, AwaitedValue)

-------------------------------------------------------------------------------
(* The states the handlers make. *)

LEMMA TypesOfNames == ASSUME NEW names PROVE TypesOf(names) \subseteq AllTypes
BY DEF TypesOf, ParseType, AllTypes, NumTypes

LEMMA TypesAtIndex ==
  ASSUME NEW hierarchy, NEW i PROVE TypesAt(hierarchy, i) \subseteq AllTypes
BY TypesOfNames DEF TypesAt

LEMMA PossibleTypes ==
  ASSUME NEW hierarchy
  PROVE  /\ Possibilities(hierarchy).allowed \subseteq AllTypes
         /\ Possibilities(hierarchy).disallowed \subseteq AllTypes
BY TypesAtIndex DEF Possibilities

(* A state that is pushed stands for a value that has not begun. *)
LEMMA NewState ==
  ASSUME NEW hierarchy
  PROVE  IsState(State(hierarchy)) /\ Untouched(State(hierarchy))
BY PossibleTypes DEF State, IsState, Untouched

LEMMA StateWithType ==
  ASSUME NEW s, IsState(s), NEW type \in AllTypes
  PROVE  LET r == [s EXCEPT !.allowed = {type}]
         IN  /\ IsState(r)
             /\ r.allowed = {type} /\ r.opened = s.opened
             /\ r.seenKeys = s.seenKeys /\ r.numItems = s.numItems
BY DEF IsState

LEMMA StateWithKey ==
  ASSUME NEW s, IsState(s), NEW k \in Keys
  PROVE  LET r == [s EXCEPT !.seenKeys = s.seenKeys \cup {k}]
         IN  /\ IsState(r)
             /\ r.allowed = s.allowed /\ r.opened = s.opened
             /\ r.seenKeys = s.seenKeys \cup {k} /\ r.numItems = s.numItems
BY DEF IsState

LEMMA StateWithOpened ==
  ASSUME NEW s, IsState(s), NEW o \in BOOLEAN
  PROVE  LET r == [s EXCEPT !.opened = o]
         IN  /\ IsState(r)
             /\ r.allowed = s.allowed /\ r.opened = o
             /\ r.seenKeys = s.seenKeys /\ r.numItems = s.numItems
BY DEF IsState

LEMMA StateOpened ==
  ASSUME NEW s, IsState(s)
  PROVE  LET r == [s EXCEPT !.opened = TRUE]
         IN  /\ IsState(r)
             /\ r.allowed = s.allowed /\ r.opened = TRUE
             /\ r.seenKeys = s.seenKeys /\ r.numItems = s.numItems
BY StateWithOpened

LEMMA PushOutcome ==
  ASSUME NEW q, NEW hierarchy
  PROVE  LET r == Push(q, hierarchy)
         IN  \/ r = [ok |-> FALSE, stack |-> <<>>]
             \/ r = [ok |-> TRUE, stack |-> Append(q, State(hierarchy))]
BY DEF Push, Refusal, Outcome

LEMMA StackAppend ==
  ASSUME NEW q, Stack(q), NEW s, IsState(s)
  PROVE  /\ Stack(Append(q, s))
         /\ Len(Append(q, s)) = Len(q) + 1
         /\ \A i \in 1 .. Len(q) : Append(q, s)[i] = q[i]
         /\ Append(q, s)[Len(q) + 1] = s
<1>1. IsSeq(q) /\ Len(q) \in Nat /\ \A i \in 1 .. Len(q) : IsState(q[i])
  BY SeqFacts DEF Stack
<1>. QED
  BY <1>1, AppendFacts DEF Stack

LEMMA StackFront ==
  ASSUME NEW q, Stack(q), q # <<>>
  PROVE  /\ Stack(Front(q))
         /\ Len(Front(q)) = Len(q) - 1
         /\ \A i \in 1 .. Len(q) - 1 : Front(q)[i] = q[i]
<1>1. IsSeq(q) /\ Len(q) \in Nat /\ \A i \in 1 .. Len(q) : IsState(q[i])
  BY SeqFacts DEF Stack
<1>. QED
  BY <1>1, FrontFacts DEF Stack

LEMMA StackReplaced ==
  ASSUME NEW q, Stack(q), q # <<>>, NEW s, IsState(s)
  PROVE  LET r == Append(Front(q), s)
         IN  /\ Stack(r)
             /\ Len(r) = Len(q)
             /\ \A i \in 1 .. Len(q) - 1 : r[i] = q[i]
             /\ r[Len(q)] = s
<1>1. IsSeq(q) /\ Len(q) \in Nat /\ \A i \in 1 .. Len(q) : IsState(q[i])
  BY SeqFacts DEF Stack
<1>. QED
  BY <1>1, ReplacedFacts DEF Stack

(* What a value that begins finds on top of the stack: in an open array the
   state of a new item, counted in the one below. *)
Counts(q) == "array" \in Last(q).allowed /\ Last(q).opened

LEMMA Begun ==
  ASSUME NEW q, Stack(q), q # <<>>
  PROVE  LET r == NextStateSimple(q)
             n == Len(q)
         IN  \/ r = [ok |-> FALSE, stack |-> <<>>]
             \/ ~Counts(q) /\ r = [ok |-> TRUE, stack |-> q]
             \/ /\ Counts(q)
                /\ r.ok = TRUE
                /\ Stack(r.stack) /\ Len(r.stack) = n + 1
                /\ \A i \in 1 .. n - 1 : r.stack[i] = q[i]
                /\ r.stack[n] = [Last(q) EXCEPT !.numItems = Last(q).numItems + 1]
                /\ Untouched(r.stack[n + 1])
<1>. DEFINE here == Last(q)
            m == here.numItems + 1
            item == ItemHierarchy(here.schemas, m)
            counted == [here EXCEPT !.numItems = m]
            below == Append(Front(q), counted)
<1>1. Len(q) \in Nat \ {0} /\ here = q[Len(q)] /\ IsState(here)
  BY SeqFacts DEF Stack, Last
<1>2. CASE ~Counts(q)
  BY <1>2 DEF NextStateSimple, Counts, Outcome
<1>3. CASE Counts(q) /\ ~item.ok
  BY <1>3 DEF NextStateSimple, Counts, Refusal, Outcome
<1>4. CASE Counts(q) /\ item.ok
  <2>1. NextStateSimple(q) = Push(below, item.array)
    BY <1>4 DEF NextStateSimple, Counts
  <2>2. IsState(counted)
    BY <1>1 DEF IsState
  <2>. HIDE DEF counted
  <2>3. /\ Stack(below) /\ Len(below) = Len(q)
        /\ \A i \in 1 .. Len(q) - 1 : below[i] = q[i]
        /\ below[Len(q)] = counted
    BY <2>2, StackReplaced
  <2>. HIDE DEF below, item
  <2>4. /\ Stack(Append(below, State(item.array)))
        /\ Len(Append(below, State(item.array))) = Len(q) + 1
        /\ \A i \in 1 .. Len(q) : Append(below, State(item.array))[i] = below[i]
        /\ Append(below, State(item.array))[Len(q) + 1] = State(item.array)
    BY <2>3, StackAppend, NewState
  <2>5. CASE NextStateSimple(q) = [ok |-> FALSE, stack |-> <<>>]
    BY <2>5
  <2>6. CASE NextStateSimple(q) = [ok |-> TRUE, stack |-> Append(below, State(item.array))]
    <3>1. /\ NextStateSimple(q).ok = TRUE
          /\ NextStateSimple(q).stack = Append(below, State(item.array))
      BY <2>6
    <3>2. Append(below, State(item.array))[Len(q)] = counted
      BY <1>1, <2>3, <2>4
    <3>3. \A i \in 1 .. Len(q) - 1 : Append(below, State(item.array))[i] = q[i]
      BY <1>1, <2>3, <2>4
    <3>. QED
      BY <1>4, <2>4, <3>1, <3>2, <3>3, NewState DEF counted
  <2>. QED
    BY <2>1, <2>5, <2>6, PushOutcome
<1>. QED
  BY <1>2, <1>3, <1>4

-------------------------------------------------------------------------------
(* The text. *)

LEMMA TextFacts ==
  ASSUME NEW fs, Text(fs)
  PROVE  /\ IsSeq(fs) /\ Len(fs) \in Nat /\ DOMAIN fs = 1 .. Len(fs)
         /\ fs = <<>> <=> Len(fs) = 0
         /\ \A i \in 1 .. Len(fs) : IsFrame(fs[i])
         /\ \A i \in 1 .. Len(fs) - 1 : Waiting(fs[i])
         /\ fs # <<>> => /\ Last(fs) = fs[Len(fs)]
                         /\ Len(fs) \in 1 .. Len(fs)
BY SeqFacts DEF Text, Last

LEMMA NewFrame ==
  ASSUME NEW kind \in {"object", "array"}
  PROVE  /\ IsFrame(Frame(kind)) /\ NamesIn(Frame(kind)) = {}
         /\ Frame(kind).kind = kind /\ Frame(kind).name = NULL
         /\ Len(Frame(kind).members) = 0
<1>1. Frame(kind) = [kind |-> kind, name |-> NULL, members |-> <<>>]
  BY DEF Frame
<1>2. IsSeq(<<>>) /\ Len(<<>>) = 0 /\ DOMAIN <<>> = {}
  BY EmptyIsSeq, SeqFacts
<1>. QED
  BY <1>1, <1>2 DEF IsFrame, NamesIn

(* A container that has got one more value. *)
LEMMA PlacedFrame ==
  ASSUME NEW f, IsFrame(f), NEW v
  PROVE  LET g == Placed(f, v)
         IN  /\ IsFrame(g) /\ g.kind = f.kind /\ g.name = NULL
             /\ Len(g.members) = Len(f.members) + 1
             /\ f.kind = "object" => NamesIn(g) = NamesIn(f) \cup {f.name}
<1>. DEFINE e == IF f.kind = "array" THEN v ELSE [name |-> f.name, value |-> v]
            ms == Append(f.members, e)
<1>1. Placed(f, v) = [kind |-> f.kind, name |-> NULL, members |-> ms]
  BY DEF Placed
<1>2. IsSeq(f.members) /\ Len(f.members) \in Nat /\ DOMAIN f.members = 1 .. Len(f.members)
  BY SeqFacts DEF IsFrame
<1>. HIDE DEF e
<1>3. /\ IsSeq(ms) /\ Len(ms) = Len(f.members) + 1
      /\ \A i \in 1 .. Len(f.members) : ms[i] = f.members[i]
      /\ ms[Len(f.members) + 1] = e
  BY <1>2, AppendFacts
<1>4. DOMAIN ms = 1 .. Len(f.members) + 1
  BY <1>2, <1>3, SeqFacts
<1>. HIDE DEF ms
<1>5. ASSUME f.kind = "object"
      PROVE  {ms[i].name : i \in DOMAIN ms}
               = {f.members[i].name : i \in DOMAIN f.members} \cup {f.name}
  <2>1. e.name = f.name
    BY <1>5 DEF e
  <2>2. \A i \in 1 .. Len(f.members) + 1 :
           i \in 1 .. Len(f.members) \/ i = Len(f.members) + 1
    BY <1>2
  <2>3. ASSUME NEW i \in DOMAIN ms
        PROVE  ms[i].name \in {f.members[j].name : j \in DOMAIN f.members} \cup {f.name}
    BY <1>2, <1>3, <1>4, <2>1, <2>2
  <2>4. ASSUME NEW i \in DOMAIN f.members
        PROVE  f.members[i].name \in {ms[j].name : j \in DOMAIN ms}
    BY <1>2, <1>3, <1>4
  <2>5. f.name \in {ms[j].name : j \in DOMAIN ms}
    BY <1>2, <1>3, <1>4, <2>1
  <2>. QED
    BY <2>3, <2>4, <2>5
<1>6. /\ Placed(f, v).kind = f.kind /\ Placed(f, v).name = NULL
      /\ Placed(f, v).members = ms
  BY <1>1
<1>7. IsFrame(Placed(f, v))
  BY <1>1, <1>3, <1>6 DEF IsFrame
<1>. QED
  BY <1>3, <1>5, <1>6, <1>7 DEF NamesIn

(* All containers wait for the value that is placed. *)
AllWaiting(fs) == \A i \in 1 .. Len(fs) : Waiting(fs[i])

LEMMA PlacedText ==
  ASSUME NEW fs, Text(fs), AllWaiting(fs), NEW v, Place(fs, v)
  PROVE  /\ Text(frames') /\ Len(frames') = Len(fs)
         /\ fs = <<>> => frames' = <<>> /\ doc' = <<v>>
         /\ fs # <<>> => frames'[Len(fs)] = Placed(fs[Len(fs)], v)
         /\ \A i \in 1 .. Len(fs) - 1 : frames'[i] = fs[i]
<1>1. CASE fs = <<>>
  BY <1>1, EmptyIsSeq, TextFacts DEF Place, Text
<1>2. CASE fs # <<>>
  <2>1. /\ IsSeq(fs) /\ Len(fs) \in Nat \ {0} /\ Last(fs) = fs[Len(fs)]
        /\ \A i \in 1 .. Len(fs) : IsFrame(fs[i])
        /\ IsFrame(Placed(fs[Len(fs)], v))
    BY <1>2, TextFacts, PlacedFrame
  <2>2. frames' = Append(Front(fs), Placed(fs[Len(fs)], v))
    BY <1>2, <2>1 DEF Place
  <2>3. /\ IsSeq(frames') /\ Len(frames') = Len(fs)
        /\ \A i \in 1 .. Len(fs) - 1 : frames'[i] = fs[i]
        /\ frames'[Len(fs)] = Placed(fs[Len(fs)], v)
    BY <1>2, <2>1, <2>2, ReplacedFacts
  <2>4. \A i \in 1 .. Len(fs) : IsFrame(frames'[i])
    BY <2>1, <2>3
  <2>5. \A i \in 1 .. Len(fs) - 1 : Waiting(frames'[i])
    BY <2>1, <2>3 DEF AllWaiting
  <2>. QED
    BY <1>2, <2>3, <2>4, <2>5 DEF Text
<1>. QED
  BY <1>1, <1>2

(* The stack when each of its values has another inside of it. *)
Around(q, fs) ==
  /\ Stack(q) /\ Len(q) = Len(fs)
  /\ \A i \in 1 .. Len(fs) : SeesFrame(q[i], fs[i], 1)

LEMMA PlacedAligned ==
  ASSUME NEW fs, Text(fs), AllWaiting(fs), NEW v, Place(fs, v),
         Around(states', fs)
  PROVE  Aligned(states', frames', AwaitedValue')
<1>1. /\ Text(frames') /\ Len(frames') = Len(fs) /\ Len(fs) \in Nat
      /\ fs = <<>> => frames' = <<>> /\ doc' = <<v>>
      /\ fs # <<>> => frames'[Len(fs)] = Placed(fs[Len(fs)], v)
      /\ \A i \in 1 .. Len(fs) - 1 : frames'[i] = fs[i]
  BY PlacedText, TextFacts
<1>2. CASE fs = <<>>
  <2>1. doc' # <<>>
    <3>1. Len(<<v>>) = 1 /\ Len(<<>>) = 0
      BY OneIsSeq, EmptyIsSeq
    <3>. QED
      BY <1>1, <1>2, <3>1
  <2>2. ~AwaitedValue'
    BY <1>1, <1>2, <2>1 DEF AwaitedValue, Ready, Open
  <2>. QED
    BY <1>1, <1>2, <2>2, EmptyIsSeq DEF Aligned, Around
<1>3. CASE fs # <<>>
  <2>1. /\ Len(fs) \in Nat \ {0} /\ IsFrame(fs[Len(fs)])
        /\ frames' # <<>> /\ Last(frames') = frames'[Len(fs)]
    BY <1>1, <1>3, TextFacts DEF Last
  <2>2. LET g == Placed(fs[Len(fs)], v)
            f == fs[Len(fs)]
        IN  /\ g.kind = f.kind /\ g.name = NULL
            /\ Len(g.members) = Len(f.members) + 1
            /\ f.kind = "object" => NamesIn(g) = NamesIn(f) \cup {f.name}
            /\ Len(f.members) \in Nat
            /\ f.kind \in {"object", "array"}
            /\ f.kind = "object" => f.name # NULL
    <3>1. Waiting(fs[Len(fs)]) /\ Len(fs[Len(fs)].members) \in Nat
      BY <2>1, SeqFacts DEF AllWaiting, IsFrame
    <3>. QED
      BY <2>1, <3>1, PlacedFrame DEF Waiting, IsFrame
  <2>3. ~AwaitedValue'
    BY <1>1, <1>3, <2>1, <2>2 DEF AwaitedValue, Ready, Open, Top
  <2>4. SeesFrame(states'[Len(fs)], frames'[Len(fs)], 0)
    <3>1. SeesFrame(states'[Len(fs)], fs[Len(fs)], 1)
      BY <2>1 DEF Around
    <3>. QED
      BY <1>1, <1>3, <2>2, <3>1 DEF SeesFrame
  <2>5. \A i \in 1 .. Len(fs) - 1 : SeesFrame(states'[i], frames'[i], 1)
    BY <1>1, <2>1 DEF Around
  <2>. QED
    BY <1>1, <1>3, <2>1, <2>3, <2>4, <2>5 DEF Aligned, Around
<1>. QED
  BY <1>2, <1>3

-------------------------------------------------------------------------------
(* What the handlers do to an aligned stack. *)

LEMMA ReadyWaits == ASSUME Text(frames), Ready PROVE AllWaiting(frames)
<1>1. CASE frames = <<>>
  BY <1>1, TextFacts DEF AllWaiting
<1>2. CASE frames # <<>>
  <2>1. Len(frames) \in Nat \ {0} /\ Waiting(frames[Len(frames)])
    BY <1>2, TextFacts DEF Ready, Open, Top, Waiting
  <2>. QED
    BY <2>1, TextFacts DEF AllWaiting
<1>. QED
  BY <1>1, <1>2

(* The stack of a value that has begun: an untouched state on those of the
   containers around it. *)
Inside(q, fs) ==
  /\ Stack(q) /\ Len(q) = Len(fs) + 1
  /\ \A i \in 1 .. Len(fs) : SeesFrame(q[i], fs[i], 1)
  /\ Untouched(q[Len(fs) + 1])

LEMMA Entered ==
  ASSUME IInv, ~refused, Ready
  PROVE  LET r == NextStateSimple(states)
         IN  \/ r = [ok |-> FALSE, stack |-> <<>>]
             \/ r.ok = TRUE /\ Inside(r.stack, frames)
<1>. DEFINE n == Len(frames)
            r == NextStateSimple(states)
<1>1. /\ Stack(states) /\ Text(frames) /\ Aligned(states, frames, AwaitedValue)
      /\ Len(states) \in Nat /\ n \in Nat
  BY SeqFacts, TextFacts DEF IInv, Stack
<1>2. CASE frames # <<>> /\ frames[n].kind = "array"
  <2>1. /\ n \in Nat \ {0} /\ Last(frames) = frames[n] /\ IsFrame(frames[n])
        /\ Len(frames[n].members) \in Nat
    <3>1. n \in Nat \ {0} /\ Last(frames) = frames[n] /\ IsFrame(frames[n])
      BY <1>1, <1>2, TextFacts
    <3>. QED
      BY <3>1, SeqFacts DEF IsFrame
  <2>2. ~AwaitedValue
    BY <1>2, <2>1 DEF AwaitedValue, Open, Top
  <2>3. /\ Len(states) = n /\ states # <<>> /\ Last(states) = states[n]
        /\ SeesFrame(states[n], frames[n], 0) /\ IsState(states[n])
        /\ \A i \in 1 .. n - 1 : SeesFrame(states[i], frames[i], 1)
    <3>1. Len(states) = n
      BY <1>1, <2>1, <2>2 DEF Aligned
    <3>2. states # <<>> /\ Last(states) = states[n] /\ IsState(states[n])
      BY <1>1, <2>1, <3>1, SeqFacts DEF Stack, Last
    <3>3. SeesFrame(states[n], frames[n], 0)
      BY <1>1, <2>1 DEF Aligned
    <3>4. \A i \in 1 .. n - 1 : SeesFrame(states[i], frames[i], 1)
      BY <1>1, <2>1 DEF Aligned
    <3>. QED
      BY <3>1, <3>2, <3>3, <3>4
  <2>4. /\ Counts(states) /\ states[n].allowed = {"array"} /\ states[n].opened = TRUE
        /\ states[n].numItems = Len(frames[n].members)
    <3>1. /\ states[n].allowed = {"array"}
          /\ states[n].numItems = Len(frames[n].members) + 0
          /\ states[n].opened = (frames[n].kind = "array")
      BY <1>2, <2>3 DEF SeesFrame
    <3>2. states[n].opened = TRUE
      BY <1>2, <3>1, Zenon
    <3>3. states[n].numItems = Len(frames[n].members)
      BY <2>1, <3>1
    <3>. QED
      BY <2>3, <3>1, <3>2, <3>3 DEF Counts
  <2>5. CASE r = [ok |-> FALSE, stack |-> <<>>]
    BY <2>5
  <2>6. CASE /\ r.ok = TRUE
             /\ Stack(r.stack) /\ Len(r.stack) = n + 1
             /\ \A i \in 1 .. n - 1 : r.stack[i] = states[i]
             /\ r.stack[n] = [states[n] EXCEPT !.numItems = states[n].numItems + 1]
             /\ Untouched(r.stack[n + 1])
    <3>1. SeesFrame(r.stack[n], frames[n], 1)
      <4>1. /\ r.stack[n].allowed = states[n].allowed
            /\ r.stack[n].opened = states[n].opened
            /\ r.stack[n].numItems = states[n].numItems + 1
        BY <2>3, <2>6 DEF IsState
      <4>. QED
        BY <1>2, <2>4, <4>1 DEF SeesFrame
    <3>2. \A i \in 1 .. n - 1 : SeesFrame(r.stack[i], frames[i], 1)
      BY <2>3, <2>6
    <3>. QED
      BY <2>1, <2>6, <3>1, <3>2 DEF Inside
  <2>. HIDE DEF r
  <2>7. \/ r = [ok |-> FALSE, stack |-> <<>>]
        \/ /\ r.ok = TRUE
           /\ Stack(r.stack) /\ Len(r.stack) = Len(states) + 1
           /\ \A i \in 1 .. Len(states) - 1 : r.stack[i] = states[i]
           /\ r.stack[Len(states)]
                = [Last(states) EXCEPT !.numItems = Last(states).numItems + 1]
           /\ Untouched(r.stack[Len(states) + 1])
    BY <1>1, <2>3, <2>4, Begun DEF r
  <2>. QED
    BY <2>3, <2>5, <2>6, <2>7 DEF r
<1>3. CASE ~(frames # <<>> /\ frames[n].kind = "array")
  <2>1. AwaitedValue
    BY <1>1, <1>3, TextFacts DEF AwaitedValue, Open, Top, IsFrame
  <2>2. /\ Len(states) = n + 1 /\ states # <<>> /\ Last(states) = states[n + 1]
        /\ Untouched(states[n + 1])
    BY <1>1, <2>1, SeqFacts DEF Aligned, Stack, Last
  <2>3. ~Counts(states)
    BY <2>2 DEF Counts, Untouched
  <2>4. ASSUME NEW i \in 1 .. n PROVE SeesFrame(states[i], frames[i], 1)
    <3>1. SeesFrame(states[i], frames[i], IF i < n THEN 1 ELSE 0)
      BY <1>1 DEF Aligned
    <3>2. CASE i < n
      BY <3>1, <3>2
    <3>3. CASE i = n
      <4>1. frames[n].kind # "array"
        BY <1>1, <1>3, <3>3, TextFacts
      <4>. QED
        BY <1>1, <3>1, <3>3, <4>1 DEF SeesFrame
    <3>. QED
      BY <1>1, <3>2, <3>3
  <2>5. r = [ok |-> FALSE, stack |-> <<>>] \/ r = [ok |-> TRUE, stack |-> states]
    BY <1>1, <2>2, <2>3, Begun
  <2>. QED
    BY <1>1, <2>2, <2>4, <2>5 DEF Inside
<1>. QED
  BY <1>2, <1>3

(* The same when the handler has checked and fixed the type of the value. *)
LEMMA Typed ==
  ASSUME IInv, ~refused, Ready, NEW type \in AllTypes
  PROVE  LET r == NextState(states, type)
         IN  \/ r = [ok |-> FALSE, stack |-> <<>>]
             \/ /\ r.ok = TRUE /\ Inside(r.stack, frames)
                /\ r.stack[Len(frames) + 1].allowed = {type}
<1>. DEFINE next == NextStateSimple(states)
            here == Last(next.stack)
            n == Len(frames)
            fixed == [here EXCEPT !.allowed = {type}]
            made == Append(Front(next.stack), fixed)
<1>1. CASE ~next.ok \/ type \in here.disallowed \/ type \notin here.allowed
  BY <1>1 DEF NextState, Refusal, Outcome
<1>2. CASE ~(~next.ok \/ type \in here.disallowed \/ type \notin here.allowed)
  <2>1. NextState(states, type) = [ok |-> TRUE, stack |-> made]
    BY <1>2 DEF NextState, Outcome
  <2>2. Inside(next.stack, frames) /\ n \in Nat
    <3>1. n \in Nat
      BY TextFacts DEF IInv
    <3>2. CASE next = [ok |-> FALSE, stack |-> <<>>]
      BY <1>2, <3>2
    <3>3. CASE next.ok = TRUE /\ Inside(next.stack, frames)
      BY <3>1, <3>3
    <3>. QED
      BY <3>2, <3>3, Entered
  <2>. HIDE DEF next
  <2>3. /\ next.stack # <<>> /\ here = next.stack[n + 1] /\ IsState(here)
        /\ Untouched(here) /\ Stack(next.stack) /\ Len(next.stack) = n + 1
    BY <2>2, SeqFacts DEF Inside, Stack, Last
  <2>. HIDE DEF here
  <2>4. IsState(fixed) /\ Untouched(fixed) /\ fixed.allowed = {type}
    BY <2>3, StateWithType DEF Untouched
  <2>. HIDE DEF fixed
  <2>5. /\ Stack(made) /\ Len(made) = n + 1 /\ made[n + 1] = fixed
        /\ \A i \in 1 .. n : made[i] = next.stack[i]
    BY <2>2, <2>3, <2>4, StackReplaced
  <2>6. Inside(made, frames)
    BY <2>2, <2>4, <2>5 DEF Inside
  <2>. QED
    BY <2>1, <2>4, <2>5, <2>6
<1>. QED
  BY <1>1, <1>2

LEMMA Popped ==
  ASSUME NEW q, NEW fs, Text(fs), Inside(q, fs)
  PROVE  Pop(q).ok = TRUE /\ Around(Pop(q).stack, fs)
<1>1. Len(fs) \in Nat /\ Stack(q) /\ q # <<>> /\ Len(q) = Len(fs) + 1
  BY TextFacts, SeqFacts DEF Inside, Stack
<1>2. Pop(q).ok = TRUE /\ Pop(q).stack = Front(q)
  BY DEF Pop, Outcome
<1>3. /\ Stack(Front(q)) /\ Len(Front(q)) = Len(fs)
      /\ \A i \in 1 .. Len(fs) : Front(q)[i] = q[i]
  BY <1>1, StackFront
<1>. QED
  BY <1>1, <1>2, <1>3 DEF Around, Inside

Refuses(outcome) == outcome = [ok |-> FALSE, stack |-> <<>>]

LEMMA ScalarOutcome ==
  ASSUME IInv, ~refused, Ready, NEW v \in Scalars
  PROVE  \/ Refuses(Scalar(states, v))
         \/ Scalar(states, v).ok = TRUE /\ Around(Scalar(states, v).stack, frames)
<1>. DEFINE Fine(o) == o.ok = TRUE /\ Around(o.stack, frames)
<1>1. Text(frames)
  BY DEF IInv
<1>2. ASSUME NEW type \in AllTypes, NEW Accepts(_)
      PROVE  LET o == Checked(NextState(states, type), Accepts)
             IN  Refuses(o) \/ Fine(o)
  <2>. DEFINE next == NextState(states, type)
              o == Checked(next, Accepts)
  <2>1. Refuses(o) \/ (o = Pop(next.stack) /\ next.ok)
    BY DEF Checked, Refusal, Outcome, Refuses
  <2>2. CASE Refuses(next)
    BY <2>1, <2>2 DEF Refuses
  <2>3. CASE next.ok = TRUE /\ Inside(next.stack, frames)
    BY <1>1, <2>1, <2>3, Popped
  <2>. QED
    BY <2>2, <2>3, Typed DEF Refuses
<1>3. CASE v.is = "string"
  <2>1. Scalar(states, v) = Str(states, v)
    BY <1>3 DEF Scalar
  <2>2. "string" \in AllTypes
    BY DEF AllTypes
  <2>. QED
    BY <2>1, <2>2, <1>2 DEF Str
<1>4. CASE v.is = "boolean"
  <2>1. Scalar(states, v) = Bool(states, v)
    BY <1>4 DEF Scalar
  <2>2. "boolean" \in AllTypes
    BY DEF AllTypes
  <2>. QED
    BY <2>1, <2>2, <1>2 DEF Bool
<1>5. CASE v.is = "null"
  <2>1. Scalar(states, v) = Null(states, v)
    BY <1>5 DEF Scalar
  <2>2. "null" \in AllTypes
    BY DEF AllTypes
  <2>. QED
    BY <2>1, <2>2, <1>2 DEF Null
<1>6. CASE v.is = "number"
  <2>. DEFINE next == NextStateSimple(states)
  <2>1. Scalar(states, v) = Num(states, v)
    BY <1>6 DEF Scalar
  <2>2. Refuses(Num(states, v)) \/ (Num(states, v) = Pop(next.stack) /\ next.ok)
    BY DEF Num, Refusal, Outcome, Refuses
  <2>3. CASE Refuses(next)
    BY <2>1, <2>2, <2>3 DEF Refuses
  <2>4. CASE next.ok = TRUE /\ Inside(next.stack, frames)
    BY <1>1, <2>1, <2>2, <2>4, Popped
  <2>. QED
    BY <2>3, <2>4, Entered DEF Refuses
<1>. QED
  BY <1>3, <1>4, <1>5, <1>6, ValidatorConstants DEF ValidatorConstants

(* The stack when a container has been opened. *)
Opened(q, fs, kind) ==
  /\ Stack(q) /\ Len(q) = Len(fs) + 1
  /\ \A i \in 1 .. Len(fs) : SeesFrame(q[i], fs[i], 1)
  /\ SeesFrame(q[Len(fs) + 1], Frame(kind), 0)

LEMMA ObjOutcome ==
  ASSUME IInv, ~refused, Ready
  PROVE  \/ Refuses(Obj(states))
         \/ Obj(states).ok = TRUE /\ Opened(Obj(states).stack, frames, "object")
<1>. DEFINE q == Obj(states).stack
            n == Len(frames)
<1>1. \/ Refuses(Obj(states))
      \/ /\ Obj(states).ok = TRUE /\ Inside(q, frames)
         /\ q[n + 1].allowed = {"object"}
  <2>1. "object" \in AllTypes
    BY DEF AllTypes
  <2>. QED
    BY <2>1, Typed DEF Obj, Refuses
<1>2. ASSUME Inside(q, frames), q[n + 1].allowed = {"object"}
      PROVE  Opened(q, frames, "object")
  <2>1. Untouched(q[n + 1])
    BY <1>2 DEF Inside
  <2>2. SeesFrame(q[n + 1], Frame("object"), 0)
    <3>1. (FALSE) = ("object" = "array")
      OBVIOUS
    <3>. QED
      BY <1>2, <2>1, <3>1, NewFrame DEF SeesFrame, Untouched
  <2>. QED
    BY <1>2, <2>2 DEF Opened, Inside
<1>. QED
  BY <1>1, <1>2

LEMMA ArrOutcome ==
  ASSUME IInv, ~refused, Ready
  PROVE  \/ Refuses(Arr(states))
         \/ Arr(states).ok = TRUE /\ Opened(Arr(states).stack, frames, "array")
<1>. DEFINE next == NextState(states, "array")
            n == Len(frames)
            here == Last(next.stack)
            opened == [here EXCEPT !.opened = TRUE]
            q == Append(Front(next.stack), opened)
<1>1. CASE ~next.ok
  BY <1>1 DEF Arr, Refuses, Refusal, Outcome
<1>2. CASE next.ok
  <2>1. /\ Inside(next.stack, frames) /\ next.stack[n + 1].allowed = {"array"}
    <3>1. "array" \in AllTypes
      BY DEF AllTypes
    <3>2. CASE next = [ok |-> FALSE, stack |-> <<>>]
      BY <1>2, <3>2
    <3>. QED
      BY <3>1, <3>2, Typed
  <2>2. Arr(states) = [ok |-> TRUE, stack |-> q]
    BY <1>2 DEF Arr, Outcome
  <2>. HIDE DEF next
  <2>3. /\ Stack(next.stack) /\ Len(next.stack) = n + 1 /\ n \in Nat
        /\ next.stack # <<>> /\ here = next.stack[n + 1]
        /\ IsState(here) /\ Untouched(here) /\ here.allowed = {"array"}
    BY <2>1, TextFacts, SeqFacts DEF Inside, Stack, IInv, Last
  <2>. HIDE DEF here
  <2>4. /\ IsState(opened) /\ opened.allowed = {"array"} /\ opened.opened = TRUE
        /\ opened.numItems = 0
    BY <2>3, StateOpened DEF Untouched
  <2>. HIDE DEF opened
  <2>5. /\ Stack(q) /\ Len(q) = n + 1 /\ q[n + 1] = opened
        /\ \A i \in 1 .. n : q[i] = next.stack[i]
    BY <2>3, <2>4, StackReplaced
  <2>. HIDE DEF q
  <2>6. SeesFrame(opened, Frame("array"), 0)
    <3>1. /\ Frame("array").kind = "array" /\ Len(Frame("array").members) = 0
      BY NewFrame
    <3>2. opened.opened = (Frame("array").kind = "array")
      BY <2>4, <3>1, Zenon
    <3>3. Frame("array").kind # "object"
      BY <3>1
    <3>. QED
      BY <2>4, <3>1, <3>2, <3>3 DEF SeesFrame
  <2>7. \A i \in 1 .. n : SeesFrame(q[i], frames[i], 1)
    BY <2>1, <2>3, <2>5 DEF Inside
  <2>. QED
    BY <2>2, <2>5, <2>6, <2>7 DEF Opened
<1>. QED
  BY <1>1, <1>2

LEMMA KeyOutcome ==
  ASSUME IInv, ~refused, Open, Top.kind = "object", Top.name = NULL, NEW k \in Keys
  PROVE  \/ Refuses(Key(states, k))
         \/ /\ Key(states, k).ok = TRUE /\ Stack(Key(states, k).stack)
            /\ Aligned(Key(states, k).stack,
                       Append(Front(frames), [Top EXCEPT !.name = k]), TRUE)
<1>. DEFINE n == Len(frames)
            here == Last(states)
            named == [Top EXCEPT !.name = k]
            fs == Append(Front(frames), named)
            value == MemberHierarchy(here.schemas, k)
            seen == [here EXCEPT !.seenKeys = here.seenKeys \cup {k}]
            below == Append(Front(states), seen)
            q == Append(below, State(value.array))
<1>1. /\ frames # <<>> /\ n \in Nat \ {0} /\ Top = frames[n] /\ IsFrame(Top)
      /\ ~AwaitedValue
  BY TextFacts DEF IInv, Open, Top, AwaitedValue, Ready
<1>2. /\ Len(states) = n /\ states # <<>> /\ Stack(states)
      /\ here = states[n] /\ IsState(here) /\ SeesFrame(here, Top, 0)
      /\ \A i \in 1 .. n - 1 : SeesFrame(states[i], frames[i], 1)
  <2>1. Stack(states) /\ Aligned(states, frames, AwaitedValue)
    BY DEF IInv
  <2>2. Len(states) = n
    BY <1>1, <2>1 DEF Aligned
  <2>3. states # <<>> /\ here = states[n] /\ IsState(here)
    BY <1>1, <2>1, <2>2, SeqFacts DEF Stack, Last
  <2>4. SeesFrame(states[n], frames[n], 0)
    BY <1>1, <2>1 DEF Aligned
  <2>5. \A i \in 1 .. n - 1 : SeesFrame(states[i], frames[i], 1)
    BY <1>1, <2>1 DEF Aligned
  <2>. QED
    BY <1>1, <2>1, <2>2, <2>3, <2>4, <2>5
<1>3. Key(states, k) = IF value.ok THEN Push(below, value.array) ELSE Refusal
  BY DEF Key
<1>4. /\ named.kind = "object" /\ named.name = k /\ named.members = Top.members
      /\ NamesIn(named) = NamesIn(Top) /\ k # NULL
  BY <1>1, ValidatorConstants DEF ValidatorConstants, IsFrame, NamesIn
<1>5. /\ IsState(seen) /\ seen.allowed = here.allowed /\ seen.opened = here.opened
      /\ seen.seenKeys = here.seenKeys \cup {k}
  BY <1>2, StateWithKey
<1>. HIDE DEF seen, named, here
<1>6. SeesFrame(seen, named, 1)
  <2>1. /\ here.allowed = {"object"} /\ here.opened = (Top.kind = "array")
        /\ here.seenKeys = NamesIn(Top)
    <3>1. here.seenKeys = NamesIn(Top) \cup {}
      BY <1>2 DEF SeesFrame
    <3>2. here.allowed = {"object"} /\ here.opened = (Top.kind = "array")
      BY <1>2 DEF SeesFrame
    <3>. QED
      BY <3>1, <3>2, Zenon
  <2>2. seen.seenKeys = NamesIn(named) \cup {named.name}
    BY <1>4, <1>5, <2>1
  <2>3. seen.opened = (named.kind = "array")
    BY <1>4, <1>5, <2>1, Zenon
  <2>. QED
    BY <1>4, <1>5, <2>1, <2>2, <2>3 DEF SeesFrame
<1>7. /\ Stack(below) /\ Len(below) = n /\ below[n] = seen
      /\ \A i \in 1 .. n - 1 : below[i] = states[i]
  BY <1>2, <1>5, StackReplaced
<1>8. /\ IsSeq(fs) /\ Len(fs) = n /\ fs[n] = named
      /\ \A i \in 1 .. n - 1 : fs[i] = frames[i]
  BY <1>1, ReplacedFacts, TextFacts DEF IInv
<1>. HIDE DEF below, fs
<1>9. /\ Stack(q) /\ Len(q) = n + 1
      /\ \A i \in 1 .. n : q[i] = below[i]
      /\ Untouched(q[n + 1])
  BY <1>7, NewState, StackAppend
<1>. HIDE DEF q
<1>10. Aligned(q, fs, TRUE)
  <2>1. ASSUME NEW i \in 1 .. n
        PROVE  SeesFrame(q[i], fs[i], IF i < n THEN 1 ELSE 0)
    <3>1. CASE i = n
      <4>1. SeesFrame(seen, named, 0)
        BY <1>4, <1>6 DEF SeesFrame
      <4>. QED
        BY <1>1, <1>7, <1>8, <1>9, <3>1, <4>1
    <3>2. CASE i # n
      BY <1>1, <1>2, <1>7, <1>8, <1>9, <3>2
    <3>. QED
      BY <3>1, <3>2
  <2>. QED
    BY <1>8, <1>9, <2>1 DEF Aligned
<1>11. Refuses(Key(states, k)) \/ Key(states, k) = [ok |-> TRUE, stack |-> q]
  <2>1. CASE ~value.ok
    BY <1>3, <2>1 DEF Refusal, Outcome, Refuses
  <2>2. CASE value.ok
    BY <1>3, <2>2, PushOutcome DEF Refuses, q
  <2>. QED
    BY <2>1, <2>2
<1>12. fs = Append(Front(frames), [Top EXCEPT !.name = k])
  BY DEF fs, named
<1>13. CASE Key(states, k) = [ok |-> TRUE, stack |-> q]
  <2>1. Key(states, k).ok = TRUE /\ Key(states, k).stack = q
    BY <1>13
  <2>. QED
    BY <1>9, <1>10, <1>12, <2>1
<1>. QED
  BY <1>11, <1>13

(* What ends is a container that holds no name without a value. *)
LEMMA EndOutcome ==
  ASSUME IInv, ~refused, Open, Top.name = NULL, NEW o,
         o = Pop(states) \/ o = Refusal
  PROVE  \/ Refuses(o)
         \/ o.ok = TRUE /\ Around(o.stack, Front(frames))
<1>. DEFINE n == Len(frames)
<1>1. /\ frames # <<>> /\ n \in Nat \ {0} /\ Top = frames[n] /\ IsSeq(frames)
      /\ ~AwaitedValue
  BY TextFacts DEF IInv, Open, Top, AwaitedValue, Ready
<1>2. Stack(states) /\ Len(states) = n /\ states # <<>>
  BY <1>1, SeqFacts DEF IInv, Aligned, Stack
<1>3. \A i \in 1 .. n - 1 : SeesFrame(states[i], frames[i], 1)
  BY <1>1 DEF IInv, Aligned
<1>4. /\ Stack(Front(states)) /\ Len(Front(states)) = n - 1
      /\ \A i \in 1 .. n - 1 : Front(states)[i] = states[i]
  BY <1>2, StackFront
<1>5. /\ Len(Front(frames)) = n - 1
      /\ \A i \in 1 .. n - 1 : Front(frames)[i] = frames[i]
  BY <1>1, FrontFacts
<1>6. CASE o = Refusal
  BY <1>6 DEF Refusal, Outcome, Refuses
<1>7. CASE o = Pop(states)
  BY <1>1, <1>3, <1>4, <1>5, <1>7 DEF Pop, Outcome, Around
<1>. QED
  BY <1>6, <1>7

-------------------------------------------------------------------------------
(* The steps. *)

(* A handler that is not called, refuses or returns a stack that fits. *)
LEMMA Handled ==
  ASSUME IInv, NEW o, Handle(o), Text(frames'), written' \in 0 .. MaxEvents,
         ~refused => \/ Refuses(o)
                     \/ /\ o.ok = TRUE /\ Stack(o.stack)
                        /\ states' = o.stack => Aligned(states', frames', AwaitedValue')
  PROVE  IInv'
<1>1. CASE refused
  BY <1>1 DEF IInv, Handle
<1>2. CASE ~refused /\ Refuses(o)
  <2>1. states' = <<>> /\ refused' = TRUE
    BY <1>2 DEF Handle, Refuses
  <2>2. Stack(<<>>)
    BY EmptyIsSeq DEF Stack
  <2>. QED
    BY <2>1, <2>2 DEF IInv
<1>3. CASE /\ ~refused /\ o.ok = TRUE /\ Stack(o.stack)
           /\ states' = o.stack => Aligned(states', frames', AwaitedValue')
  <2>1. states' = o.stack /\ refused' = FALSE
    BY <1>3 DEF Handle
  <2>. QED
    BY <1>3, <2>1 DEF IInv
<1>. QED
  BY <1>1, <1>2, <1>3

LEMMA OneMore == ASSUME IInv, Room, written' = written + 1
                 PROVE  written' \in 0 .. MaxEvents
BY ValidatorConstants DEF ValidatorConstants, IInv, Room

LEMMA StartStep ==
  ASSUME IInv, Ready, Room, NEW kind \in {"object", "array"}, NEW o, Handle(o),
         frames' = Append(frames, Frame(kind)), written' = written + 1,
         ~refused => Refuses(o) \/ (o.ok = TRUE /\ Opened(o.stack, frames, kind))
  PROVE  IInv'
<1>. DEFINE n == Len(frames)
<1>1. Text(frames) /\ IsSeq(frames) /\ n \in Nat /\ AllWaiting(frames)
  BY ReadyWaits, TextFacts DEF IInv
<1>2. /\ IsSeq(frames') /\ Len(frames') = n + 1 /\ frames'[n + 1] = Frame(kind)
      /\ \A i \in 1 .. n : frames'[i] = frames[i]
  BY <1>1, AppendFacts
<1>3. Text(frames')
  BY <1>1, <1>2, NewFrame, TextFacts DEF Text, AllWaiting
<1>4. ~AwaitedValue'
  <2>1. frames' # <<>> /\ Last(frames') = Frame(kind)
    BY <1>1, <1>2, SeqFacts DEF Last
  <2>. QED
    BY <2>1, NewFrame DEF AwaitedValue, Ready, Open, Top
<1>5. ASSUME Opened(o.stack, frames, kind), states' = o.stack
      PROVE  Aligned(states', frames', AwaitedValue')
  <2>1. ASSUME NEW i \in 1 .. n + 1
        PROVE  SeesFrame(states'[i], frames'[i], IF i < n + 1 THEN 1 ELSE 0)
    BY <1>1, <1>2, <1>5 DEF Opened
  <2>. QED
    BY <1>1, <1>2, <1>4, <1>5, <2>1 DEF Aligned, Opened
<1>6. Opened(o.stack, frames, kind) => Stack(o.stack)
  BY DEF Opened
<1>. QED
  BY <1>3, <1>5, <1>6, OneMore, Handled

LEMMA KeyStep == ASSUME IInv, NEW k \in Keys, OnKey(k) PROVE IInv'
<1>. DEFINE n == Len(frames)
            named == [Top EXCEPT !.name = k]
<1>1. /\ Open /\ Room /\ Top.kind = "object" /\ Top.name = NULL
      /\ frames' = Append(Front(frames), named)
      /\ written' = written + 1 /\ Handle(Key(states, k))
  BY DEF OnKey
<1>. HIDE DEF named
<1>2. /\ Text(frames) /\ frames # <<>> /\ n \in Nat \ {0} /\ Top = frames[n]
      /\ IsFrame(Top) /\ IsSeq(frames)
      /\ \A i \in 1 .. n : IsFrame(frames[i])
      /\ \A i \in 1 .. n - 1 : Waiting(frames[i])
  BY <1>1, TextFacts DEF IInv, Open, Top
<1>3. IsFrame(named) /\ named.kind = "object" /\ named.name = k /\ k # NULL
  BY <1>1, <1>2, ValidatorConstants DEF ValidatorConstants, IsFrame, named
<1>4. /\ IsSeq(frames') /\ Len(frames') = n /\ frames'[n] = named
      /\ \A i \in 1 .. n - 1 : frames'[i] = frames[i]
  BY <1>1, <1>2, ReplacedFacts
<1>5. Text(frames')
  BY <1>2, <1>3, <1>4 DEF Text
<1>6. AwaitedValue' = TRUE
  <2>1. frames' # <<>> /\ Last(frames') = named
    BY <1>2, <1>4, <1>5, TextFacts
  <2>. QED
    BY <1>3, <2>1 DEF AwaitedValue, Ready, Open, Top
<1>7. ~refused => \/ Refuses(Key(states, k))
                  \/ /\ Key(states, k).ok = TRUE /\ Stack(Key(states, k).stack)
                     /\ Aligned(Key(states, k).stack, frames', AwaitedValue')
  BY <1>1, <1>6, KeyOutcome DEF named
<1>. QED
  BY <1>1, <1>5, <1>7, OneMore, Handled

LEMMA ScalarStep == ASSUME IInv, NEW v \in Scalars, OnScalar(v) PROVE IInv'
<1>1. /\ Ready /\ Room /\ Place(frames, v) /\ written' = written + 1
      /\ Handle(Scalar(states, v))
  BY DEF OnScalar
<1>2. Text(frames) /\ AllWaiting(frames)
  BY <1>1, ReadyWaits DEF IInv
<1>3. Text(frames')
  BY <1>1, <1>2, PlacedText
<1>4. ASSUME Around(Scalar(states, v).stack, frames), states' = Scalar(states, v).stack
      PROVE  Aligned(states', frames', AwaitedValue')
  BY <1>1, <1>2, <1>4, PlacedAligned
<1>5. Around(Scalar(states, v).stack, frames) => Stack(Scalar(states, v).stack)
  BY DEF Around
<1>. QED
  BY <1>1, <1>3, <1>4, <1>5, ScalarOutcome, OneMore, Handled

LEMMA EndStep ==
  ASSUME IInv, NEW kind, NEW o, OnEnd(kind, o), o = Pop(states) \/ o = Refusal
  PROVE  IInv'
<1>. DEFINE fs == Front(frames)
            v == [is |-> kind, members |-> Top.members]
            n == Len(frames)
<1>1. Open /\ Top.name = NULL /\ Place(fs, v) /\ written' = written /\ Handle(o)
  BY DEF OnEnd
<1>2. Text(fs) /\ AllWaiting(fs)
  <2>1. /\ frames # <<>> /\ n \in Nat \ {0} /\ IsSeq(frames)
        /\ \A i \in 1 .. n : IsFrame(frames[i])
        /\ \A i \in 1 .. n - 1 : Waiting(frames[i])
    BY <1>1, TextFacts DEF IInv, Open
  <2>2. /\ IsSeq(fs) /\ Len(fs) = n - 1
        /\ \A i \in 1 .. n - 1 : fs[i] = frames[i]
    BY <2>1, FrontFacts
  <2>. QED
    BY <2>1, <2>2 DEF Text, AllWaiting
<1>. HIDE DEF fs, v
<1>3. Text(frames')
  BY <1>1, <1>2, PlacedText
<1>4. ASSUME Around(o.stack, fs), states' = o.stack
      PROVE  Aligned(states', frames', AwaitedValue')
  BY <1>1, <1>2, <1>4, PlacedAligned
<1>5. Around(o.stack, fs) => Stack(o.stack)
  BY DEF Around
<1>6. written' \in 0 .. MaxEvents
  BY <1>1 DEF IInv
<1>7. ~refused => Refuses(o) \/ (o.ok = TRUE /\ Around(o.stack, fs))
  BY <1>1, EndOutcome DEF fs
<1>. QED
  BY <1>1, <1>3, <1>4, <1>5, <1>6, <1>7, Handled

(* A parse begins with a state for the root value. *)
LEMMA Started ==
  ASSUME NEW h
  PROVE  Stack(<<State(h)>>) /\ Len(<<State(h)>>) = 1 /\ Untouched(<<State(h)>>[1])
BY OneIsSeq, NewState DEF Stack

LEMMA StartOfText == Text(<<>>) /\ Len(<<>>) = 0
BY EmptyIsSeq DEF Text

LEMMA AgainStep == ASSUME Again PROVE IInv'
<1>1. /\ states' = <<State(schema')>> /\ refused' = FALSE
      /\ frames' = <<>> /\ doc' = <<>> /\ written' = 0
  BY DEF Again
<1>2. AwaitedValue' = TRUE
  BY <1>1 DEF AwaitedValue, Ready, Open
<1>3. Aligned(states', frames', AwaitedValue')
  BY <1>1, <1>2, Started, StartOfText DEF Aligned
<1>4. Stack(states') /\ Text(frames')
  BY <1>1, Started, StartOfText
<1>5. written' \in 0 .. MaxEvents
  BY <1>1, ValidatorConstants DEF ValidatorConstants
<1>. QED
  BY <1>1, <1>3, <1>4, <1>5 DEF IInv

LEMMA InitIInv == Init => IInv
<1>. SUFFICES ASSUME Init PROVE IInv
  OBVIOUS
<1>1. AwaitedValue = TRUE
  BY DEF Init, AwaitedValue, Ready, Open
<1>2. Aligned(states, frames, AwaitedValue)
  BY <1>1, Started, StartOfText DEF Init, Aligned
<1>3. Stack(states) /\ Text(frames)
  BY Started, StartOfText DEF Init
<1>4. written \in 0 .. MaxEvents
  BY ValidatorConstants DEF ValidatorConstants, Init
<1>. QED
  BY <1>2, <1>3, <1>4 DEF Init, IInv

LEMMA StepIInv == IInv /\ [Next]_vars => IInv'
<1>. SUFFICES ASSUME IInv, [Next]_vars PROVE IInv'
  OBVIOUS
<1>1. CASE OnObjStart
  <2>1. /\ Ready /\ Room /\ Handle(Obj(states)) /\ written' = written + 1
        /\ frames' = Append(frames, Frame("object"))
    BY <1>1 DEF OnObjStart
  <2>. QED
    BY <2>1, ObjOutcome, StartStep
<1>2. CASE OnArrStart
  <2>1. /\ Ready /\ Room /\ Handle(Arr(states)) /\ written' = written + 1
        /\ frames' = Append(frames, Frame("array"))
    BY <1>2 DEF OnArrStart
  <2>. QED
    BY <2>1, ArrOutcome, StartStep
<1>3. CASE OnObjEnd
  <2>1. ObjEnd(states) = Pop(states) \/ ObjEnd(states) = Refusal
    BY DEF ObjEnd
  <2>. QED
    BY <1>3, <2>1, EndStep DEF OnObjEnd
<1>4. CASE OnArrEnd
  <2>1. ArrEnd(states) = Pop(states) \/ ArrEnd(states) = Refusal
    BY DEF ArrEnd
  <2>. QED
    BY <1>4, <2>1, EndStep DEF OnArrEnd
<1>5. ASSUME NEW k \in Keys, OnKey(k) PROVE IInv'
  BY <1>5, KeyStep
<1>6. ASSUME NEW v \in Scalars, OnScalar(v) PROVE IInv'
  BY <1>6, ScalarStep
<1>7. CASE Again
  BY <1>7, AgainStep
<1>8. CASE UNCHANGED vars
  BY <1>8 DEF vars, text, IInv, AwaitedValue, Ready, Open, Top
<1>. QED
  BY <1>1, <1>2, <1>3, <1>4, <1>5, <1>6, <1>7, <1>8 DEF Next

-------------------------------------------------------------------------------
(* The theorems. *)

(* In every parse, with any schemas, the stack is the one the text calls for. *)
THEOREM Invariance == Spec => []IInv
<1>. QED
  BY InitIInv, StepIInv, PTL DEF Spec

(* The states of the validator keep their types: only types and keys that
   there are, and a count of items that is a number (jschema.c, ValidationState
   and push_new_state). *)
THEOREM ValidatorTypes == Spec => []TypeOK
<1>1. IInv => TypeOK
  <2>. SUFFICES ASSUME IInv PROVE TypeOK
    OBVIOUS
  <2>1. DOMAIN states = 1 .. Len(states)
    BY SeqFacts DEF IInv, Stack
  <2>. QED
    BY <2>1 DEF IInv, Stack, IsState, TypeOK
<1>. QED
  BY <1>1, Invariance, PTL

(* Until a handler refuses, the stack has a state for each open container and
   one for a value that must come, and each knows what its container has got;
   after that it is empty (getNextStateSimple, jschema_key, the pops of
   jschema_obj_end and jschema_arr_end). *)
THEOREM StackFollows == Spec => []StackFollowsText
<1>1. IInv => StackFollowsText
  <2>. SUFFICES ASSUME IInv PROVE StackFollowsText
    OBVIOUS
  <2>1. DOMAIN frames = 1 .. Len(frames)
    BY TextFacts DEF IInv
  <2>. QED
    BY <2>1 DEF IInv, Aligned, StackFollowsText
<1>. QED
  BY <1>1, Invariance, PTL
================================================================================
