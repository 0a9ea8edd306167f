------------------------------ MODULE JGenerator -------------------------------
(***************************************************************************)
(* Writing JSON: the stream of jgen_stream.c over the printer of YAJL, and *)
(* jvalue_tostring, which walks a value and calls the stream.  A text is a *)
(* sequence of tokens: brackets, separators, names, strings and other      *)
(* values; how a value is spelled is left out.                             *)
(*                                                                         *)
(* The printer has a state for each container that is open.  The stream    *)
(* does not look at what the printer answers: a call that is refused, or   *)
(* one beyond the depth the printer has room for, goes unnoticed.  A       *)
(* client closes nothing when nothing is open: the printer would count     *)
(* below zero.                                                             *)
(***************************************************************************)
EXTENDS Integers, Sequences, FiniteSets, SequencesExt

CONSTANTS
  Strings,   (* names and strings                                           *)
  Others,    (* numbers, booleans and null                                  *)
  Layers,    (* the values a client turns into text, by how deep they nest  *)
  MaxDepth,  (* YAJL_MAX_DEPTH, containers that can be open, plus one       *)
  MaxCalls,  (* bound: calls of a stream                                    *)
  NULL

VARIABLES
  stream, (* the stream the client has, NULL when it has none               *)
  calls,  (* the calls it was given, those of jstreamObj and finish included *)
  source, (* the value of the last jvalue_tostring, NULL after a finish     *)
  result  (* what the last finish or jvalue_tostring returned               *)

vars == <<stream, calls, source, result>>

Values == UNION {Layers[n] : n \in DOMAIN Layers}
Calls == {"{", "}", "[", "]"} \cup Strings \cup Others

(* What a value contains. *)
Contents(v) ==
  CASE v.kind = "array" -> ToSet(v.items)
    [] v.kind = "object" -> {m.value : m \in ToSet(v.members)}
    [] v.kind = "scalar" -> {}

ASSUME GeneratorConstants ==
  /\ MaxDepth \in Nat \ {0} /\ MaxCalls \in Nat \ {0}
  /\ (Strings \cup Others) \cap {"{", "}", "[", "]", ",", ":"} = {}
  /\ NULL \notin Values

(* A value contains values of the layers before its own. *)
ASSUME ValuesNest ==
  /\ DOMAIN Layers = 1 .. Len(Layers) /\ Len(Layers) \in Nat
  /\ \A n \in DOMAIN Layers : \A v \in Layers[n] :
       /\ \/ v.kind = "array" /\ v.items \in Seq(Values)
          \/ v.kind = "object" /\ v.members \in Seq([key : Strings, value : Values])
          \/ v.kind = "scalar" /\ v.is \in Strings \cup Others
       /\ \A w \in Contents(v) : \E m \in 1 .. n - 1 : w \in Layers[m]

PrinterStates ==
  {"start", "map_start", "map_key", "map_val", "array_start", "in_array", "complete"}

Printers ==
  [depth : Int, states : [0..(MaxDepth - 1) -> PrinterStates], out : Seq(Calls \cup {",", ":"})]

(* yajl_gen_alloc *)
Printer == [depth |-> 0, states |-> [d \in 0..(MaxDepth - 1) |-> "start"], out |-> <<>>]

(* The state the macros of yajl_gen look at.  At a depth without a state of its
   own they read and may write the members that follow state[] in yajl_gen_t:
   buf and alloc, pointers whose halves are no states.  The model stands for
   the depths up to those members; no property speaks of a printer deeper than
   that, and none but TypeOK and the count of brackets of one that is as deep. *)
StateOf(p) == IF p.depth < MaxDepth THEN p.states[p.depth] ELSE "outside"

(* Variant of Separated: members follow each other without a comma. *)
SeparatedItems(p) ==
  CASE StateOf(p) = "in_array" -> [p EXCEPT !.out = Append(@, ",")]
    [] StateOf(p) = "map_val" -> [p EXCEPT !.out = Append(@, ":")]
    [] OTHER -> p

(* INSERT_SEP *)
Separated(p) ==
  CASE StateOf(p) \in {"map_key", "in_array"} -> [p EXCEPT !.out = Append(@, ",")]
    [] StateOf(p) = "map_val" -> [p EXCEPT !.out = Append(@, ":")]
    [] OTHER -> p

(* The state after a value, or a name. *)
After(state) ==
  CASE state = "start" -> "complete"
    [] state \in {"map_start", "map_key"} -> "map_val"
    [] state = "array_start" -> "in_array"
    [] state = "map_val" -> "map_key"
    [] OTHER -> state

(* APPENDED_ATOM *)
AppendedAtom(p) ==
  IF p.depth < MaxDepth THEN [p EXCEPT !.states[p.depth] = After(StateOf(p))] ELSE p

(* ENSURE_VALID_STATE, ENSURE_NOT_KEY: a string may be a name, and whatever
   comes first in an object is taken for one. *)
Refused(p, c) ==
  \/ StateOf(p) = "complete"
  \/ StateOf(p) = "map_key" /\ c \notin Strings \cup {"}", "]"}

Atom(p, c) == LET q == Separated(p) IN AppendedAtom([q EXCEPT !.out = Append(@, c)])

Entered(c) == IF c = "{" THEN "map_start" ELSE "array_start"

(* Variant of Open: the state is set before the depth is counted. *)
OpenEarly(p, c) ==
  LET q == [Separated(p) EXCEPT !.depth = @ + 1]
  IN IF q.depth >= MaxDepth THEN q
     ELSE [depth |-> q.depth, out |-> Append(q.out, c),
           states |-> [q.states EXCEPT ![p.depth] = Entered(c)]]

(* The depth is counted even where there is no room for the container. *)
Open(p, c) ==
  LET q == [Separated(p) EXCEPT !.depth = @ + 1]
  IN IF q.depth >= MaxDepth THEN q
     ELSE [depth |-> q.depth, out |-> Append(q.out, c),
           states |-> [q.states EXCEPT ![q.depth] = Entered(c)]]

(* A bracket closes whatever is open. *)
Close(p, c) ==
  LET q == AppendedAtom([p EXCEPT !.depth = @ - 1])
  IN [q EXCEPT !.out = Append(@, c)]

(* A call of the stream. *)
Given(p, c) ==
  CASE Refused(p, c) -> p
    [] ~Refused(p, c) /\ c \in {"{", "["} -> Open(p, c)
    [] ~Refused(p, c) /\ c \in {"}", "]"} -> Close(p, c)
    [] OTHER -> Atom(p, c)

(* Each of fs prints what follows. *)
Through(fs, p) ==
  LET after[n \in 0 .. Len(fs)] == IF n = 0 THEN p ELSE fs[n][after[n - 1]]
  IN  after[Len(fs)]

(* jvalue_to_string_append: an array is a sequence, an object a sequence of
   members in the order of its iteration. *)
ToStringAppend[v \in Values] ==
  CASE v.kind = "array" ->
         LET items == [n \in DOMAIN v.items |-> ToStringAppend[v.items[n]]]
         IN  [p \in Printers |-> Given(Through(items, Given(p, "[")), "]")]
    [] v.kind = "object" ->
         LET members == [n \in DOMAIN v.members |->
                           [p \in Printers |->
                              ToStringAppend[v.members[n].value][Given(p, v.members[n].key)]]]
         IN  [p \in Printers |-> Given(Through(members, Given(p, "{")), "}")]
    [] v.kind = "scalar" -> [p \in Printers |-> Given(p, v.is)]

Top(opened) == CASE opened = "object" -> "{" [] opened = "array" -> "["
Bottom(opened) == CASE opened = "object" -> "}" [] opened = "array" -> "]"

(* Variant of Finished: what jstreamObj and jstreamArr opened stays open. *)
FinishedOpen(s) == [text |-> s.printer.out, status |-> "GEN_OK"]

(* finish_stream closes what jstreamObj or jstreamArr opened; the printer
   always gives its text, and yajl_gen_get_buf always succeeds. *)
Finished(s) ==
  LET p == IF s.opened = "none" THEN s.printer ELSE Given(s.printer, Bottom(s.opened))
  IN [text |-> p.out, status |-> "GEN_OK"]

(* jstream, jstreamObj, jstreamArr *)
JStream(opened) ==
  /\ stream = NULL
  /\ LET first == IF opened = "none" THEN <<>> ELSE <<Top(opened)>>
     IN /\ stream' = [opened |-> opened,
                        printer |-> IF opened = "none" THEN Printer ELSE Given(Printer, Top(opened))]
        /\ calls' = first
  /\ result' = NULL
  /\ source' = NULL

(* begin_object, end_object, begin_array, end_array, val_num, val_int,
   val_dbl, val_str, val_bool, val_null *)
Call(c) ==
  /\ stream # NULL /\ Len(calls) < MaxCalls
  /\ c \in {"}", "]"} => stream.printer.depth > 0 \/ StateOf(stream.printer) = "complete"
  /\ stream' = [stream EXCEPT !.printer = Given(@, c)]
  /\ calls' = Append(calls, c)
  /\ UNCHANGED <<source, result>>

Finish ==
  /\ stream # NULL
  /\ result' = Finished(stream)
  /\ stream' = NULL
  /\ calls' = IF stream.opened = "none" \/ StateOf(stream.printer) = "complete" THEN calls
              ELSE Append(calls, Bottom(stream.opened))
  /\ source' = NULL

(* jvalue_tostring and JGenerator::toString: without a schema there is no
   text. *)
JvalueToString(v, schema) ==
  /\ stream = NULL
  /\ result' = IF schema THEN Finished([opened |-> "none", printer |-> ToStringAppend[v][Printer]])
               ELSE NULL
  /\ source' = IF schema THEN v ELSE NULL
  /\ calls' = <<>>
  /\ UNCHANGED stream

Init ==
  /\ stream = NULL
  /\ calls = <<>>
  /\ source = NULL
  /\ result = NULL

Next ==
  \/ \E opened \in {"none", "object", "array"} : JStream(opened)
  \/ \E c \in Calls : Call(c)
  \/ Finish
  \/ \E v \in Values, schema \in BOOLEAN : JvalueToString(v, schema)

Spec == Init /\ [][Next]_vars

--------------------------------------------------------------------------------

(* The text that calls in their places make: each one in its place, "name",
   "value" or "item", after the separator that place has. *)
Place(places) == IF places = <<>> THEN "top" ELSE Last(places)

Moved(places) ==
  CASE Place(places) = "name" -> [places EXCEPT ![Len(places)] = "value"]
    [] Place(places) = "value" -> [places EXCEPT ![Len(places)] = "name"]
    [] OTHER -> places

Legal(at, c) ==
  LET place == Place(at.places)
  IN CASE c = "}" -> place = "name"
       [] c = "]" -> place = "item"
       [] c \notin {"}", "]"} -> /\ place = "name" => c \in Strings
                                 /\ place = "top" => at.text = <<>>

Separator(at, c) ==
  CASE at.first \/ c \in {"}", "]"} \/ at.places = <<>> -> <<>>
    [] ~at.first /\ c \notin {"}", "]"} /\ Place(at.places) = "value" -> <<":">>
    [] OTHER -> <<",">>

Larger(m, n) == IF m < n THEN n ELSE m

Written(at, c) ==
  [legal |-> at.legal /\ Legal(at, c),
   first |-> c \in {"{", "["},
   text |-> at.text \o Separator(at, c) \o <<c>>,
   deepest |-> Larger(at.deepest, Len(at.places) + (IF c \in {"{", "["} THEN 1 ELSE 0)),
   places |-> CASE c = "{" -> Append(Moved(at.places), "name")
                [] c = "[" -> Append(Moved(at.places), "item")
                [] c \in {"}", "]"} -> (IF at.places = <<>> THEN <<>> ELSE Front(at.places))
                [] OTHER -> Moved(at.places)]

Beginning == [legal |-> TRUE, first |-> TRUE, text |-> <<>>, deepest |-> 0, places |-> <<>>]

Read(s) ==
  LET at[n \in 0 .. Len(s)] == IF n = 0 THEN Beginning ELSE Written(at[n - 1], s[n])
  IN  at[Len(s)]

(* The calls that write a value. *)
CallsOf[v \in Values] ==
  CASE v.kind = "array" ->
         <<"[">> \o FlattenSeq([n \in DOMAIN v.items |-> CallsOf[v.items[n]]]) \o <<"]">>
    [] v.kind = "object" ->
         <<"{">> \o FlattenSeq([n \in DOMAIN v.members |->
                                <<v.members[n].key>> \o CallsOf[v.members[n].value]]) \o <<"}">>
    [] v.kind = "scalar" -> <<v.is>>

Count(S, s) == Cardinality({i \in DOMAIN s : s[i] \in S})

Within(at) == at.deepest < MaxDepth

TypeOK ==
  /\ stream # NULL =>
       /\ stream.opened \in {"none", "object", "array"}
       /\ stream.printer.depth \in 0..MaxCalls
       /\ stream.printer.states \in [0..(MaxDepth - 1) -> PrinterStates]
       /\ stream.printer.states[0] \in {"start", "complete"}
  /\ calls \in Seq(Calls) /\ Len(calls) <= MaxCalls + 1

(* jvalue_tostring gives the text of the value, of any value whose containers
   are fewer than YAJL_MAX_DEPTH deep: the text that its calls, read one by one
   against the grammar, make (jvalue_tostring, jgen_stream.c, yajl_gen.c). *)
ToStringExact ==
  source # NULL =>
    LET read == Read(CallsOf[source])
    IN read.legal /\ read.places = <<>> /\ (Within(read) => result.text = read.text)

(* While a client writes legally, the printer's text and state are those of its
   place in the document, and when the calls, with the bracket that finish adds
   for jstreamObj or jstreamArr, make a whole document, finish returns its
   text.  Of calls that leave a container open or a name without its value it
   says nothing: finish reports GEN_OK for them too, where jgen_stream.h:48-51
   has it report an error.  Whatever the calls are, the brackets of the text
   open as many containers as the printer counts, as long as there is room for
   them (finish_stream, yajl_gen.c). *)
TextFollowsCalls ==
  LET read == Read(calls)
      p == stream.printer
      regular == read.legal /\ Within(read)
  IN /\ stream # NULL /\ regular =>
          /\ p.out = read.text /\ p.depth = Len(read.places)
          /\ CASE Place(read.places) = "value" -> StateOf(p) = "map_val"
               [] Place(read.places) = "name" -> StateOf(p) \in {"map_start", "map_key"}
               [] Place(read.places) = "item" -> StateOf(p) \in {"array_start", "in_array"}
               [] OTHER -> StateOf(p) \in {"start", "complete"}
     /\ stream # NULL /\ Count({"{", "["}, calls) < MaxDepth =>
          p.depth = Count({"{", "["}, p.out) - Count({"}", "]"}, p.out)
     /\ source = NULL /\ result # NULL /\ regular /\ read.places = <<>> =>
          result.text = read.text
================================================================================
