------------------------------- MODULE JDocument -------------------------------
(***************************************************************************)
(* What jdom_parse promises: the events of a text are read into a document *)
(* made of values.  Containers under construction are frames of a stack; a *)
(* container is placed in its parent when it closes.  A member without a   *)
(* name is not kept, a later member replaces an earlier one of its name,   *)
(* and an object may be completed with default members when it closes.     *)
(* The client gets the document when the text held a complete one, and     *)
(* null otherwise, never a part of a document.                             *)
(***************************************************************************)
EXTENDS Naturals, Sequences

CONSTANTS
  Names,     (* names of members                                            *)
  Empty,     (* the empty name                                              *)
  Scalars,   (* values that are not containers                              *)
  Defaults,  (* a function from some names to the documents they default to *)
  NULL       (* no value                                                    *)

VARIABLES
  frames,    (* containers under construction, outermost first              *)
  doc,       (* the complete document, or NULL                              *)
  delivered, (* the client has its answer                                   *)
  answer     (* the answer: a document, or NULL for null                    *)

dvars == <<frames, doc, delivered, answer>>

NoMembers == [n \in {} |-> NULL]

Frame(kind) ==
  [kind |-> kind, name |-> NULL,
   members |-> IF kind = "array" THEN <<>> ELSE NoMembers]

(* The members m, those that more has replaced or added. *)
Joined(more, m) ==
  [n \in DOMAIN more \cup DOMAIN m |-> IF n \in DOMAIN more THEN more[n] ELSE m[n]]

Closed(f) == [kind |-> f.kind, members |-> f.members]

(* Frame f with the value v added to it. *)
Placed(f, v) ==
  [f EXCEPT !.name = NULL,
            !.members = IF f.kind = "array" THEN Append(@, v)
                        ELSE IF f.name = Empty THEN @
                        ELSE Joined([n \in {f.name} |-> v], @)]

(* Frame f when a container opens in it: what it replaces is gone. *)
Opened(f) ==
  IF f.kind = "array" THEN f
  ELSE [f EXCEPT !.members = [n \in DOMAIN @ \ {f.name} |-> @[n]]]

Top == frames[Len(frames)]
Outer == SubSeq(frames, 1, Len(frames) - 1)
OnTop(f) == Append(Outer, f)

(* A value can come next in the innermost frame. *)
Ready == frames # <<>> /\ (Top.kind = "object" => Top.name # NULL)

Init == frames = <<>> /\ doc = NULL /\ ~delivered /\ answer = NULL

Reading == ~delivered /\ UNCHANGED <<delivered, answer>>

Value(s) == /\ Reading
            /\ Ready
            /\ frames' = OnTop(Placed(Top, s))
            /\ UNCHANGED doc

Name(n) == /\ Reading
           /\ frames # <<>>
           /\ Top.kind = "object"
           /\ Top.name = NULL
           /\ frames' = OnTop([Top EXCEPT !.name = n])
           /\ UNCHANGED doc

Open(kind) ==
  /\ Reading
  /\ \/ frames = <<>> /\ doc = NULL /\ frames' = <<Frame(kind)>>
     \/ Ready /\ frames' = Append(OnTop(Opened(Top)), Frame(kind))
  /\ UNCHANGED doc

(* Some members the object lacks are given their defaults. *)
Complete(names) ==
  /\ Reading
  /\ frames # <<>>
  /\ Top.kind = "object"
  /\ Top.name = NULL
  /\ names \cap DOMAIN Top.members = {}
  /\ frames' = OnTop([Top EXCEPT !.members =
                        Joined([n \in names |-> Defaults[n]], @)])
  /\ UNCHANGED doc

(* The innermost container closes, with or without defaults. *)
Close(names) ==
  LET f == [Top EXCEPT !.members = IF names = {} THEN @
                                   ELSE Joined([n \in names |-> Defaults[n]], @)]
  IN  /\ Reading
      /\ frames # <<>>
      /\ Top.name = NULL
      /\ names # {} => Top.kind = "object" /\ names \cap DOMAIN Top.members = {}
      /\ frames' = IF Len(frames) = 1 THEN <<>>
                   ELSE Append(SubSeq(Outer, 1, Len(Outer) - 1),
                               Placed(Outer[Len(Outer)], Closed(f)))
      /\ doc' = IF Len(frames) = 1 THEN Closed(f) ELSE doc

Deliver == /\ ~delivered
           /\ delivered'
           /\ answer' = doc
           /\ frames' = <<>>
           /\ UNCHANGED doc

Next == \/ \E s \in Scalars : Value(s)
        \/ \E n \in Names : Name(n)
        \/ \E kind \in {"object", "array"} : Open(kind)
        \/ \E names \in SUBSET DOMAIN Defaults : Complete(names) \/ Close(names)
        \/ Deliver

Spec == Init /\ [][Next]_dvars
================================================================================
