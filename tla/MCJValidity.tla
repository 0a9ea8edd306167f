------------------------------ MODULE MCJValidity -------------------------------
(* Small instances of JValidity for TLC. *)
EXTENDS JValidity, TLC

CONSTANTS a, b

Of(types) == [type |-> types]
Text == Of({"string"})
Count == Of({"integer"})
Anything == [description |-> "any"]

S == [is |-> "string", string |-> "s"]
T == [is |-> "string", string |-> "t"]
Zero == [is |-> "number", halves |-> 0, plain |-> TRUE]
One == [is |-> "number", halves |-> 2, plain |-> TRUE]
OneAgain == [One EXCEPT !.plain = FALSE]
OneHalf == [is |-> "number", halves |-> 3, plain |-> FALSE]
Yes == [is |-> "boolean", truth |-> TRUE]
None == [is |-> "null"]

MCScalars == {S, T, One, OneAgain, OneHalf, Yes, None}

(* Tuples, with and without more items; lists with bounds. *)
Tuple == [type  |-> {"array"},
          items |-> [is |-> "array", schemas |-> <<Count, [ref |-> "word"]>>],
          additional |-> [is |-> "false"]]
OpenTuple == [items |-> [is |-> "array", schemas |-> <<Of({"number", "null"})>>],
              additional |-> [is |-> "object", schema |-> Of({"boolean"})]]
LongList == [type |-> {"array"}, minItems |-> 2]
ShortList == [extends  |-> LongList,
              minItems |-> 1, maxItems |-> 2,
              items    |-> [is |-> "object", schema |-> [ref |-> "word"]]]

(* Members: required, optional, with a default, requiring each other, and of
   other names; two levels of inheritance that ask for the same member. *)
Person == [type |-> {"object"},
           properties |->
             (a :> [type |-> {"string", "integer"},
                    required |-> [is |-> "string", key |-> b]])
             @@ (b :> [type |-> {"boolean"}, optional |-> TRUE])]
Worker == [extends |-> [extends |-> Person, description |-> "none"],
           properties |-> (a :> Text)]
Filled == [properties |->
             (a :> [type |-> {"array"}, default |-> None, maxItems |-> 1])
             @@ (b :> [enum |-> {S, None}, optional |-> TRUE,
                       required |-> [is |-> "array", keys |-> {a}]]),
           additional |-> [is |-> "false"]]
Table == [type |-> {"object"},
          additional |-> [is |-> "object", schema |-> Of({"array", "null"})]]
Nested == [type |-> {"object", "array"},
           properties |-> (a :> [extends |-> Text, enum |-> {S}]),
           items |-> [is |-> "object",
                      schema |-> [type |-> {"object"},
                                  properties |-> (b :> [ref |-> "unknown"])
                                                 @@ (a :> Anything)]]]
(* A child that widens what its parent allows. *)
Wider == [extends |-> Text, type |-> {"string", "null"}]

(* A type that the schema bars. *)
Unbarred == [type |-> {"string", "null"}, disallowed |-> {"null"}]

(* Numbers with limits, and lists of numbers that move them. *)
Guess == [minimum |-> 2, maximum |-> 20]
Lower == [extends |-> Guess, minimum |-> -2, maximum |-> 40]
Upper == [extends |-> Guess, minimum |-> 4]
Tighter == [extends |-> Guess, maximum |-> 10]
Debts == [type |-> {"number"}, maximum |-> -2]
Balance == [minimum |-> -2]
Zeros == [enum |-> {Zero, S}]
Ones == [enum |-> {One}]
Guesses == [items |-> [is |-> "array", schemas |-> <<Lower, Upper>>]]
Balances == [items |-> [is |-> "array", schemas |-> <<Guess, Balance>>],
             additional |-> [is |-> "object", schema |-> Debts]]
Tightest == [items |-> [is |-> "object", schema |-> Tighter]]
Selection == [items |-> [is |-> "array", schemas |-> <<Zeros, Ones>>]]

MCRemote == ("word" :> [type |-> {"string"}, enum |-> {S}, minLength |-> 1])

MCTops == {Tuple, OpenTuple, ShortList, Worker, Filled, Table, Nested, Wider, Unbarred,
           Guesses, Balances, Tightest, Selection,
           [ref |-> "word"], Anything}

(* All that is extended or describes each item, with what that extends. *)
MCSchemas == MCTops \cup {LongList, Person, Worker.extends, Text, Anything,
                          Nested.items.schema, Guess, Lower, Upper, Tighter, Debts,
                          Balance, Zeros, Ones, MCRemote["word"]}
================================================================================
