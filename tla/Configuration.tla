--------------------------- MODULE Configuration ---------------------------
(***************************************************************************)
(* util::configuration: the automaton that reads a configuration file as   *)
(* it comes, in pieces, and the tree of keys it builds, each level an      *)
(* array in the order of the names.  A character is a letter of a key      *)
(* (Letters), "/" for those that only values have, "sp", "cr", "lf", "=",  *)
(* "{", "}", "#", "quote", "\" or "!" for those that are nowhere allowed.  *)
(***************************************************************************)
EXTENDS Tables

CONSTANTS
  KeyMaxLen,      \* CONF_KEY_MAX_LEN
  ValueMaxLen,    \* CONF_VALUE_MAX_LEN
  Char,           \* the characters that are read
  Source,         \* files written from a tree: records with tree and text
  Beginning,      \* files that go on with any characters
  MaxMore         \* bound on how many

VARIABLES
  text,           \* what has been read
  c,              \* the configuration
  written,        \* the tree that text was written from, in a sequence, if any
  left            \* how many characters may still be read

vars == <<text, c, written, left>>

ValueChar == Letters \cup {"/"}
EndOfLine == {"lf", "cr"}
White == {"sp"} \cup EndOfLine

Root == 1
NoLevel == 0
NoKey == [name |-> <<>>]

\* begin_parsing().  A level is a struct keys: its parent and its keys.
Fresh ==
  [state |-> "INITIAL", prev |-> "INITIAL", key |-> <<>>, value |-> <<>>,
   levels |-> <<[parent |-> NoLevel, keys |-> <<>>]>>, level |-> Root, pos |-> 1,
   result |-> "more"]

Goto(d, state) == [d EXCEPT !.state = state]
Refuse(d, why) == [d EXCEPT !.result = why]
Invalid(d) == Refuse(d, "invalid")

Keys(d) == d.levels[d.level].keys

\* search(): where a name is, or belongs, in an array of keys.
PlaceIn(keys, name) ==
  Place([k \in 1 .. Len(keys) |-> Order(name, keys[k].name)])

\* add_key(KEY_HAS_VALUE) and add_key(KEY_MIGHT_HAVE_CHILDREN).
AddKey(d, type) ==
  LET place == PlaceIn(Keys(d), d.key)
      entry == [name |-> d.key, type |-> type, children |-> NoLevel,
                value |-> IF type = "value" THEN d.value ELSE <<>>]
  IN IF place.found THEN Refuse(d, "duplicated")
     ELSE [d EXCEPT !.levels[d.level].keys = InsertAt(@, place.at, entry), !.pos = place.at]

\* Defect: create_keys() for the last key of the array, not the last one added.
CreateKeysOfLast(d) ==
  [d EXCEPT !.levels = Append([@ EXCEPT ![d.level].keys[Len(Keys(d))].children = Len(d.levels) + 1],
                              [parent |-> d.level, keys |-> <<>>]),
            !.level = Len(d.levels) + 1, !.pos = 1]

\* create_keys(): a level under the last key that was added.
CreateKeys(d) ==
  [d EXCEPT !.levels = Append([@ EXCEPT ![d.level].keys[d.pos].children = Len(d.levels) + 1],
                              [parent |-> d.level, keys |-> <<>>]),
            !.level = Len(d.levels) + 1, !.pos = 1]

\* A "}": back to the level above.
CloseLevel(d) ==
  IF d.levels[d.level].parent = NoLevel THEN Invalid(d)
  ELSE [Goto(d, "AFTER_CLOSING_BRACE") EXCEPT !.level = d.levels[d.level].parent]

KeyStarts(d, x) == [Goto(d, "PARSING_KEY") EXCEPT !.key = <<x>>]
Comment(d, prev) == [Goto(d, "PARSING_COMMENT") EXCEPT !.prev = prev]

\* What comes after a key that has been added, unless it was refused.
Then(d, state) == IF d.result = "more" THEN Goto(d, state) ELSE d

-----------------------------------------------------------------------------
\* One operator for each state: the configuration after the character x.
Initial(d, x) ==
  CASE x \in Letters -> KeyStarts(d, x)
    [] x = "#" -> Comment(d, "INITIAL")
    [] x \in White -> d
    [] x = "}" -> CloseLevel(d)
    [] OTHER -> Invalid(d)

ParsingComment(d, x) == IF x = "lf" THEN Goto(d, d.prev) ELSE d

\* A key and the end of its line: children may follow on the next one.
KeyEnds(d) == Then(AddKey(d, "key"), "WAITING_FOR_KEY_OR_BRACE")

ParsingKey(d, x) ==
  CASE x \in Letters /\ Len(d.key) < KeyMaxLen -> [d EXCEPT !.key = Append(@, x)]
    [] x = "=" -> Goto(d, "AFTER_EQUAL")
    [] x = "sp" -> Goto(d, "SPACE_AFTER_KEY")
    [] x \in EndOfLine -> KeyEnds(d)
    [] OTHER -> Invalid(d)

OpenLevel(d) == Goto(CreateKeys(d), "AFTER_OPENING_BRACE")

SpaceAfterKey(d, x) ==
  LET added == AddKey(d, "key")
  IN CASE x = "=" -> Goto(d, "AFTER_EQUAL")
       [] x = "sp" -> d
       [] x = "{" -> IF added.result = "more" THEN OpenLevel(added) ELSE added
       [] x = "}" -> IF d.level = Root THEN Invalid(d)
                     ELSE IF added.result = "more" THEN CloseLevel(added) ELSE added
       [] x = "#" -> IF added.result = "more" THEN Comment(added, "WAITING_FOR_KEY_OR_BRACE") ELSE added
       [] x \in EndOfLine -> KeyEnds(d)
       [] OTHER -> Invalid(d)

\* A key without a value is ignored.
AfterEqual(d, x) ==
  CASE x = "sp" -> Goto(d, "SPACE_AFTER_EQUAL")
    [] x = "quote" -> [Goto(d, "PARSING_QUOTED_VALUE") EXCEPT !.value = <<>>]
    [] x \in EndOfLine -> Goto(d, "INITIAL")
    [] x \in ValueChar -> [Goto(d, "PARSING_VALUE") EXCEPT !.value = <<x>>]
    [] OTHER -> Invalid(d)

SpaceAfterEqual(d, x) ==
  CASE x = "sp" -> d
    [] x = "#" -> Comment(d, "INITIAL")
    [] OTHER -> AfterEqual(d, x)

ParsingValue(d, x) ==
  CASE x \in ValueChar /\ Len(d.value) < ValueMaxLen -> [d EXCEPT !.value = Append(@, x)]
    [] x = "sp" -> Then(AddKey(d, "value"), "SPACE_AFTER_VALUE")
    [] x \in EndOfLine -> Then(AddKey(d, "value"), "INITIAL")
    [] OTHER -> Invalid(d)

SpaceAfterValue(d, x) ==
  CASE x = "sp" -> d
    [] x = "#" -> Comment(d, "INITIAL")
    [] x \in EndOfLine -> Goto(d, "INITIAL")
    [] OTHER -> Invalid(d)

\* An empty value in quotes is ignored with its key.
ParsingQuotedValue(d, x) ==
  CASE x = "quote" /\ d.value # <<>> -> Then(AddKey(d, "value"), "SPACE_AFTER_VALUE")
    [] x = "quote" /\ d.value = <<>> -> Goto(d, "SPACE_AFTER_VALUE")
    [] x # "quote" /\ Len(d.value) = ValueMaxLen -> Invalid(d)
    [] x = "\\" /\ Len(d.value) < ValueMaxLen -> Goto(d, "PARSING_ESCAPE_CHARACTER")
    [] OTHER -> [d EXCEPT !.value = Append(@, x)]

\* Of the characters that stand for another after a "\", "quote" and "\" only.
ParsingEscapeCharacter(d, x) ==
  IF x \in {"quote", "\\"} THEN [Goto(d, "PARSING_QUOTED_VALUE") EXCEPT !.value = Append(@, x)]
  ELSE Invalid(d)

WaitingForKeyOrBrace(d, x) ==
  CASE x \in Letters -> KeyStarts(d, x)
    [] x = "#" -> Comment(d, "WAITING_FOR_KEY_OR_BRACE")
    [] x \in White -> d
    [] x = "{" -> OpenLevel(d)
    [] x = "}" -> CloseLevel(d)
    [] OTHER -> Invalid(d)

AfterOpeningBrace(d, x) == IF x \in White THEN Goto(d, "WAITING_FOR_KEY") ELSE Invalid(d)

WaitingForKey(d, x) ==
  CASE x \in Letters -> KeyStarts(d, x)
    [] x = "#" -> Comment(d, "WAITING_FOR_KEY")
    [] x \in White -> d
    [] OTHER -> Invalid(d)

AfterClosingBrace(d, x) == IF x \in White THEN Goto(d, "INITIAL") ELSE Invalid(d)

Turn(d, x) ==
  CASE d.state = "INITIAL" -> Initial(d, x)
    [] d.state = "PARSING_COMMENT" -> ParsingComment(d, x)
    [] d.state = "PARSING_KEY" -> ParsingKey(d, x)
    [] d.state = "SPACE_AFTER_KEY" -> SpaceAfterKey(d, x)
    [] d.state = "AFTER_EQUAL" -> AfterEqual(d, x)
    [] d.state = "SPACE_AFTER_EQUAL" -> SpaceAfterEqual(d, x)
    [] d.state = "PARSING_VALUE" -> ParsingValue(d, x)
    [] d.state = "SPACE_AFTER_VALUE" -> SpaceAfterValue(d, x)
    [] d.state = "PARSING_QUOTED_VALUE" -> ParsingQuotedValue(d, x)
    [] d.state = "PARSING_ESCAPE_CHARACTER" -> ParsingEscapeCharacter(d, x)
    [] d.state = "WAITING_FOR_KEY_OR_BRACE" -> WaitingForKeyOrBrace(d, x)
    [] d.state = "AFTER_OPENING_BRACE" -> AfterOpeningBrace(d, x)
    [] d.state = "WAITING_FOR_KEY" -> WaitingForKey(d, x)
    [] d.state = "AFTER_CLOSING_BRACE" -> AfterClosingBrace(d, x)

\* parse(): nothing is read after an error.
Step(d, x) == IF d.result = "more" THEN Turn(d, x) ELSE d

\* end_parsing(): the states a file may end in, at the root.
EndParsing(d) ==
  LET type == IF d.state \in {"PARSING_VALUE", "SPACE_AFTER_VALUE"} THEN "value" ELSE "key"
      added == AddKey(d, type)
  IN CASE d.level # Root -> Invalid(d)
       [] d.level = Root /\ d.state \in {"INITIAL", "AFTER_EQUAL", "SPACE_AFTER_EQUAL",
                                         "WAITING_FOR_KEY_OR_BRACE", "AFTER_CLOSING_BRACE"} ->
            Refuse(d, "done")
       [] d.level = Root /\ d.state = "PARSING_COMMENT" ->
            Refuse(d, IF d.prev = "WAITING_FOR_KEY" THEN "invalid" ELSE "done")
       [] d.level = Root /\ d.state \in {"PARSING_KEY", "SPACE_AFTER_KEY",
                                         "PARSING_VALUE", "SPACE_AFTER_VALUE"} ->
            IF added.result = "more" THEN Refuse(added, "done") ELSE added
       [] OTHER -> Invalid(d)

-----------------------------------------------------------------------------
\* find(): the key at the end of a path; a key with a value, or without
\* children, must be the last one.
Find(d, path) ==
  LET Down(at, name) ==
        LET keys == d.levels[at.level].keys
            place == PlaceIn(keys, name)
            entry == keys[place.at]
        IN CASE ~at.ok \/ at.level = NoLevel -> [at EXCEPT !.ok = FALSE]
             [] at.ok /\ at.level # NoLevel /\ ~place.found -> [at EXCEPT !.ok = FALSE]
             [] OTHER -> [ok |-> TRUE, key |-> entry,
                          level |-> IF entry.type = "value" THEN NoLevel ELSE entry.children]
      found == FoldLeft(Down, [ok |-> TRUE, key |-> NoKey, level |-> Root], path)
  IN IF found.ok THEN found.key ELSE NoKey

\* get_value().
Value(d, path) ==
  LET key == Find(d, path)
  IN IF key = NoKey \/ key.type # "value" THEN <<>> ELSE key.value

Init ==
  /\ \/ \E s \in Source : text = s.text /\ written = <<s.tree>> /\ left = 0
     \/ \E b \in Beginning : text = b /\ written = <<>> /\ left = MaxMore
  /\ c = FoldLeft(Step, Fresh, text)

Read(x) ==
  /\ c.result = "more" /\ left > 0
  /\ text' = Append(text, x) /\ c' = Turn(c, x) /\ left' = left - 1
  /\ UNCHANGED written

End ==
  /\ c.result = "more"
  /\ c' = EndParsing(c)
  /\ UNCHANGED <<text, written, left>>

Next == (\E x \in Char : Read(x)) \/ End

Spec == Init /\ [][Next]_vars

-----------------------------------------------------------------------------
States == {"INITIAL", "PARSING_COMMENT", "PARSING_KEY", "SPACE_AFTER_KEY", "AFTER_EQUAL",
           "SPACE_AFTER_EQUAL", "PARSING_VALUE", "SPACE_AFTER_VALUE", "PARSING_QUOTED_VALUE",
           "PARSING_ESCAPE_CHARACTER", "WAITING_FOR_KEY_OR_BRACE", "AFTER_OPENING_BRACE",
           "WAITING_FOR_KEY", "AFTER_CLOSING_BRACE"}

\* The state of the automaton is one of its own, and neither a key nor a
\* value is longer than the array it is written to.
TypeOK ==
  /\ c.state \in States
  /\ c.prev \in {"INITIAL", "WAITING_FOR_KEY", "WAITING_FOR_KEY_OR_BRACE"}
  /\ c.result \in {"more", "done", "invalid", "duplicated"}
  /\ c.level \in 1 .. Len(c.levels)
  /\ Len(c.key) \in 0 .. KeyMaxLen /\ Len(c.value) \in 0 .. ValueMaxLen

\* Every level but the root belongs to one key, of the level that is its
\* parent; find() is about to go down them, and "}" up.  No value has one, and
\* the key a "{" would be for has none yet.
LevelsAreATree ==
  /\ \A n \in 2 .. Len(c.levels) :
       /\ c.levels[n].parent \in 1 .. n - 1
       /\ \E k \in 1 .. Len(c.levels[c.levels[n].parent].keys) :
            LET keys == c.levels[c.levels[n].parent].keys
            IN /\ keys[k].children = n /\ keys[k].type = "key"
               /\ \A m \in 1 .. Len(keys) : keys[m].children = n => m = k
  /\ c.state = "WAITING_FOR_KEY_OR_BRACE" /\ c.result = "more" =>
       Keys(c)[c.pos] = [name |-> c.key, type |-> "key", children |-> NoLevel, value |-> <<>>]

\* The binary searches of add_key() and find() rely on the order of the names,
\* in which none is twice.
NamesInOrder ==
  \A n \in 1 .. Len(c.levels) :
    LET keys == c.levels[n].keys
    IN InOrderOfNames([k \in 1 .. Len(keys) |-> keys[k].name])

\* A file is accepted when its braces match: outside comments and quotes, the
\* level that keys are added to is as deep as the braces that are open.
Depth(d) ==
  LET up[n \in 0 .. Len(d.levels)] == IF n \in {NoLevel, Root} THEN 0 ELSE 1 + up[d.levels[n].parent]
  IN up[d.level]

Count(x) == Len(SelectSeq(text, LAMBDA y : y = x))

DepthIsBraces ==
  c.result \in {"more", "done"} /\ ToSet(text) \cap {"quote", "#"} = {} =>
    /\ Depth(c) = Count("{") - Count("}")
    /\ c.result = "done" => Depth(c) = 0

\* Whatever its layout, a file that was written from a tree without a key
\* twice is read, and get_value() finds each key and value of the tree, and
\* nothing else is there.
ReadsWhatIsWritten ==
  written # <<>> =>
    /\ c.result \in {"more", "done"}
    /\ c.result = "done" =>
         /\ \A e \in written[1] : /\ Find(c, e.path).name = Last(e.path)
                                  /\ Value(c, e.path) = e.value
         /\ Cardinality(written[1]) =
              FoldLeft(LAMBDA n, level : n + Len(level.keys), 0, c.levels)
=============================================================================
