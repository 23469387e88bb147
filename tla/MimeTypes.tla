----------------------------- MODULE MimeTypes -----------------------------
(***************************************************************************)
(* mime::types: load() reads a file of MIME types, a type and its          *)
(* extensions on each line, with fgets() into a buffer of BufferSize       *)
(* bytes; add() keeps the extensions in order and mime_type() searches     *)
(* them.  A character is a letter, "sp" (anything up to a blank), "#" or   *)
(* "lf"; a letter stands for both its cases.                               *)
(***************************************************************************)
EXTENDS Tables, Positions

CONSTANTS
  BufferSize,   \* the size of line[]
  Source,       \* files
  Beginning,    \* and beginnings of files that go on with any characters
  MaxMore       \* bound on how many

VARIABLES
  file,         \* what has been read of the file
  rest,         \* what certainly follows
  left,         \* and how many characters more
  line,         \* how many characters of it the buffer holds
  state,        \* the state of the parser
  type,         \* the type of the line
  word,         \* the extension being read
  extensions    \* _M_extensions: <<extension, type>>, in order

vars == <<file, rest, left, line, state, type, word, extensions>>

Char == (Letters \ {"lf"}) \cup {"sp", "lf"}
Printable == Char \ {"sp", "lf"}

Init ==
  /\ file = <<>> /\ line = 0
  /\ \/ rest \in Source /\ left = 0
     \/ rest \in Beginning /\ left = MaxMore
  /\ state = 0 /\ type = <<>> /\ word = <<>>
  /\ extensions = <<>>

\* types::search(): one entry for the beginning of another is left of it.
Find(ext) ==
  Place([k \in 1 .. Len(extensions) |-> Order(ext, extensions[k][1])])

\* types::add(); an extension keeps its first type.
Add(ext) ==
  IF Find(ext).found THEN extensions ELSE InsertAt(extensions, Find(ext).at, <<ext, type>>)

\* types::mime_type(); no type stands for DEFAULT_MIME_TYPE.
MimeType(ext) == IF Find(ext).found THEN extensions[Find(ext).at][2] ELSE <<>>

-----------------------------------------------------------------------------
\* The turns of the loop on a character of a line.
InitialState(c) ==
  /\ state = 0
  /\ CASE c = "#" -> state' = 6 /\ UNCHANGED type
       [] c \in Printable \ {"#"} -> state' = 1 /\ type' = <<c>>
       [] OTHER -> UNCHANGED <<state, type>>
  /\ UNCHANGED <<word, extensions>>

ParsingType(c) ==
  /\ state = 1
  /\ IF c \in Printable THEN type' = Append(type, c) /\ UNCHANGED state
     ELSE state' = 2 /\ UNCHANGED type
  /\ UNCHANGED <<word, extensions>>

\* States 2 and 4: between words.
BeforeExtension(c) ==
  /\ state \in {2, 4}
  /\ IF c \in Printable THEN word' = <<c>> /\ state' = state + 1
     ELSE UNCHANGED <<word, state>>
  /\ UNCHANGED <<type, extensions>>

\* Defect: only the first extension of a line is added where it ends.
ParsingExtensionFirst(c) ==
  /\ state \in {3, 5}
  /\ IF c \in Printable THEN word' = Append(word, c) /\ UNCHANGED <<state, extensions>>
     ELSE extensions' = (IF state = 3 THEN Add(word) ELSE extensions) /\ state' = 4 /\ UNCHANGED word
  /\ UNCHANGED type

\* States 3 and 5: in an extension.
ParsingExtension(c) ==
  /\ state \in {3, 5}
  /\ IF c \in Printable THEN word' = Append(word, c) /\ UNCHANGED <<state, extensions>>
     ELSE extensions' = Add(word) /\ state' = 4 /\ UNCHANGED word
  /\ UNCHANGED type

Comment(c) == state = 6 /\ UNCHANGED <<state, type, word, extensions>>

EndOfFile == rest = <<>> /\ left = 0

\* The next character of the file.
Follows(c) ==
  \/ rest # <<>> /\ c = Head(rest) /\ rest' = Tail(rest) /\ UNCHANGED left
  \/ rest = <<>> /\ left > 0 /\ left' = left - 1 /\ UNCHANGED rest

\* A character of the file, while the buffer has room for it.
Read(c) ==
  /\ line < BufferSize - 1
  /\ line > 0 => Last(file) # "lf"
  /\ Follows(c)
  /\ InitialState(c) \/ ParsingType(c) \/ BeforeExtension(c) \/ ParsingExtension(c) \/ Comment(c)
  /\ file' = Append(file, c) /\ line' = line + 1

\* The end of the buffer: of a line, of the file or for want of room.
End ==
  /\ line > 0
  /\ line = BufferSize - 1 \/ EndOfFile \/ Last(file) = "lf"
  /\ line' = 0 /\ state' = 0
  /\ extensions' = IF state \in {3, 5} THEN Add(word) ELSE extensions
  /\ UNCHANGED <<file, rest, left, type, word>>

Next == (\E c \in Char : Read(c)) \/ End

Spec == Init /\ [][Next]_vars

-----------------------------------------------------------------------------
\* The file as a relation, read without the parser: its lines, each with its
\* "lf", in the pieces that fit in the buffer, and the words of a piece.
Lines ==
  LET ends == Ascending({k \in 1 .. Len(file) : file[k] = "lf"} \cup {Len(file)})
      From(n) == IF n = 1 THEN 1 ELSE ends[n - 1] + 1
  IN [n \in 1 .. Len(ends) |-> SubSeq(file, From(n), ends[n])]

PiecesOf(l) ==
  LET room == BufferSize - 1
      To(n) == IF n * room < Len(l) THEN n * room ELSE Len(l)
  IN [n \in 1 .. (Len(l) + room - 1) \div room |-> SubSeq(l, (n - 1) * room + 1, To(n))]

Pieces == FlattenSeq([n \in 1 .. Len(Lines) |-> PiecesOf(Lines[n])])

WordsOf(l) ==
  LET inWord == {k \in 1 .. Len(l) : l[k] \in Printable}
      starts == {k \in inWord : k - 1 \notin inWord}
      EndOf(k) == Max({e \in k .. Len(l) : k .. e \subseteq inWord})
      at == Ascending(starts)
  IN [n \in 1 .. Len(at) |-> SubSeq(l, at[n], EndOf(at[n]))]

IsComment(words) == words # <<>> /\ words[1][1] = "#"

\* The types that pieces, given by their words, list for an extension, the first
\* one first.
TypesOf(ext, words) ==
  LET Lists(w) == w # <<>> /\ ~IsComment(w) /\ ext \in ToSet(Tail(w))
      listing == SelectSeq(words, Lists)
  IN [n \in 1 .. Len(listing) |-> listing[n][1]]

\* Type invariant.
TypeOK ==
  /\ file \in Seq(Char) /\ rest \in Seq(Char) /\ left \in 0 .. MaxMore
  /\ line \in 0 .. BufferSize - 1
  /\ state \in 0 .. 6
  /\ \A n \in DOMAIN extensions : extensions[n][1] # <<>> /\ extensions[n][2] # <<>>

\* The extensions are in order, each of them once: what the search relies on.
SortedOnce == InOrderOfNames([n \in DOMAIN extensions |-> extensions[n][1]])

\* Once the file has been read, an extension has the type of the first line
\* that lists it, as whichever of the extensions of that line, and every other
\* one the default type.  What does not fit in the buffer is a line of its own,
\* whose first word is a type, and no comment although the line is one.
FirstLineWins ==
  EndOfFile /\ line = 0 =>
    LET words == [n \in 1 .. Len(Pieces) |-> WordsOf(Pieces[n])]
        Listing(ext) == TypesOf(ext, words)
    IN \A ext \in UNION {ToSet(words[n]) : n \in 1 .. Len(words)} :
         MimeType(ext) = IF Listing(ext) = <<>> THEN <<>> ELSE Listing(ext)[1]
=============================================================================
