---------------------------- MODULE MCRequests ----------------------------
(***************************************************************************)
(* What reads a request and sends the reply, side by side for TLC:         *)
(* "running" says which of the five a behaviour is about.                  *)
(***************************************************************************)
EXTENDS RangeReply, TLC

CONSTANTS MaxMoreBytes,      \* bytes of a request line behind its beginning
          HeadersMaxLen,     \* HEADERS_MAX_LEN
          MaxPathBytes,      \* bytes of a path
          MaxRangeChars      \* characters of the value of a Range header

VARIABLES running,                                      \* never changes
          text,                                         \* the input of the first three
          q, left,                                      \* RequestLine
          st, ignore_errors,                            \* HeaderParser
          size, p, answer,                              \* ByteRanges
          path, r, extension                            \* Paths

lineVars == <<q, left>>
headerVars == <<st, ignore_errors>>
rangeVars == <<size, p, answer>>
pathVars == <<path, r, extension>>
all == <<running, text, lineVars, headerVars, rangeVars, pathVars, vars>>

-----------------------------------------------------------------------------
(* RequestLine: every line that goes on with a few bytes from some point of *)
(* a request line.  The first beginning is one byte below the limit on the  *)
(* length of a line.                                                        *)
LineLetters == {"G", "H", "P", "T", "f", "h"}
LineBytes == LineLetters \cup {"0", "1", "/", ":", ".", "[", "]", "?", "#", "sp", "cr", "lf", "ctl", "quote"}
Beginnings ==
  LET newlines == [n \in 1 .. 19 |-> "lf"]
      absolute == <<"G", "sp", "h", ":">>
  IN { newlines, <<>>, <<"G">>, <<"G", "H", "sp">>, absolute, absolute \o <<"/", "/">>,
       absolute \o <<"/", "/", "1">>, absolute \o <<"/", "/", "[", "f">>,
       absolute \o <<"/", "/", "1", ":">>, <<"G", "sp", "/">>,
       absolute \o <<"/", "/", "1", "/", "?">>, <<"G", "sp", "/", "?", "#">>,
       <<"G", "sp", "/", "sp">>, <<"H", "sp", "/", "sp", "H", "T", "T">>,
       <<"G", "sp", "/", "#", "sp", "H", "T", "T", "P", "/", "1", ".">> }

Line == INSTANCE RequestLine WITH
  Letter <- <<".", "0", "1", "G", "H", "P", "T", "f", "h">>,
  Alpha <- LineLetters,
  Upper <- {"G", "H", "P", "T"},
  HexLetter <- {"f"},
  LowerOf <- [c \in LineBytes |-> IF c = "H" THEN "h" ELSE c],
  MethodTable <- <<<<"G">>, <<"G", "H">>, <<"H">>>>,
  SchemeTable <- <<<<"f">>, <<"h">>, <<"h", "f">>>>,
  SchemeKind <- <<"other", "http", "https">>,
  Digits <- [d \in {"0", "1"} |-> IF d = "1" THEN 1 ELSE 0],
  MethodMaxLen <- 2, SchemeMaxLen <- 3, HostMaxLen <- 3, IPv6MaxLen <- 3, MaxPort <- 110,
  RequestLineMaxLen <- 20,
  Byte <- LineBytes, Beginning <- Beginnings, MaxMore <- MaxMoreBytes

ASSUME LineTables == Line!TablesAreOrdered

-----------------------------------------------------------------------------
(* HeaderParser: one standard header that may not be repeated, one of a     *)
(* single token, and others.                                                *)
HeaderParser == INSTANCE HeaderParser WITH
  Letter <- <<"a", "b">>,
  Standard <- << [name |-> <<"a">>, type |-> 4, list |-> FALSE, single |-> FALSE],
                 [name |-> <<"b">>, type |-> 1, list |-> TRUE,  single |-> TRUE] >>,
  MaxNameLen <- 2,
  Char <- {"a", "b", ":", "sp", "cr", "lf", "ctl"}

ASSUME HeaderTable == HeaderParser!TableIsOrdered

-----------------------------------------------------------------------------
(* ByteRanges: numbers of the digits 0 and 6, of which 600 is one that      *)
(* overflows 8 bits and is still not smaller than 60.                       *)
Ranges == INSTANCE ByteRanges WITH
  Digit <- {"0", "6"}, Other <- {"x"}, Width <- 8, MaxRanges <- 2,
  FileSizes <- {0, 1, 7, 12, 127}, MaxLen <- MaxRangeChars, filesize <- size

-----------------------------------------------------------------------------
(* Paths: one letter, ".", "/", each as it is or encoded, and a "%" that is *)
(* malformed, on a connection that has served nothing yet.                  *)
Paths == INSTANCE Paths WITH
  Char <- ({"a", ".", "/"} \X BOOLEAN) \cup {<<"bad", TRUE>>},
  MaxBytes <- MaxPathBytes,
  NoSuffix <- {0, 2}

-----------------------------------------------------------------------------
(* RangeReply: files of up to 12 bytes, whose offsets have one and two      *)
(* digits, with up to three ranges.                                         *)
Piece(a, b) == [from |-> a, to |-> b]
Ask(bytes, pieces) == {[head |-> h, filesize |-> bytes, ranges |-> pieces] : h \in BOOLEAN}

UpToThreeRanges ==
  Ask(0, <<>>) \cup Ask(3, <<>>) \cup Ask(12, <<Piece(9, 11)>>)
  \cup Ask(12, <<Piece(9, 10), Piece(0, 0)>>)
  \cup Ask(10, <<Piece(1, 1), Piece(8, 9), Piece(0, 1)>>)

-----------------------------------------------------------------------------
LineRests == q = <<>> /\ left = 0
HeaderRests == st = <<>> /\ ignore_errors = FALSE
RangeRests == size = 0 /\ p = <<>> /\ answer = "none"
PathRests == path = <<>> /\ r = <<>> /\ extension = 0
ReplyRests ==
  /\ request = <<>> /\ disk = 0 /\ phase = "closed" /\ out = 0 /\ outp = 0 /\ nrange = 0
  /\ writable = FALSE /\ timer = FALSE /\ full = FALSE /\ sent = 0

RequestsInit ==
  \/ running = "line" /\ Line!Init /\ HeaderRests /\ RangeRests /\ PathRests /\ ReplyRests
  \/ running = "header" /\ HeaderParser!Init /\ LineRests /\ RangeRests /\ PathRests /\ ReplyRests
  \/ running = "ranges" /\ Ranges!Init /\ LineRests /\ HeaderRests /\ PathRests /\ ReplyRests
  \/ running = "path" /\ Paths!Init /\ text = <<>> /\ LineRests /\ HeaderRests /\ RangeRests /\ ReplyRests
  \/ running = "reply" /\ Init /\ text = <<>> /\ LineRests /\ HeaderRests /\ RangeRests /\ PathRests

\* What each leaves alone is what rests while it runs.
LineRuns ==
  /\ running = "line"
  /\ Line!Next
  /\ UNCHANGED <<running, headerVars, rangeVars, pathVars, vars>>
HeaderRuns ==
  /\ running = "header"
  /\ HeaderParser!Next
  /\ UNCHANGED <<running, lineVars, rangeVars, pathVars, vars>>
RangesRun ==
  /\ running = "ranges"
  /\ Ranges!Next
  /\ UNCHANGED <<running, lineVars, headerVars, pathVars, vars>>
PathRuns ==
  /\ running = "path"
  /\ Paths!Next
  /\ UNCHANGED <<running, text, lineVars, headerVars, rangeVars, vars>>
ReplyRuns ==
  /\ running = "reply"
  /\ Next
  /\ UNCHANGED <<running, text, lineVars, headerVars, rangeVars, pathVars>>

RequestsNext == LineRuns \/ HeaderRuns \/ RangesRun \/ PathRuns \/ ReplyRuns

\* The fairness is that of RangeReply.
RequestsSpec ==
  /\ RequestsInit
  /\ [][RequestsNext]_all
  /\ WF_all(ReplyRuns /\ Run)
  /\ WF_all(ReplyRuns /\ Idle)

-----------------------------------------------------------------------------
\* The type invariants: offsets point into what was received, and no number of
\* a range is negative.
TypesHold ==
  /\ running = "line" => Line!TypeOK
  /\ running = "header" => HeaderParser!TypeOK
  /\ running = "ranges" => Ranges!TypeOK
  /\ running = "path" => Paths!TypeOK
  /\ running = "reply" => TypeOK

\* parse_request_line() takes a text for a request line exactly when the grammar
\* does, however it was cut into pieces; the parts it found divide the URL, and
\* host and port are those of this URL and not of the one before.
LineAsTheGrammar ==
  running = "line" =>
    /\ Line!CompleteIfALine /\ Line!RefusesNoLine
    /\ Line!PartsOfTheUrl /\ Line!HostOfTheUrl

\* headers::parse() ends at the empty line of a block with the headers the
\* grammar reads there, gives up when nothing can make a block of its input and
\* not before, and never goes on behind the limit on the size of headers.
HeadersAsTheGrammar ==
  running = "header" =>
    HeaderParser!EndsAsTheGrammar /\ HeaderParser!RefusesInTime /\ HeaderParser!StopsAtTheLimit

\* The pieces get_ranges() finds are those the header asks for, each within the
\* file, also when its numbers overflow.
RangesAsAsked == running = "ranges" => Ranges!RangesInFile /\ Ranges!RangesAsAsked

\* parse_path() decodes the path once and resolves it to one below the root,
\* within the buffer it has; the extension is that of the file, and a directory
\* is redirected to itself.
PathsAreResolved ==
  running = "path" =>
    /\ Paths!PathIsResolved /\ Paths!WithinBuffer
    /\ Paths!ExtensionOfAFile /\ Paths!RedirectLeadsThere
=============================================================================
