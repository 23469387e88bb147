------------------------------ MODULE MCTables ------------------------------
(***************************************************************************)
(* What is read once and looked up later, side by side for TLC: numbers,   *)
(* the configuration, virtual hosts, MIME types, a store of headers and    *)
(* listings of directories.                                                *)
(* "running" says which of them a behaviour is about.                      *)
(***************************************************************************)
EXTENDS Numbers, Sequences

CONSTANTS MaxMoreChars,     \* characters of a configuration behind its beginning
          MaxHosts,         \* virtual hosts and aliases
          MaxTypeChars,     \* characters of a file of MIME types behind its beginning
          MaxHeaders,       \* headers in a store
          MaxEntries        \* entries of a directory

VARIABLES running,                                          \* never changes
          slen, ssign, sn, sexact, slast, sresult,          \* Numbers, signed
          text, c, written, left,                           \* Configuration
          stage, vhosts, default, loaded, asked, answer,    \* VirtualHosts
          file, rest, more, line, state, type, word, extensions,  \* MimeTypes
          store, added,                                     \* HeaderStore
          size, entries, files, directories, met, dir, page  \* DirectoryListing

signedVars == <<slen, ssign, sn, sexact, slast, sresult>>
configurationVars == <<text, c, written, left>>
vhostVars == <<stage, vhosts, default, loaded, asked, answer>>
mimeVars == <<file, rest, more, line, state, type, word, extensions>>
storeVars == <<store, added>>
listingVars == <<size, entries, files, directories, met, dir, page>>
Seqs == INSTANCE SequencesExt

all == <<running, vars, signedVars, configurationVars, vhostVars, mimeVars, storeVars, listingVars>>

-----------------------------------------------------------------------------
(* Numbers: eight bits, so that numbers overflow at every digit from the    *)
(* third on; unsigned as extended, and signed.                              *)
SignedNumbers == INSTANCE Numbers WITH
  Signed <- TRUE, Min <- -10, Max <- 11,
  len <- slen, sign <- ssign, n <- sn, exact <- sexact, last <- slast, result <- sresult

-----------------------------------------------------------------------------
(* Configuration: every file of one or two keys at the root, each with up   *)
(* to two children, in several layouts; and files that begin in every state *)
(* of the automaton and go on with any characters.                          *)
ConfigurationChars == {"a", "b", "/", "sp", "lf", "=", "{", "}", "#", "quote", "\\", "!"}

KeyNames == {<<"a">>, <<"b">>, <<"a", "b">>}
ChildNames == {<<"b">>, <<"b", "a">>}

Item(name, children, isValue) == [name |-> name, children |-> children, isValue |-> isValue]
Leaves(names) == {Item(name, <<>>, v) : name \in names, v \in BOOLEAN}
Lists(items) ==
  {<<i>> : i \in items} \cup {<<p[1], p[2]>> : p \in {q \in items \X items : q[1].name # q[2].name}}
Parents == {Item(name, l, FALSE) : name \in KeyNames, l \in Lists(Leaves(ChildNames))}
Trees == Lists(Leaves(KeyNames) \cup Parents)

\* A layout: what is around "=", how a value is written, what is between a key
\* and its "{", and what ends a line.  In five of them every two choices meet.
Plain == [eq |-> <<"=">>,
          value |-> [text |-> <<"a", "/">>, is |-> <<"a", "/">>],
          brace |-> <<"sp", "#", "{", "lf">>,
          end |-> <<"sp", "#", "}", "lf">>]
Fancy == [eq |-> <<"sp", "=", "sp">>,
          value |-> [text |-> <<"quote", "{", "\\", "quote", "quote">>, is |-> <<"{", "quote">>],
          brace |-> <<"lf", "#", "lf", "sp">>,
          end |-> <<"cr", "lf">>]
Layouts == {Plain} \cup {[Fancy EXCEPT ![part] = Plain[part]] : part \in DOMAIN Plain}

LeafText(i, y) == i.name \o (IF i.isValue THEN y.eq \o y.value.text ELSE <<>>) \o y.end
ItemText(i, y) ==
  IF i.children = <<>> THEN LeafText(i, y)
  ELSE i.name \o y.brace \o <<"{", "lf">>
       \o Seqs!FlattenSeq([k \in 1 .. Len(i.children) |-> LeafText(i.children[k], y)]) \o <<"}", "lf">>
Text(t, y) == Seqs!FlattenSeq([k \in 1 .. Len(t) |-> ItemText(t[k], y)])

KeyAt(path, i, y) == [path |-> Append(path, i.name), value |-> IF i.isValue THEN y.value.is ELSE <<>>]
KeysOf(t, y) ==
  UNION {{KeyAt(<<>>, t[k], y)} \cup
         {KeyAt(<<t[k].name>>, t[k].children[m], y) : m \in 1 .. Len(t[k].children)} : k \in 1 .. Len(t)}

Files == {[text |-> Text(t, y), tree |-> KeysOf(t, y)] : t \in Trees, y \in Layouts}

Configuration == INSTANCE Configuration WITH
  Letter <- <<"a", "b">>, KeyMaxLen <- 2, ValueMaxLen <- 2, Char <- ConfigurationChars,
  Source <- Files,
  Beginning <- {<<>>, <<"b", "lf">>, <<"b", "sp", "{", "lf", "a", "=", "b">>,
                <<"b", "lf", "{", "lf", "a", "lf">>, <<"a", "=", "quote", "a">>},
  MaxMore <- MaxMoreChars

-----------------------------------------------------------------------------
(* VirtualHosts: names of which one is the beginning of another, an IPv6    *)
(* address, the ports of both schemes and a third one.                      *)
VirtualHosts == INSTANCE VirtualHosts WITH
  Letter <- <<":", "1", "80", "443", "2000", "[", "]", "a", "b">>,
  PortLetter <- [t \in {"1", "80", "443", "2000"} |->
                   CASE t = "1" -> 1 [] t = "80" -> 80 [] t = "443" -> 443 [] OTHER -> 2000],
  HttpPort <- 80, HttpsPort <- 443, ListenPort <- {80, 443, 2000},
  Key <- {<<"a">>, <<"a", ":", "443">>, <<"a", ":", "2000">>, <<"a", "b">>,
          <<":", "80">>, <<"b", ":", "a">>, <<":", ":", "1", ":", "2000">>},
  Name <- {<<"a">>, <<"a", "b">>, <<":", ":", "1">>},
  Literal <- {<<":", ":", "1">>}

-----------------------------------------------------------------------------
(* MimeTypes: every file of a line with up to three extensions and one with *)
(* up to two, in several layouts, of which the longer lines do not fit in   *)
(* the buffer, and files that go on with any characters from a type, an     *)
(* extension or a comment that fills most of it.                            *)
ExtensionNames == {<<"a">>, <<"b">>, <<"a", "b">>}
Listed(first, exts) == first \o Seqs!FlattenSeq([k \in 1 .. Len(exts) |-> <<"sp">> \o exts[k]])
TypeLines(first, atMost) ==
  UNION {{Listed(first, exts) : exts \in [1 .. k -> ExtensionNames]} : k \in 0 .. atMost}

FirstLines ==
  UNION {{l \o <<"lf">>, <<"sp">> \o l \o <<"sp", "lf">>, <<"sp", "#">> \o l \o <<"lf">>} :
         l \in TypeLines(<<"a">>, 3)}
LastLines == UNION {{l, l \o <<"sp", "lf">>} : l \in TypeLines(<<"b">>, 2)}

MimeTypes == INSTANCE MimeTypes WITH
  Letter <- <<"#", "a", "b">>, BufferSize <- 10, MaxMore <- MaxTypeChars, left <- more,
  Source <- {f[1] \o f[2] : f \in FirstLines \X LastLines},
  Beginning <- {<<>>, <<"a", "sp", "b", "sp">>, <<"a", "sp", "a", "lf", "b">>,
                <<"#", "sp", "a", "sp", "b", "sp", "a">>}

-----------------------------------------------------------------------------
(* HeaderStore: four standard headers of three types, one a prefix of       *)
(* another, and two others.                                                 *)
Row(name, kind, list, single) == [name |-> name, type |-> kind, list |-> list, single |-> single]

HeaderStore == INSTANCE HeaderStore WITH
  Letter <- <<"a", "b", "c">>,
  Standard <- << Row(<<"a">>, 4, TRUE, FALSE), Row(<<"a", "b">>, 1, FALSE, FALSE),
                 Row(<<"b">>, 2, FALSE, TRUE), Row(<<"c", "a">>, 2, TRUE, FALSE) >>,
  MaxNameLen <- 2, HeadersMaxLen <- 99,
  Name <- {<<"b", "c">>, <<"c">>},
  Value <- {<<"sp", "a">>, <<"b", "sp", "cr", "lf", "sp", ":">>, <<"sp", "lf", "sp">>}

ASSUME StoreTable == HeaderStore!TableIsOrdered

-----------------------------------------------------------------------------
(* DirectoryListing: of files and directories two have names that differ in *)
(* case alone; directories are before, between and behind files.            *)
DirEntry(name, kind, key) == [name |-> name, type |-> kind, key |-> key]

DirectoryListing == INSTANCE DirectoryListing WITH
  Letter <- <<>>, EntryAlloc <- 2,
  Entry <- {DirEntry("b", "file", 2), DirEntry("c", "file", 3), DirEntry("C", "file", 3),
            DirEntry("e", "file", 5), DirEntry("a", "directory", 1),
            DirEntry("d", "directory", 4), DirEntry("D", "directory", 4),
            DirEntry("f", "directory", 6), DirEntry(".g", "skipped", 0)},
  Directory <- {<<"/">>, <<"/", "a", "/">>, <<"/", "a", "/", "b", "a", "/">>}

-----------------------------------------------------------------------------
ConfigurationRests == text = <<>> /\ c = <<>> /\ written = <<>> /\ left = 0
VirtualHostsRest ==
  stage = "loading" /\ vhosts = <<>> /\ default = <<>> /\ loaded = <<>> /\ asked = <<>> /\ answer = <<>>
MimeTypesRest ==
  file = <<>> /\ rest = <<>> /\ more = 0 /\ line = 0 /\ state = 0 /\ type = <<>> /\ word = <<>> /\ extensions = <<>>
HeaderStoreRests == store = <<>> /\ added = <<>>
ListingRests ==
  /\ size = 0 /\ entries = <<>> /\ files = <<>> /\ directories = <<>>
  /\ met = {} /\ dir = <<>> /\ page = DirectoryListing!NoPage
NumbersRest == Init /\ SignedNumbers!Init

TablesInit ==
  \/ /\ running \in {"unsigned", "signed"} /\ NumbersRest
     /\ ConfigurationRests /\ VirtualHostsRest /\ MimeTypesRest /\ HeaderStoreRests /\ ListingRests
  \/ /\ running = "configuration" /\ Configuration!Init
     /\ NumbersRest /\ VirtualHostsRest /\ MimeTypesRest /\ HeaderStoreRests /\ ListingRests
  \/ /\ running = "vhosts" /\ VirtualHosts!Init
     /\ NumbersRest /\ ConfigurationRests /\ MimeTypesRest /\ HeaderStoreRests /\ ListingRests
  \/ /\ running = "mime" /\ MimeTypes!Init
     /\ NumbersRest /\ ConfigurationRests /\ VirtualHostsRest /\ HeaderStoreRests /\ ListingRests
  \/ /\ running = "store" /\ HeaderStore!Init
     /\ NumbersRest /\ ConfigurationRests /\ VirtualHostsRest /\ MimeTypesRest /\ ListingRests
  \/ /\ running = "listing" /\ DirectoryListing!Init
     /\ NumbersRest /\ ConfigurationRests /\ VirtualHostsRest /\ MimeTypesRest /\ HeaderStoreRests

\* What each leaves alone is what rests while it runs.
UnsignedRuns ==
  /\ running = "unsigned"
  /\ Next
  /\ UNCHANGED <<running, signedVars, configurationVars, vhostVars, mimeVars, storeVars, listingVars>>
SignedRuns ==
  /\ running = "signed"
  /\ SignedNumbers!Next
  /\ UNCHANGED <<running, vars, configurationVars, vhostVars, mimeVars, storeVars, listingVars>>
ConfigurationRuns ==
  /\ running = "configuration"
  /\ Configuration!Next
  /\ UNCHANGED <<running, vars, signedVars, vhostVars, mimeVars, storeVars, listingVars>>
VirtualHostsRun ==
  /\ running = "vhosts"
  /\ VirtualHosts!Next
  /\ UNCHANGED <<running, vars, signedVars, configurationVars, mimeVars, storeVars, listingVars>>
MimeTypesRun ==
  /\ running = "mime"
  /\ MimeTypes!Next
  /\ UNCHANGED <<running, vars, signedVars, configurationVars, vhostVars, storeVars, listingVars>>
HeaderStoreRuns ==
  /\ running = "store"
  /\ HeaderStore!Next
  /\ UNCHANGED <<running, vars, signedVars, configurationVars, vhostVars, mimeVars, listingVars>>
DirectoryListingRuns ==
  /\ running = "listing"
  /\ DirectoryListing!Next
  /\ UNCHANGED <<running, vars, signedVars, configurationVars, vhostVars, mimeVars, storeVars>>

TablesNext ==
  \/ UnsignedRuns \/ SignedRuns \/ ConfigurationRuns
  \/ VirtualHostsRun \/ MimeTypesRun \/ HeaderStoreRuns
  \/ DirectoryListingRuns

TablesSpec == TablesInit /\ [][TablesNext]_all

-----------------------------------------------------------------------------
\* number::parse() reads a number whose digits the type can hold as written, and takes
\* no larger one for a number of a small range.
NumbersAreRead ==
  /\ TypeOK /\ SignedNumbers!TypeOK
  /\ FittingNumbersAreRead /\ ExactInSmallRange
  /\ SignedNumbers!FittingNumbersAreRead /\ SignedNumbers!ExactInSmallRange

\* configuration::parse() accepts a file when its braces match, finds in one
\* that was written from a tree the keys and values of that tree whatever the
\* layout, and keeps each level under its one key and in the order the binary
\* searches rely on.
ConfigurationIsRead ==
  running = "configuration" =>
    /\ Configuration!TypeOK
    /\ Configuration!DepthIsBraces /\ Configuration!ReadsWhatIsWritten
    /\ Configuration!LevelsAreATree /\ Configuration!NamesInOrder

\* The virtual hosts and aliases of the configuration are found and no others;
\* a request is answered by the host it names or the default one, the same
\* whether it names it in its URL or in a Host header.
HostsAreFound ==
  running = "vhosts" =>
    /\ VirtualHosts!TypeOK /\ VirtualHosts!FindsWhatWasLoaded
    /\ VirtualHosts!AnsweredByItsHost /\ VirtualHosts!SameHostEitherWay

\* An extension has the type of the first line that lists it, first or later in
\* that line, found by a binary search over extensions that are sorted, each there
\* once; what does not fit in the buffer is read as a line of its own.
TypesAreFound ==
  running = "mime" => MimeTypes!TypeOK /\ MimeTypes!SortedOnce /\ MimeTypes!FirstLineWins

\* A store of headers has what was added to it and not removed, in order and in
\* the groups of the types; a search finds the one of its name added last, and
\* what is serialized is parsed back.
StoreKeepsHeaders ==
  running = "store" =>
    /\ HeaderStore!TypeOK /\ HeaderStore!KeepsWhatWasAdded /\ HeaderStore!GroupedByType
    /\ HeaderStore!FindsTheLast /\ HeaderStore!RoundTrip

\* A listing has the files and directories of the directory that was asked for,
\* in the order of their names, whatever order they were read in; the arrays are in
\* order while they grow, and nothing of an earlier listing is left.  Of names that
\* differ in case alone the first is listed.
DirectoriesAreListed ==
  running = "listing" =>
    /\ DirectoryListing!TypeOK /\ DirectoryListing!EntriesInOrder
    /\ DirectoryListing!ListsTheDirectory /\ DirectoryListing!ParentIsAbove
=============================================================================
