-------------------------- MODULE DirectoryListing --------------------------
(***************************************************************************)
(* fs::directory and dirlisting::build(): the entries of a directory, in   *)
(* whatever order readdir_r() returns them, are kept in two arrays of      *)
(* indices, of files and of directories, in the order of a page.  One      *)
(* object lists one directory after another.                               *)
(*                                                                         *)
(* An entry is [name, type, key].  key is the rank of the name, regardless *)
(* of case: the criterion and the order that dirlisting is left with.  An  *)
(* entry of type "skipped" is not listed: hidden, no longer there, neither *)
(* a file nor a directory, or with a name that is too long or no UTF-8.    *)
(***************************************************************************)
EXTENDS Tables, FiniteSets

CONSTANTS
  Entry,          \* the entries directories may have, each name once
  Directory,      \* the directories that are listed, their paths in characters
  EntryAlloc,     \* ENTRY_ALLOC
  MaxEntries      \* bound on the entries of a directory

VARIABLES
  size, entries,  \* _M_size, _M_entries up to _M_used
  files,          \* _M_files up to _M_nfiles
  directories,    \* _M_directories up to _M_ndirectories
  met,            \* what readdir_r() has returned of this directory
  dir,            \* the directory being listed
  page            \* the body of the reply: none, failed or what it lists

vars == <<size, entries, files, directories, met, dir, page>>

NoPage == [is |-> "none"]
NoParent == <<>>

Init ==
  /\ size = 0 /\ entries = <<>> /\ files = <<>> /\ directories = <<>>
  /\ met = {} /\ dir = <<>> /\ page = NoPage

-----------------------------------------------------------------------------
\* search() in one of the two arrays, by strcasecmp().
PlaceOf(e, indices) ==
  Place([k \in 1 .. Len(indices) |-> e.key - entries[indices[k]].key])

\* Defect: reset() that forgets the directories of the listing before.
ResetFilesOnly == entries' = <<>> /\ files' = <<>> /\ UNCHANGED directories

\* directory::reset(): the arrays keep their size.
Reset == entries' = <<>> /\ files' = <<>> /\ directories' = <<>>

\* build() up to opendir(), of a request after the one before has been answered.
Open(d) ==
  /\ dir = <<>>
  /\ dir' = d /\ met' = {} /\ page' = NoPage
  /\ Reset
  /\ UNCHANGED size

Reading == dir # <<>>

\* allocate(): room for one entry more in each of the arrays.
Allocated ==
  IF Len(entries) < size THEN size ELSE IF size = 0 THEN EntryAlloc ELSE 2 * size

\* add(): an entry that compares equal to one of the array counts as inserted.
Add(e) ==
  LET place == PlaceOf(e, IF e.type = "file" THEN files ELSE directories)
      Indices(indices) == InsertAt(indices, place.at, Len(entries) + 1)
  IN IF place.found THEN UNCHANGED <<size, entries, files, directories>>
     ELSE /\ size' = Allocated
          /\ entries' = Append(entries, e)
          /\ IF e.type = "file" THEN files' = Indices(files) /\ UNCHANGED directories
             ELSE directories' = Indices(directories) /\ UNCHANGED files

\* One turn of the loop of read().
Read(e) ==
  /\ Reading /\ e \notin met /\ Cardinality(met) < MaxEntries
  /\ met' = met \cup {e}
  /\ IF e.type = "skipped" THEN UNCHANGED <<size, entries, files, directories>> ELSE Add(e)
  /\ UNCHANGED <<dir, page>>

\* The link to the directory above: back to the last "/" before the one at the end.
Parent(d) ==
  IF Len(d) = 1 THEN NoParent
  ELSE SubSeq(d, 1, Max({k \in 1 .. Len(d) - 1 : d[k] = "/"}))

\* The end of read(), and the page: directories first.
Build ==
  /\ Reading
  /\ dir' = <<>>
  /\ page' = [is |-> "listing", dir |-> dir, parent |-> Parent(dir),
              directories |-> [k \in 1 .. Len(directories) |-> entries[directories[k]]],
              files |-> [k \in 1 .. Len(files) |-> entries[files[k]]]]
  /\ UNCHANGED <<size, entries, files, directories, met>>

\* opendir() or readdir_r() fails.
Fail ==
  /\ Reading
  /\ dir' = <<>> /\ page' = [is |-> "failed"]
  /\ UNCHANGED <<size, entries, files, directories, met>>

Next ==
  \/ \E d \in Directory : Open(d)
  \/ \E e \in Entry : Read(e)
  \/ Build
  \/ Fail

Spec == Init /\ [][Next]_vars

-----------------------------------------------------------------------------
IsListing == page.is = "listing"

\* Type invariant: there is room for the entries, and the indices are theirs.
TypeOK ==
  /\ size \in Nat
  /\ Len(entries) <= size
  /\ ToSet(files) \cup ToSet(directories) \subseteq 1 .. Len(entries)
  /\ met \subseteq Entry

\* While a directory is read, every entry is in one of the arrays, once, and that
\* of its type; both are in the order of the page, which the search relies on.
EntriesInOrder ==
  LET Is(indices, type) == \A k \in 1 .. Len(indices) : entries[indices[k]].type = type
      Sorted(indices) ==
        \A k, l \in 1 .. Len(indices) :
          k < l => entries[indices[k]].key < entries[indices[l]].key
  IN /\ Is(files, "file") /\ Is(directories, "directory")
     /\ Sorted(files) /\ Sorted(directories)
     /\ Len(files) + Len(directories) = Len(entries)
     /\ ToSet(files) \cup ToSet(directories) = 1 .. Len(entries)

\* A page lists the files and directories of its directory and of no other, whatever
\* was listed before and whatever order they were read in.  An entry is only missing
\* when one of its type compares equal to it: add() takes that for the same entry.
ListsTheDirectory ==
  IsListing =>
    LET listed == ToSet(page.files) \cup ToSet(page.directories)
    IN /\ listed \subseteq met
       /\ \A e \in met : e.type # "skipped" =>
            \E f \in listed : f.type = e.type /\ f.key = e.key

\* The link to the parent leads to the directory that has this one as an entry.
ParentIsAbove ==
  IsListing /\ page.parent # NoParent =>
    LET rest == SubSeq(page.dir, Len(page.parent) + 1, Len(page.dir))
    IN /\ IsPrefix(page.parent, page.dir) /\ Last(page.parent) = "/"
       /\ Len(rest) > 1 /\ Last(rest) = "/" /\ "/" \notin ToSet(Front(rest))
=============================================================================
